------------------------------ MODULE Bot_proofs ------------------------------
(***************************************************************************)
(* Proofs, for any number of players, bots and mines, any sizes and any    *)
(* speed, of what MCBot checks of the bodies' motion for two players and   *)
(* one mine.                                                               *)
(***************************************************************************)
EXTENDS Bot, FoldTheorems

(***************************************************************************)
(* Bodies.                                                                 *)
(***************************************************************************)
LEMMA BodyFacts ==
  /\ Groups \cap Mines = {} /\ Groups \subseteq Bodies /\ Mines \subseteq Bodies
  /\ IsFiniteSet(Players) /\ Cardinality(Players) = MaxPlayerCount
  /\ IsFiniteSet(Mines) /\ Cardinality(Mines) = MaxMineCount
  /\ IsFiniteSet(Bodies) /\ Cardinality(Bodies) = MaxPlayerCount + MaxMineCount
<1>1. MaxPlayerCount \in Nat \ {0} /\ MaxMineCount \in Nat
  BY PhysicsAssumption
<1>2. Groups \cap Mines = {} /\ Groups \subseteq Bodies /\ Mines \subseteq Bodies
  BY <1>1 DEF Groups, Mines, Bodies
<1>3. IsFiniteSet(Players) /\ Cardinality(Players) = MaxPlayerCount
  BY <1>1, FS_Interval DEF Players
<1>4. IsFiniteSet(Mines) /\ Cardinality(Mines) = MaxMineCount
  <2>1. MaxPlayerCount + 1 \in Int /\ MaxPlayerCount + MaxMineCount \in Int
    BY <1>1
  <2>2. /\ IsFiniteSet(Mines)
        /\ Cardinality(Mines) = IF MaxPlayerCount + 1 > MaxPlayerCount + MaxMineCount THEN 0
                                ELSE (MaxPlayerCount + MaxMineCount) - (MaxPlayerCount + 1) + 1
    BY <2>1, FS_Interval DEF Mines
  <2> QED
    BY <1>1, <2>2
<1>5. Bodies = 1 .. MaxPlayerCount + MaxMineCount
  BY <1>1 DEF Bodies, Groups, Mines
<1>6. IsFiniteSet(Bodies) /\ Cardinality(Bodies) = MaxPlayerCount + MaxMineCount
  <2>1. 1 \in Int /\ MaxPlayerCount + MaxMineCount \in Int
    BY <1>1
  <2>2. /\ IsFiniteSet(Bodies)
        /\ Cardinality(Bodies) = IF 1 > MaxPlayerCount + MaxMineCount THEN 0
                                 ELSE (MaxPlayerCount + MaxMineCount) - 1 + 1
    BY <1>5, <2>1, FS_Interval
  <2> QED
    BY <1>1, <2>2
<1> QED
  BY <1>2, <1>3, <1>4, <1>6

(***************************************************************************)
(* The order in which the bodies are visited.                              *)
(***************************************************************************)

\* The loop that selects, element by element.
Selecting(v, seq, S, ids) ==
  /\ v \in [0 .. Len(seq) -> Seq(S)]
  /\ v[0] = <<>>
  /\ \A k \in 1 .. Len(seq) : v[k] = IF seq[k] \in ids THEN Append(v[k - 1], seq[k]) ELSE v[k - 1]

LEMMA SelectedValues ==
  ASSUME NEW S, NEW seq \in Seq(S), NEW ids
  PROVE  \E v : Selecting(v, seq, S, ids) /\ Selected(seq, ids) = v[Len(seq)]
<1> DEFINE n == Len(seq)
           V == Seq(S)
           F(it) == [s \in SUBSET DOMAIN seq |->
                       IF s = {} THEN <<>>
                       ELSE IF seq[Max(s)] \in ids THEN Append(it[s \ {Max(s)}], seq[Max(s)])
                            ELSE it[s \ {Max(s)}]]
           fold == CHOOSE it : it = F(it)
           step == [z \in V \X (1 .. n) |->
                      IF seq[z[2]] \in ids THEN Append(z[1], seq[z[2]]) ELSE z[1]]
<1>1. Selected(seq, ids) = fold[DOMAIN seq]
  BY Zenon DEF Selected, FoldLeft, MapThenFoldSet
<1>2. DOMAIN seq = 1 .. n /\ n \in Nat /\ <<>> \in V
  OBVIOUS
<1>3. step \in [V \X (1 .. n) -> V]
  <2>1. ASSUME NEW q \in V, NEW k \in 1 .. n
        PROVE  (IF seq[k] \in ids THEN Append(q, seq[k]) ELSE q) \in V
    OBVIOUS
  <2> HIDE DEF V, n
  <2> QED
    BY <2>1
<1> HIDE DEF V
<1>4. PICK it \in [SUBSET (1 .. n) -> V] : SeqRecursion(it, n, <<>>, step)
  <2> HIDE DEF step, n
  <2> QED
    BY <1>2, <1>3, FoldExists
<1>5. it = F(it)
  <2>1. ASSUME NEW s \in SUBSET (1 .. n), s # {}
        PROVE  Max(s) \in 1 .. n /\ it[s \ {Max(s)}] \in V
    BY <1>2, <1>4, <2>1, MaxIsLargest
  <2> QED
    BY <1>2, <1>4, <2>1 DEF SeqRecursion
<1>6. fold = F(fold)
  BY <1>5
<1>7. SeqStep(fold, n, V, <<>>, step)
  <2> HIDE DEF fold
  <2>1. fold[{}] = <<>>
    BY <1>2, <1>6
  <2>2. ASSUME NEW s \in SUBSET (1 .. n), s # {}, fold[s \ {Max(s)}] \in V
        PROVE  fold[s] = step[<<fold[s \ {Max(s)}], Max(s)>>]
    <3>1. Max(s) \in 1 .. n
      BY <1>2, <2>2, MaxIsLargest
    <3> QED
      BY <1>2, <1>6, <2>2, <3>1
  <2> QED
    BY <2>1, <2>2 DEF SeqStep
<1>8. PICK v \in [0 .. n -> V] : Values(v, fold, n, <<>>, step)
  <2> HIDE DEF step, n, fold
  <2> QED
    BY <1>2, <1>3, <1>7, FoldValues
<1>9. ASSUME NEW k \in 1 .. n
      PROVE  v[k] = IF seq[k] \in ids THEN Append(v[k - 1], seq[k]) ELSE v[k - 1]
  <2>1. v[k - 1] \in V
    BY <1>2
  <2> QED
    BY <1>2, <1>8, <2>1 DEF Values
<1> HIDE DEF fold
<1> QED
  BY <1>1, <1>2, <1>8, <1>9 DEF Values, Selecting, V

\* What a sequence has when an element, or another sequence, is added.
LEMMA ToSetFacts ==
  ASSUME NEW S, NEW seq \in Seq(S)
  PROVE  /\ \A e \in S : ToSet(Append(seq, e)) = ToSet(seq) \cup {e}
         /\ \A more \in Seq(S) : ToSet(seq \o more) = ToSet(seq) \cup ToSet(more)
<1>1. ASSUME NEW e \in S
      PROVE  ToSet(Append(seq, e)) = ToSet(seq) \cup {e}
  <2>1. /\ \A i \in DOMAIN seq : i \in DOMAIN Append(seq, e) /\ Append(seq, e)[i] = seq[i]
        /\ \A i \in DOMAIN Append(seq, e) : i = Len(seq) + 1 \/ i \in DOMAIN seq
        /\ Len(seq) + 1 \in DOMAIN Append(seq, e) /\ Append(seq, e)[Len(seq) + 1] = e
    BY AppendElements
  <2> DEFINE longer == Append(seq, e)
  <2> HIDE DEF longer
  <2> QED
    BY <2>1 DEF ToSet, longer
<1>2. ASSUME NEW more \in Seq(S)
      PROVE  ToSet(seq \o more) = ToSet(seq) \cup ToSet(more)
  <2> DEFINE both == seq \o more
             n == Len(seq)
             m == Len(more)
  <2>1. /\ n \in Nat /\ m \in Nat /\ DOMAIN seq = 1 .. n /\ DOMAIN more = 1 .. m
        /\ DOMAIN both = 1 .. n + m
        /\ \A i \in 1 .. n : both[i] = seq[i]
        /\ \A i \in 1 .. m : both[n + i] = more[i]
    BY ConcatProperties, LenProperties
  <2> HIDE DEF both, n, m
  <2>2. \A i \in 1 .. n + m : i \in 1 .. n \/ (i - n \in 1 .. m /\ both[i] = more[i - n])
    <3> TAKE i \in 1 .. n + m
    <3>1. CASE i > n
      <4>1. PICK j \in 1 .. m : i = n + j
        <5>1. i - n \in 1 .. m /\ i = n + (i - n)
          BY <2>1, <3>1
        <5> QED
          BY <5>1
      <4>2. i - n = j
        BY <2>1, <4>1
      <4> QED
        BY <2>1, <4>1, <4>2
    <3>2. CASE ~ (i > n)
      BY <2>1, <3>2
    <3> QED
      BY <3>1, <3>2
  <2>3. ToSet(both) \subseteq ToSet(seq) \cup ToSet(more)
    BY <2>1, <2>2 DEF ToSet
  <2>4. ToSet(seq) \subseteq ToSet(both)
    BY <2>1 DEF ToSet
  <2>5. ToSet(more) \subseteq ToSet(both)
    BY <2>1 DEF ToSet
  <2> QED
    BY <2>3, <2>4, <2>5 DEF both
<1> QED
  BY <1>1, <1>2

LEMMA SelectedType ==
  ASSUME NEW S, NEW seq \in Seq(S), NEW ids
  PROVE  Selected(seq, ids) \in Seq(S)
<1>1. PICK v : Selecting(v, seq, S, ids) /\ Selected(seq, ids) = v[Len(seq)]
  BY SelectedValues
<1>2. Len(seq) \in 0 .. Len(seq)
  BY LenProperties
<1> QED
  BY <1>1, <1>2 DEF Selecting

\* What is selected is what is in both.
LEMMA SelectedHas ==
  ASSUME NEW S, NEW seq \in Seq(S), NEW ids
  PROVE  ToSet(Selected(seq, ids)) = ToSet(seq) \cap ids
<1>1. PICK v : Selecting(v, seq, S, ids) /\ Selected(seq, ids) = v[Len(seq)]
  BY SelectedValues
<1>2. PICK n \in Nat : n = Len(seq) /\ DOMAIN seq = 1 .. n /\ \A i \in 1 .. n : seq[i] \in S
  BY LenProperties
<1>3. /\ v \in [0 .. n -> Seq(S)] /\ v[0] = <<>>
      /\ \A k \in 1 .. n : v[k] = IF seq[k] \in ids THEN Append(v[k - 1], seq[k]) ELSE v[k - 1]
  BY <1>1, <1>2 DEF Selecting
<1> DEFINE V == [k \in 0 .. n |-> {q \in Seq(S) : ToSet(q) = {seq[i] : i \in 1 .. k} \cap ids}]
<1>4. v[0] \in V[0]
  <2>1. 1 .. 0 = {} /\ ToSet(<<>>) = {}
    BY DEF ToSet
  <2> QED
    BY <1>3, <2>1
<1>5. ASSUME NEW k \in 1 .. n, v[k - 1] \in V[k - 1]
      PROVE  v[k] \in V[k]
  <2>1. PICK j \in 0 .. n : j = k - 1
    OBVIOUS
  <2>2. PICK a \in Seq(S) : a = v[j]
    BY <1>3
  <2>3. PICK e \in S : e = seq[k]
    BY <1>2
  <2>4. {seq[i] : i \in 1 .. k} = {seq[i] : i \in 1 .. j} \cup {e}
    <3>1. 1 .. k = (1 .. j) \cup {k}
      BY <2>1
    <3> QED
      BY <2>3, <3>1
  <2>5. ToSet(a) = {seq[i] : i \in 1 .. j} \cap ids
    BY <1>5, <2>1, <2>2
  <2>6. ToSet(Append(a, e)) = ToSet(a) \cup {e} /\ Append(a, e) \in Seq(S)
    BY ToSetFacts, AppendProperties
  <2>7. v[k] = IF e \in ids THEN Append(a, e) ELSE a
    BY <1>3, <2>1, <2>2, <2>3
  <2>8. ToSet(v[k]) = {seq[i] : i \in 1 .. k} \cap ids /\ v[k] \in Seq(S)
    BY <2>4, <2>5, <2>6, <2>7
  <2> QED
    BY <2>8
<1>6. v[n] \in V[n]
  <2> HIDE DEF V
  <2>1. \A k \in 1 .. n : v[k - 1] \in V[k - 1] => v[k] \in V[k]
    BY <1>5
  <2>2. \A k \in 0 .. n : v[k] \in V[k]
    BY <1>4, <2>1, LoopFollows
  <2> QED
    BY <2>2
<1>7. ToSet(seq) = {seq[i] : i \in 1 .. n}
  BY <1>2 DEF ToSet
<1> QED
  BY <1>1, <1>2, <1>6, <1>7

\* Those that are in a set, and after them all others, are all.
LEMMA PartitionKeepsAll ==
  ASSUME NEW S, NEW seq \in Seq(S), NEW A, NEW B, \A x \in S : x \in A <=> x \notin B
  PROVE  LET q == Selected(seq, A) \o Selected(seq, B)
         IN q \in Seq(S) /\ Len(q) = Len(seq) /\ ToSet(q) = ToSet(seq)
<1>1. PICK v : Selecting(v, seq, S, A) /\ Selected(seq, A) = v[Len(seq)]
  BY SelectedValues
<1>2. PICK w : Selecting(w, seq, S, B) /\ Selected(seq, B) = w[Len(seq)]
  BY SelectedValues
<1>3. PICK n \in Nat : n = Len(seq) /\ DOMAIN seq = 1 .. n /\ \A i \in 1 .. n : seq[i] \in S
  BY LenProperties
<1>4. /\ v \in [0 .. n -> Seq(S)] /\ w \in [0 .. n -> Seq(S)] /\ v[0] = <<>> /\ w[0] = <<>>
      /\ \A k \in 1 .. n : v[k] = IF seq[k] \in A THEN Append(v[k - 1], seq[k]) ELSE v[k - 1]
      /\ \A k \in 1 .. n : w[k] = IF seq[k] \in B THEN Append(w[k - 1], seq[k]) ELSE w[k - 1]
  BY <1>1, <1>2, <1>3 DEF Selecting
<1> DEFINE Done(k) == /\ Len(v[k]) + Len(w[k]) = k
                      /\ ToSet(v[k]) \cup ToSet(w[k]) = {seq[i] : i \in 1 .. k}
           N == {k \in Nat : k <= n => Done(k)}
<1> HIDE DEF Done
<1>5. 0 \in N
  <2>1. 1 .. 0 = {} /\ Len(<<>>) = 0 /\ ToSet(<<>>) = {}
    BY DEF ToSet
  <2> QED
    BY <1>4, <2>1 DEF Done
<1>6. ASSUME NEW j \in Nat, j \in N
      PROVE  j + 1 \in N
  <2> SUFFICES ASSUME j + 1 <= n
               PROVE  Done(j + 1)
    OBVIOUS
  <2>1. PICK k \in 1 .. n : k = j + 1
    OBVIOUS
  <2>2. k - 1 = j /\ j <= n /\ j \in 0 .. n
    BY <2>1
  <2>3. PICK a \in Seq(S) : a = v[j]
    BY <1>4, <2>2
  <2>4. PICK b \in Seq(S) : b = w[j]
    BY <1>4, <2>2
  <2>5. /\ Len(a) + Len(b) = j
        /\ ToSet(a) \cup ToSet(b) = {seq[i] : i \in 1 .. j}
    BY <1>6, <2>2, <2>3, <2>4 DEF Done
  <2>6. PICK e \in S : e = seq[k]
    BY <1>3
  <2>7. {seq[i] : i \in 1 .. k} = {seq[i] : i \in 1 .. j} \cup {e}
    <3>1. 1 .. k = (1 .. j) \cup {k}
      BY <2>1
    <3> QED
      BY <2>6, <3>1
  <2>8. /\ ToSet(Append(a, e)) = ToSet(a) \cup {e} /\ ToSet(Append(b, e)) = ToSet(b) \cup {e}
        /\ Len(Append(a, e)) = Len(a) + 1 /\ Len(Append(b, e)) = Len(b) + 1
        /\ Len(a) \in Nat /\ Len(b) \in Nat
    BY ToSetFacts, AppendProperties, LenProperties
  <2>9. CASE e \in A
    <3>1. v[k] = Append(a, e) /\ w[k] = b
      BY <1>4, <2>2, <2>3, <2>4, <2>6, <2>9
    <3>2. (Len(a) + 1) + Len(b) = j + 1
      BY <2>5, <2>8
    <3>3. Len(v[k]) + Len(w[k]) = k
      BY <2>1, <2>8, <3>1, <3>2
    <3>4. ToSet(v[k]) \cup ToSet(w[k]) = {seq[i] : i \in 1 .. k}
      BY <2>5, <2>7, <2>8, <3>1
    <3> QED
      BY <2>1, <3>3, <3>4 DEF Done
  <2>10. CASE e \notin A
    <3>1. v[k] = a /\ w[k] = Append(b, e)
      BY <1>4, <2>2, <2>3, <2>4, <2>6, <2>10
    <3>2. Len(a) + (Len(b) + 1) = j + 1
      BY <2>5, <2>8
    <3>3. Len(v[k]) + Len(w[k]) = k
      BY <2>1, <2>8, <3>1, <3>2
    <3>4. ToSet(v[k]) \cup ToSet(w[k]) = {seq[i] : i \in 1 .. k}
      BY <2>5, <2>7, <2>8, <3>1
    <3> QED
      BY <2>1, <3>3, <3>4 DEF Done
  <2> QED
    BY <2>9, <2>10
<1> HIDE DEF N
<1>7. Nat \subseteq N
  BY <1>5, <1>6, NatSetInduction
<1>8. Done(n)
  BY <1>7 DEF N
<1>9. v[n] \in Seq(S) /\ w[n] \in Seq(S)
  BY <1>4
<1>10. Len(v[n] \o w[n]) = Len(v[n]) + Len(w[n]) /\ v[n] \o w[n] \in Seq(S)
       /\ ToSet(v[n] \o w[n]) = ToSet(v[n]) \cup ToSet(w[n])
  BY <1>9, ConcatProperties, ToSetFacts
<1>11. ToSet(seq) = {seq[i] : i \in 1 .. n}
  BY <1>3 DEF ToSet
<1> QED
  BY <1>1, <1>2, <1>3, <1>8, <1>10, <1>11 DEF Done

(***************************************************************************)
(* What happens to one body.                                               *)
(***************************************************************************)

\* c is b somewhere else, or with another velocity; if b is firm, it is just b.
Moved(b, c) ==
  /\ c \in Body
  /\ c.radius = b.radius /\ c.mass = b.mass /\ c.active = b.active /\ c.movable = b.movable
  /\ ~ b.movable => c = b

LEMMA ClampType ==
  ASSUME NEW v \in Int
  PROVE  Clamp(v) \in -MaxVelocity .. MaxVelocity
BY PhysicsAssumption DEF Clamp

LEMMA SetVelocityMoves ==
  ASSUME NEW b \in Body, NEW v, b.active /\ b.movable => v \in Int
  PROVE  Moved(b, SetVelocity(b, v)) /\ SetVelocity(b, v).position = b.position
<1>1. CASE b.active /\ b.movable
  <2>1. SetVelocity(b, v) = [b EXCEPT !.velocity = Clamp(v)]
    BY <1>1 DEF SetVelocity
  <2>2. Clamp(v) \in -MaxVelocity .. MaxVelocity
    BY <1>1, ClampType
  <2> QED
    BY <1>1, <2>1, <2>2 DEF Moved, Body
<1>2. CASE ~ (b.active /\ b.movable)
  BY <1>2 DEF SetVelocity, Moved
<1> QED
  BY <1>1, <1>2

LEMMA MoveMoves ==
  ASSUME NEW b \in Body, NEW offset \in Int
  PROVE  /\ Moved(b, Move(b, offset)) /\ Move(b, offset).velocity = b.velocity
         /\ b.active /\ b.movable => Move(b, offset).position = b.position + offset
<1>1. CASE b.active /\ b.movable
  <2>1. Move(b, offset) = [b EXCEPT !.position = b.position + offset]
    BY <1>1 DEF Move, Body
  <2>2. b.position + offset \in Int
    BY DEF Body
  <2> QED
    BY <1>1, <2>1, <2>2 DEF Moved, Body
<1>2. CASE ~ (b.active /\ b.movable)
  BY <1>2 DEF Move, Moved
<1> QED
  BY <1>1, <1>2

LEMMA MovedTwice ==
  ASSUME NEW b \in Body, NEW c, NEW d, Moved(b, c), Moved(c, d)
  PROVE  Moved(b, d)
BY DEF Moved

\* A movable body that is moved by an integer and gets a velocity that is one.
LEMMA MoveAndSet ==
  ASSUME NEW b \in Body, NEW offset \in Int, NEW v, b.active /\ b.movable => v \in Int
  PROVE  /\ Moved(b, SetVelocity(Move(b, offset), v))
         /\ b.active /\ b.movable =>
              SetVelocity(Move(b, offset), v).position = b.position + offset
<1>1. Moved(b, Move(b, offset))
  BY MoveMoves
<1>2. /\ Moved(Move(b, offset), SetVelocity(Move(b, offset), v))
      /\ SetVelocity(Move(b, offset), v).position = Move(b, offset).position
  BY <1>1, SetVelocityMoves DEF Moved
<1> QED
  BY <1>1, <1>2, MovedTwice, MoveMoves

LEMMA StepBodyMoves ==
  ASSUME NEW b \in Body, NEW target \in Int
  PROVE  Moved(b, StepBody(b, target))
<1> DEFINE v == Lerp(b.velocity, Clamp(target))
<1>1. v \in Int
  <2>1. Clamp(target) \in Int /\ b.velocity \in Int
    BY ClampType, PhysicsAssumption DEF Body
  <2>2. \A m, n \in Int : Lerp(m, n) \in Int
    BY DEF Lerp, Sign
  <2> QED
    BY <2>1, <2>2
<1> HIDE DEF v
<1>2. Moved(b, SetVelocity(b, v))
  BY <1>1, SetVelocityMoves
<1>3. Moved(SetVelocity(b, v), Move(SetVelocity(b, v), v))
  BY <1>1, <1>2, MoveMoves DEF Moved
<1> QED
  BY <1>2, <1>3, MovedTwice DEF StepBody, v

\* A circle that fits the map and is not on it is moved back to its edge.
LEMMA CorrectionBrings ==
  ASSUME NEW b \in Body, b.active, b.movable, b.radius <= GameBoundsRadius, ~IsInBounds(b)
  PROVE  /\ BoundsCorrection(b) \in Int
         /\ IsInBounds(SetVelocity(Move(b, BoundsCorrection(b)), 0))
         /\ Center(SetVelocity(Move(b, BoundsCorrection(b)), 0)) =
              IF Center(b) < GameBoundsRadius THEN b.radius
              ELSE (GameBoundsRadius + GameBoundsRadius) - b.radius
<1>1. PICK r \in Nat : r = b.radius
  BY DEF Body
<1>2. PICK x \in Int : x = b.position
  BY DEF Body
<1>3. PICK R \in Nat : R = GameBoundsRadius
  BY PhysicsAssumption
<1> DEFINE offset == BoundsCorrection(b)
<1>4. Center(b) = x + r
  BY <1>1, <1>2 DEF Center
<1>5. ~ (x + r = R)
  <2>1. Distance(R, R) + r <= R
    BY <1>1, <1>3 DEF Distance
  <2> QED
    BY <1>1, <1>3, <1>4, <2>1 DEF IsInBounds
<1>6. offset = IF x + r < R THEN -x ELSE (R + R) - (r + r) - x
  <2>1. CASE x + r < R
    <3>1. Sign(R - (x + r)) = 1 /\ Distance(R - (x + r), 0) = R - (x + r)
      BY <2>1 DEF Sign, Distance
    <3> QED
      BY <1>1, <1>3, <1>4, <2>1, <3>1 DEF BoundsCorrection
  <2>2. CASE x + r > R
    <3>1. Sign(R - (x + r)) = -1 /\ Distance(R - (x + r), 0) = (x + r) - R
      BY <2>2 DEF Sign, Distance
    <3> QED
      BY <1>1, <1>3, <1>4, <2>2, <3>1 DEF BoundsCorrection
  <2> QED
    BY <1>5, <2>1, <2>2
<1> HIDE DEF offset
<1>7. offset \in Int
  BY <1>6
<1> DEFINE c == SetVelocity(Move(b, offset), 0)
<1>8. c.position = x + offset /\ c.radius = r
  <2>1. Move(b, offset).position = x + offset
    BY <1>2 DEF Move, Body
  <2>2. Moved(b, Move(b, offset))
    BY <1>7, MoveMoves
  <2>3. PICK e \in Body : e = Move(b, offset)
    BY <2>2 DEF Moved
  <2>4. Moved(e, SetVelocity(e, 0)) /\ SetVelocity(e, 0).position = e.position
    BY SetVelocityMoves
  <2>5. c = SetVelocity(e, 0)
    BY <2>3
  <2> HIDE DEF c
  <2> QED
    BY <1>1, <2>1, <2>2, <2>3, <2>4, <2>5 DEF Moved
<1> HIDE DEF c
<1>9. Center(c) = (x + offset) + r
  BY <1>8 DEF Center
<1>10. Distance(R, Center(c)) = R - r
  <2>1. CASE x + r < R
    <3>1. (x + offset) + r = r
      BY <1>6, <2>1
    <3> QED
      BY <1>1, <1>3, <1>9, <3>1 DEF Distance
  <2>2. CASE ~ (x + r < R)
    <3>1. (x + offset) + r = (R + R) - r
      BY <1>6, <2>2
    <3> QED
      BY <1>1, <1>3, <1>9, <3>1 DEF Distance
  <2> QED
    BY <2>1, <2>2
<1>11. IsInBounds(c)
  BY <1>1, <1>3, <1>8, <1>10 DEF IsInBounds
<1>12. Center(c) = IF Center(b) < GameBoundsRadius THEN b.radius
                   ELSE (GameBoundsRadius + GameBoundsRadius) - b.radius
  BY <1>1, <1>3, <1>4, <1>6, <1>9
<1> QED
  BY <1>7, <1>11, <1>12 DEF offset, c

(***************************************************************************)
(* What happens to all of them.                                            *)
(***************************************************************************)

\* Bodies as an update has them, from updateGroup to the bounds of the map.
Worlds ==
  {w \in [Bodies -> Body] :
     /\ \A id \in Bodies : w[id].movable <=> id \in Groups
     /\ \A m \in Mines : w[m].active /\ w[m].radius = MineSize
                         /\ w[m].position = MineCenter(m) - MineSize /\ w[m].velocity = 0
     /\ \A g \in Groups : w[g].active => w[g].mass > 0 /\ w[g].radius <= GameBoundsRadius}

\* If each body is moved, or none, it is a world again.
LEMMA WorldMoves ==
  ASSUME NEW w \in Worlds, NEW u, u = [id \in Bodies |-> u[id]],
         \A id \in Bodies : Moved(w[id], u[id])
  PROVE  u \in Worlds
<1>1. u \in [Bodies -> Body]
  BY DEF Moved
<1>2. \A id \in Bodies : u[id].movable <=> id \in Groups
  BY DEF Moved, Worlds
<1>3. \A m \in Mines : u[m] = w[m]
  BY BodyFacts DEF Moved, Worlds
<1>4. \A g \in Groups : u[g].active => u[g].mass > 0 /\ u[g].radius <= GameBoundsRadius
  BY BodyFacts DEF Moved, Worlds
<1> QED
  BY <1>1, <1>2, <1>3, <1>4 DEF Worlds

LEMMA MoveNothing ==
  ASSUME NEW b \in Body
  PROVE  Moved(b, b)
BY DEF Moved

\* Numbers.
LEMMA SignFacts ==
  /\ \A n \in Int : Sign(n) \in {-1, 0, 1}
  /\ \A m, n \in Int : Distance(m, n) \in Nat
  /\ \A n \in Int : HalfUp(n) \in Int
  /\ \A s \in {-1, 0, 1}, n \in Int : s * n \in Int /\ n * s \in Int
<1>1. \A n \in Int : Sign(n) \in {-1, 0, 1}
  BY DEF Sign
<1>2. \A m, n \in Int : Distance(m, n) \in Nat
  BY DEF Distance
<1>3. \A n \in Int : HalfUp(n) \in Int
  BY DEF HalfUp
<1>4. \A s \in {-1, 0, 1}, n \in Int : s * n \in Int /\ n * s \in Int
  OBVIOUS
<1> QED
  BY <1>1, <1>2, <1>3, <1>4

\* How far two bodies are moved out of one another, and by how much faster.
LEMMA CollisionNumbers ==
  ASSUME NEW a \in Body, NEW b \in Body
  PROVE  /\ Resolution(a, b).first \in Int /\ Resolution(a, b).second \in Int
         /\ a.mass > 0 => a.velocity + Impulses(a, b).first \in Int
         /\ b.mass > 0 => b.velocity + Impulses(a, b).second \in Int
<1>1. /\ a.position \in Int /\ a.radius \in Nat /\ a.velocity \in Int /\ a.mass \in Nat
      /\ b.position \in Int /\ b.radius \in Nat /\ b.velocity \in Int /\ b.mass \in Nat
  BY PhysicsAssumption DEF Body
<1>2. PICK x \in Int, y \in Int : x = Center(a) /\ y = Center(b)
  BY <1>1 DEF Center
<1>3. PICK n \in {-1, 0, 1} : n = Normal(a, b)
  <2>1. x - y \in Int
    OBVIOUS
  <2>2. Sign(x - y) \in {-1, 0, 1}
    BY <2>1, SignFacts
  <2> QED
    BY <1>2, <2>2 DEF Normal
<1>4. PICK o \in Int : o = Overlap(a, b)
  <2>1. PICK d \in Nat : d = Distance(x, y)
    BY SignFacts
  <2>2. Overlap(a, b) = a.radius + b.radius - d
    BY <1>2, <2>1 DEF Overlap
  <2> QED
    BY <1>1, <2>2
<1>5. Resolution(a, b).first \in Int /\ Resolution(a, b).second \in Int
  <2>1. PICK h \in Int : h = HalfUp(o)
    BY SignFacts
  <2>2. n * o \in Int /\ n * h \in Int /\ -n * h \in Int
    BY SignFacts
  <2>3. /\ Resolution(a, b).first = IF ~a.movable THEN 0 ELSE IF b.movable THEN n * h ELSE n * o
        /\ Resolution(a, b).second = IF b.movable THEN -n * h ELSE 0
    BY <1>3, <1>4, <2>1 DEF Resolution
  <2> QED
    BY <2>2, <2>3
<1>6. PICK twice \in Int : twice = -2 * ImpulseMultiplier * AlongNormal(a, b)
  <2>1. AlongNormal(a, b) \in Int
    <3>1. a.velocity - b.velocity \in Int
      BY <1>1
    <3> QED
      BY <1>3, <3>1, SignFacts DEF AlongNormal
  <2> QED
    BY <2>1 DEF ImpulseMultiplier
<1>7. a.mass > 0 => Share(a, b, twice) \in Int
  <2>1. twice * b.mass \in Int
    BY <1>1
  <2> SUFFICES ASSUME a.mass > 0
               PROVE  Share(a, b, twice) \in Int
    OBVIOUS
  <2>2. a.mass + b.mass \in Nat \ {0}
    BY <1>1
  <2>3. (twice * b.mass) \div (a.mass + b.mass) \in Int
    BY <2>1, <2>2
  <2> QED
    BY <1>6, <2>3 DEF Share
<1>8. b.mass > 0 => Share(b, a, twice) \in Int
  <2>1. twice * a.mass \in Int
    BY <1>1
  <2> SUFFICES ASSUME b.mass > 0
               PROVE  Share(b, a, twice) \in Int
    OBVIOUS
  <2>2. b.mass + a.mass \in Nat \ {0}
    BY <1>1
  <2>3. (twice * a.mass) \div (b.mass + a.mass) \in Int
    BY <2>1, <2>2
  <2> QED
    BY <1>6, <2>3 DEF Share
<1>9. /\ Impulses(a, b).first = n * Share(a, b, twice)
      /\ Impulses(a, b).second = -n * Share(b, a, twice)
  BY <1>3, <1>6 DEF Impulses
<1>10. ASSUME a.mass > 0
       PROVE  Impulses(a, b).first \in Int
  <2>1. PICK z \in Int : z = Share(a, b, twice)
    BY <1>7, <1>10
  <2>2. n * z \in Int
    BY SignFacts
  <2> QED
    BY <1>9, <2>1, <2>2
<1>11. ASSUME b.mass > 0
       PROVE  Impulses(a, b).second \in Int
  <2>1. PICK z \in Int : z = Share(b, a, twice)
    BY <1>8, <1>11
  <2>2. -n * z \in Int
    OBVIOUS
  <2> QED
    BY <1>9, <2>1, <2>2
<1> QED
  BY <1>1, <1>5, <1>10, <1>11

\* A collision moves the two bodies, and no others.
LEMMA CollisionMoves ==
  ASSUME NEW w \in Worlds, NEW a \in Bodies, NEW b \in Bodies, a # b
  PROVE  LET u == ResolveCollision(w, a, b)
         IN /\ \A id \in Bodies : Moved(w[id], u[id])
            /\ \A id \in Bodies \ {a, b} : u[id] = w[id]
            /\ w[a].active /\ w[a].movable =>
                 u[a].position = w[a].position + Resolution(w[a], w[b]).first
            /\ w[b].active /\ w[b].movable =>
                 u[b].position = w[b].position + Resolution(w[a], w[b]).second
<1> DEFINE u == ResolveCollision(w, a, b)
<1>1. w \in [Bodies -> Body] /\ w[a] \in Body /\ w[b] \in Body
  BY DEF Worlds
<1>2. PICK first \in Int, second \in Int :
        first = Resolution(w[a], w[b]).first /\ second = Resolution(w[a], w[b]).second
  BY <1>1, CollisionNumbers
<1>3. PICK va, vb : /\ va = w[a].velocity + Impulses(w[a], w[b]).first
                    /\ vb = w[b].velocity + Impulses(w[a], w[b]).second
  OBVIOUS
<1>4. /\ w[a].active /\ w[a].movable => va \in Int
      /\ w[b].active /\ w[b].movable => vb \in Int
  BY <1>1, <1>3, CollisionNumbers DEF Worlds
<1>5. /\ Moved(w[a], SetVelocity(Move(w[a], first), va))
      /\ w[a].active /\ w[a].movable =>
           SetVelocity(Move(w[a], first), va).position = w[a].position + first
  BY <1>1, <1>4, MoveAndSet
<1>6. /\ Moved(w[b], SetVelocity(Move(w[b], second), vb))
      /\ w[b].active /\ w[b].movable =>
           SetVelocity(Move(w[b], second), vb).position = w[b].position + second
  BY <1>1, <1>4, MoveAndSet
<1>7. u = [w EXCEPT ![a] = SetVelocity(Move(w[a], first), va),
                    ![b] = SetVelocity(Move(w[b], second), vb)]
  BY <1>1, <1>2, <1>3 DEF ResolveCollision
<1>8. PICK na, nb : /\ na = SetVelocity(Move(w[a], first), va)
                    /\ nb = SetVelocity(Move(w[b], second), vb)
  OBVIOUS
<1> HIDE DEF u
<1>9. \A id \in Bodies : u[id] = IF id = a THEN na ELSE IF id = b THEN nb ELSE w[id]
  BY <1>1, <1>7, <1>8
<1>10. \A id \in Bodies : Moved(w[id], u[id])
  BY <1>1, <1>5, <1>6, <1>8, <1>9, MoveNothing
<1>11. \A id \in Bodies \ {a, b} : u[id] = w[id]
  BY <1>9
<1>12. u[a] = na /\ u[b] = nb
  BY <1>9
<1> QED
  BY <1>2, <1>5, <1>6, <1>8, <1>10, <1>11, <1>12 DEF u

LEMMA ResolveCollisionWorld ==
  ASSUME NEW w \in Worlds, NEW a \in Bodies, NEW b \in Bodies, a # b
  PROVE  ResolveCollision(w, a, b) \in Worlds
<1> DEFINE u == ResolveCollision(w, a, b)
<1>1. \A id \in Bodies : Moved(w[id], u[id])
  BY CollisionMoves
<1>2. u = [id \in Bodies |-> u[id]]
  BY DEF ResolveCollision, Worlds
<1> HIDE DEF u
<1>3. u \in Worlds
  BY <1>1, <1>2, WorldMoves
<1> QED
  BY <1>3 DEF u

\* The lists of collisions.
Events == Seq(Bodies \X Bodies)

LEMMA VisitKeeps ==
  ASSUME NEW z \in [world : Worlds, events : Events], NEW a \in Bodies, NEW b \in Bodies
  PROVE  /\ Visit(z, a, b) \in [world : Worlds, events : Events]
         /\ \A id \in Bodies : Moved(z.world[id], Visit(z, a, b).world[id])
<1>1. CASE Collide(z.world, a, b)
  <2>1. a # b
    BY <1>1 DEF Collide
  <2>2. ResolveCollision(z.world, a, b) \in Worlds
    BY <2>1, ResolveCollisionWorld
  <2>3. Append(z.events, <<a, b>>) \in Events
    BY DEF Events
  <2>4. \A id \in Bodies : Moved(z.world[id], ResolveCollision(z.world, a, b)[id])
    BY <2>1, CollisionMoves
  <2> QED
    BY <1>1, <2>2, <2>3, <2>4 DEF Visit
<1>2. CASE ~ Collide(z.world, a, b)
  <2>1. \A id \in Bodies : Moved(z.world[id], z.world[id])
    BY MoveNothing DEF Worlds
  <2> QED
    BY <1>2, <2>1 DEF Visit
<1> QED
  BY <1>1, <1>2

LEMMA SquareFacts ==
  ASSUME NEW n \in Nat, NEW i \in 1 .. n * n
  PROVE  ((i - 1) \div n) + 1 \in 1 .. n /\ ((i - 1) % n) + 1 \in 1 .. n
<1>1. n > 0
  <2> SUFFICES ASSUME n = 0
               PROVE  FALSE
    OBVIOUS
  <2> QED
    OBVIOUS
<1>2. PICK j \in Nat : j = i - 1
  OBVIOUS
<1>3. j < n * n
  BY <1>2
<1>4. PICK q \in Int, r \in 0 .. n - 1 : q = j \div n /\ r = j % n /\ j = n * q + r
  BY <1>1
<1>5. q >= 0
  BY <1>1, <1>4
<1>6. q < n
  <2> SUFFICES ASSUME q >= n
               PROVE  FALSE
    BY <1>4
  <2>1. n * n <= n * q
    BY <1>1, <1>4
  <2> QED
    BY <1>3, <1>4, <2>1
<1> QED
  BY <1>2, <1>4, <1>5, <1>6

\* What there is after each visit of a pair.
Visiting(visited, w, bodies) ==
  LET n == Len(bodies)
  IN /\ visited[0] = [world |-> w, events |-> <<>>]
     /\ \A k \in 1 .. n * n :
          visited[k] = Visit(visited[k - 1], bodies[((k - 1) \div n) + 1], bodies[((k - 1) % n) + 1])

\* Pair after pair.
LEMMA ResolveCollisionsVisit ==
  ASSUME NEW w \in Worlds, NEW order \in Seq(Bodies)
  PROVE  LET n == Len(Active(order, w))
         IN /\ Active(order, w) \in Seq(Bodies)
            /\ \E visited :
                 /\ Visiting(visited, w, Active(order, w))
                 /\ \A k \in 0 .. n * n : visited[k] \in [world : Worlds, events : Events]
                 /\ ResolveCollisions(w, order) = visited[n * n]
<1> DEFINE V == [world : Worlds, events : Events]
           bodies == Active(order, w)
           n == Len(bodies)
           F(visited) == [i \in 0 .. n * n |->
             IF i = 0 THEN [world |-> w, events |-> <<>>]
             ELSE Visit(visited[i - 1], bodies[((i - 1) \div n) + 1], bodies[((i - 1) % n) + 1])]
           visited == CHOOSE f : f = F(f)
           step == [z \in V \X (1 .. n * n) |->
             Visit(z[1], bodies[((z[2] - 1) \div n) + 1], bodies[((z[2] - 1) % n) + 1])]
<1>1. ResolveCollisions(w, order) = visited[n * n]
  BY Zenon DEF ResolveCollisions
<1>2. bodies \in Seq(Bodies)
  BY SelectedType DEF Active
<1>3. n \in Nat /\ n * n \in Nat
  BY <1>2
<1>4. [world |-> w, events |-> <<>>] \in V
  BY DEF Events
<1>5. ASSUME NEW z \in V, NEW i \in 1 .. n * n
      PROVE  Visit(z, bodies[((i - 1) \div n) + 1], bodies[((i - 1) % n) + 1]) \in V
  <2>1. ((i - 1) \div n) + 1 \in 1 .. n /\ ((i - 1) % n) + 1 \in 1 .. n
    BY <1>3, SquareFacts
  <2>2. /\ bodies[((i - 1) \div n) + 1] \in Bodies
        /\ bodies[((i - 1) % n) + 1] \in Bodies
    BY <1>2, <2>1
  <2> QED
    BY <2>2, VisitKeeps
<1> HIDE DEF V, bodies, n
<1>6. step \in [V \X (1 .. n * n) -> V]
  BY <1>5
<1>7. PICK v \in [0 .. n * n -> V] : /\ v[0] = [world |-> w, events |-> <<>>]
                                     /\ \A k \in 1 .. n * n : v[k] = step[<<v[k - 1], k>>]
  <2>1. PICK pairs \in Nat : pairs = n * n
    BY <1>3
  <2>2. PICK base \in V : base = [world |-> w, events |-> <<>>]
    BY <1>4
  <2>3. PICK next \in [V \X (1 .. pairs) -> V] : next = step
    BY <1>6, <2>1
  <2>4. \E v \in [0 .. pairs -> V] : LoopValues(v, pairs, base, next)
    BY LoopExists
  <2> HIDE DEF step
  <2> QED
    BY Zenon, <2>1, <2>2, <2>3, <2>4 DEF LoopValues
<1>8. v = F(v)
  <2>1. ASSUME NEW i \in 1 .. n * n
        PROVE  v[i] = Visit(v[i - 1], bodies[((i - 1) \div n) + 1], bodies[((i - 1) % n) + 1])
    <3>1. v[i - 1] \in V
      BY <1>3
    <3> QED
      BY <1>7, <3>1
  <2> QED
    BY <1>3, <1>7, <2>1
<1>9. visited = F(visited)
  BY <1>8
<1> HIDE DEF visited
<1>10. visited[0] \in V
  BY <1>3, <1>4, <1>9
<1>11. ASSUME NEW k \in 1 .. n * n, visited[k - 1] \in V
       PROVE  visited[k] \in V
  <2>1. visited[k] = Visit(visited[k - 1], bodies[((k - 1) \div n) + 1], bodies[((k - 1) % n) + 1])
    BY <1>3, <1>9
  <2> QED
    BY <1>5, <1>11, <2>1
<1>12. \A k \in 0 .. n * n : visited[k] \in V
  BY <1>3, <1>10, <1>11, LoopStays
<1>13. \A k \in 1 .. n * n :
         visited[k] = Visit(visited[k - 1], bodies[((k - 1) \div n) + 1], bodies[((k - 1) % n) + 1])
  BY <1>3, <1>9
<1>14. visited[0] = [world |-> w, events |-> <<>>]
  BY <1>3, <1>9
<1>15. Visiting(visited, w, bodies)
  BY <1>13, <1>14 DEF Visiting, n
<1> QED
  BY <1>1, <1>2, <1>12, <1>15 DEF V, bodies, n

LEMMA ResolveCollisionsKeep ==
  ASSUME NEW w \in Worlds, NEW order \in Seq(Bodies)
  PROVE  /\ ResolveCollisions(w, order) \in [world : Worlds, events : Events]
         /\ \A id \in Bodies : Moved(w[id], ResolveCollisions(w, order).world[id])
<1> DEFINE bodies == Active(order, w)
<1>1. PICK n \in Nat : n = Len(bodies) /\ bodies \in Seq(Bodies)
  BY ResolveCollisionsVisit
<1>2. PICK visited :
        /\ Visiting(visited, w, bodies)
        /\ \A k \in 0 .. n * n : visited[k] \in [world : Worlds, events : Events]
        /\ ResolveCollisions(w, order) = visited[n * n]
  BY <1>1, ResolveCollisionsVisit
<1> HIDE DEF bodies
<1>3. PICK pairs \in Nat : pairs = n * n
  OBVIOUS
<1> DEFINE V == {z \in [world : Worlds, events : Events] :
                   \A id \in Bodies : Moved(w[id], z.world[id])}
<1>4. visited[0] \in V
  <2>1. visited[0] = [world |-> w, events |-> <<>>]
    BY <1>2 DEF Visiting
  <2>2. \A id \in Bodies : Moved(w[id], w[id])
    BY MoveNothing DEF Worlds
  <2> QED
    BY <1>2, <1>3, <2>1, <2>2
<1>5. ASSUME NEW k \in 1 .. pairs, visited[k - 1] \in V
      PROVE  visited[k] \in V
  <2>1. PICK a \in Bodies, b \in Bodies : visited[k] = Visit(visited[k - 1], a, b)
    <3>1. ((k - 1) \div n) + 1 \in 1 .. n /\ ((k - 1) % n) + 1 \in 1 .. n
      BY <1>3, SquareFacts
    <3>2. bodies[((k - 1) \div n) + 1] \in Bodies /\ bodies[((k - 1) % n) + 1] \in Bodies
      BY <1>1, <3>1
    <3> QED
      BY <1>1, <1>2, <1>3, <3>2 DEF Visiting
  <2>2. PICK z \in V : z = visited[k - 1]
    BY <1>5
  <2>3. /\ Visit(z, a, b) \in [world : Worlds, events : Events]
        /\ \A id \in Bodies : Moved(z.world[id], Visit(z, a, b).world[id])
    BY VisitKeeps
  <2>4. \A id \in Bodies : w[id] \in Body /\ Moved(w[id], z.world[id])
    BY DEF Worlds
  <2>5. \A id \in Bodies : Moved(w[id], Visit(z, a, b).world[id])
    BY <2>3, <2>4, MovedTwice
  <2> QED
    BY <2>1, <2>2, <2>3, <2>5
<1>6. visited[pairs] \in V
  <2> HIDE DEF V
  <2>1. \A k \in 0 .. pairs : visited[k] \in V
    BY <1>4, <1>5, LoopStays
  <2> QED
    BY <2>1
<1> QED
  BY <1>2, <1>3, <1>6

LEMMA GroupDirectionType ==
  ASSUME members \in [Groups -> SUBSET Players], NEW g \in Groups, NEW pressed
  PROVE  GroupDirection(g, pressed) \in Int
<1> DEFINE A == {p \in members[g] : pressed[p] = 1}
           B == {p \in members[g] : pressed[p] = -1}
<1>1. A \in SUBSET Players /\ B \in SUBSET Players
  OBVIOUS
<1> HIDE DEF A, B
<1>2. Cardinality(A) \in Nat /\ Cardinality(B) \in Nat
  BY <1>1, BodyFacts, FS_Subset, FS_CardinalityType
<1>3. Cardinality(A) - Cardinality(B) \in Int
  BY <1>2
<1> QED
  BY <1>3 DEF GroupDirection, A, B

\* All bodies move, those of groups each by its own direction.
LEMMA StepKeeps ==
  ASSUME NEW w \in Worlds, NEW pressed, members \in [Groups -> SUBSET Players]
  PROVE  Step(w, pressed) \in Worlds
<1> DEFINE u == Step(w, pressed)
<1>1. u = [id \in Bodies |->
             IF id \in Groups THEN StepBody(w[id], GroupDirection(id, pressed)) ELSE w[id]]
  BY DEF Step
<1>2. \A g \in Groups : GroupDirection(g, pressed) \in Int
  BY GroupDirectionType
<1> HIDE DEF u
<1>3. ASSUME NEW id \in Bodies
      PROVE  Moved(w[id], u[id])
  <2>1. w[id] \in Body
    BY DEF Worlds
  <2>2. CASE id \in Groups
    <3>1. PICK d \in Int : d = GroupDirection(id, pressed)
      BY <1>2, <2>2
    <3>2. u[id] = StepBody(w[id], d)
      BY <1>1, <2>2, <3>1
    <3> QED
      BY <2>1, <3>2, StepBodyMoves
  <2>3. CASE id \notin Groups
    BY <1>1, <2>1, <2>3, MoveNothing
  <2> QED
    BY <2>2, <2>3
<1>4. u = [id \in Bodies |-> u[id]]
  BY <1>1
<1>5. u \in Worlds
  BY <1>3, <1>4, WorldMoves
<1> QED
  BY <1>5 DEF u

\* updateGroup gives every group that has members a mass, and a circle that fits the map.
LEMMA UpdateGroupsWorld ==
  ASSUME BodiesOK
  PROVE  UpdateGroups \in Worlds
<1> DEFINE u == UpdateGroups
<1>1. ASSUME NEW g \in Groups
      PROVE  /\ Cardinality(members[g]) \in Nat
             /\ members[g] # {} => Cardinality(members[g]) > 0
             /\ GroupMemberSize * Cardinality(members[g]) \in Nat
             /\ GroupMemberSize * Cardinality(members[g]) <= GameBoundsRadius
  <2>1. members[g] \in SUBSET Players
    BY DEF BodiesOK
  <2>2. IsFiniteSet(members[g]) /\ Cardinality(members[g]) <= MaxPlayerCount
    BY <2>1, BodyFacts, FS_Subset
  <2>3. PICK c \in Nat : c = Cardinality(members[g])
    BY <2>2, FS_CardinalityType
  <2>4. members[g] # {} => c # 0
    BY <2>2, <2>3, FS_EmptySet
  <2>5. c <= MaxPlayerCount /\ MaxPlayerCount \in Nat /\ GroupMemberSize \in Nat
        /\ GroupMemberSize * MaxPlayerCount <= GameBoundsRadius /\ GameBoundsRadius \in Nat
    BY <2>2, <2>3, PhysicsAssumption
  <2>6. GroupMemberSize * c \in Nat /\ GroupMemberSize * c <= GroupMemberSize * MaxPlayerCount
    BY <2>5
  <2>7. GroupMemberSize * MaxPlayerCount \in Nat
    BY <2>5
  <2>8. GroupMemberSize * c <= GameBoundsRadius
    BY <2>5, <2>6, <2>7
  <2> QED
    BY <2>3, <2>4, <2>6, <2>8
<1>2. \A id \in Bodies : u[id] =
        IF id \notin Groups THEN body[id]
        ELSE IF members[id] = {} THEN [body[id] EXCEPT !.active = FALSE]
        ELSE [body[id] EXCEPT !.active = TRUE,
                              !.radius = GroupMemberSize * Cardinality(members[id]),
                              !.mass = Cardinality(members[id])]
  BY DEF UpdateGroups
<1>3. u = [id \in Bodies |-> u[id]]
  BY DEF UpdateGroups
<1> HIDE DEF u
<1>4. ASSUME NEW id \in Bodies
      PROVE  /\ u[id] \in Body /\ u[id].movable = body[id].movable
             /\ id \in Groups /\ u[id].active => u[id].mass > 0 /\ u[id].radius <= GameBoundsRadius
  <2>0. body[id] \in Body
    BY DEF BodiesOK
  <2>1. CASE id \notin Groups
    BY <1>2, <2>0, <2>1
  <2>2. CASE id \in Groups /\ members[id] = {}
    <3>1. u[id] = [body[id] EXCEPT !.active = FALSE]
      BY <1>2, <2>2
    <3> QED
      BY <2>0, <2>2, <3>1 DEF Body
  <2>3. CASE id \in Groups /\ members[id] # {}
    <3>1. PICK c \in Nat, r \in Nat :
            c = Cardinality(members[id]) /\ r = GroupMemberSize * Cardinality(members[id])
      BY <1>1, <2>3
    <3>2. u[id] = [body[id] EXCEPT !.active = TRUE, !.radius = r, !.mass = c]
      BY <1>2, <2>3, <3>1
    <3>3. c > 0 /\ r <= GameBoundsRadius
      BY <1>1, <2>3, <3>1
    <3> QED
      BY <2>0, <3>2, <3>3 DEF Body
  <2> QED
    BY <2>1, <2>2, <2>3
<1>5. \A m \in Mines : u[m] = body[m]
  BY <1>2, BodyFacts
<1>6. u \in [Bodies -> Body]
  BY <1>3, <1>4
<1>7. \A id \in Bodies : u[id].movable <=> id \in Groups
  BY <1>4 DEF BodiesOK
<1>8. \A g \in Groups : u[g].active => u[g].mass > 0 /\ u[g].radius <= GameBoundsRadius
  BY <1>4, BodyFacts
<1>9. \A m \in Mines : u[m].active /\ u[m].radius = MineSize
                         /\ u[m].position = MineCenter(m) - MineSize /\ u[m].velocity = 0
  BY <1>5 DEF BodiesOK
<1>10. u \in Worlds
  BY <1>6, <1>7, <1>8, <1>9 DEF Worlds
<1> QED
  BY <1>10 DEF u

\* After resolveMapBounds all groups are on the map.
LEMMA ResolveMapBoundsBrings ==
  ASSUME NEW w \in Worlds
  PROVE  /\ ResolveMapBounds(w) \in Worlds
         /\ \A id \in Bodies : Moved(w[id], ResolveMapBounds(w)[id])
         /\ \A g \in Groups : ResolveMapBounds(w)[g].active => IsInBounds(ResolveMapBounds(w)[g])
<1> DEFINE u == ResolveMapBounds(w)
<1>1. u = [id \in Bodies |->
             IF w[id].active /\ w[id].movable /\ ~IsInBounds(w[id])
             THEN SetVelocity(Move(w[id], BoundsCorrection(w[id])), 0)
             ELSE w[id]]
  BY DEF ResolveMapBounds
<1> HIDE DEF u
<1>2. ASSUME NEW id \in Bodies
      PROVE  Moved(w[id], u[id]) /\ (id \in Groups /\ u[id].active => IsInBounds(u[id]))
  <2>1. PICK b \in Body : b = w[id]
    BY DEF Worlds
  <2>2. CASE b.active /\ b.movable /\ ~IsInBounds(b)
    <3>1. id \in Groups /\ b.radius <= GameBoundsRadius
      BY <2>1, <2>2 DEF Worlds
    <3>2. /\ BoundsCorrection(b) \in Int
          /\ IsInBounds(SetVelocity(Move(b, BoundsCorrection(b)), 0))
      BY <2>2, <3>1, CorrectionBrings
    <3>3. PICK offset \in Int : offset = BoundsCorrection(b)
      BY <3>2
    <3>4. Moved(b, SetVelocity(Move(b, offset), 0))
      BY MoveAndSet
    <3>5. u[id] = SetVelocity(Move(b, offset), 0)
      BY <1>1, <2>1, <2>2, <3>3
    <3> QED
      BY <2>1, <3>2, <3>3, <3>4, <3>5
  <2>3. CASE ~ (b.active /\ b.movable /\ ~IsInBounds(b))
    <3>1. u[id] = b
      BY <1>1, <2>1, <2>3
    <3>2. id \in Groups => b.movable
      BY <2>1 DEF Worlds
    <3> QED
      BY <2>1, <2>3, <3>1, <3>2, MoveNothing
  <2> QED
    BY <2>2, <2>3
<1>3. u = [id \in Bodies |-> u[id]]
  BY <1>1
<1>4. u \in Worlds
  BY <1>2, <1>3, WorldMoves
<1> QED
  BY <1>2, <1>4, BodyFacts DEF u

(***************************************************************************)
(* What collisions do to groups and mines.                                 *)
(***************************************************************************)
Handled ==
  {z \in [members : [Groups -> SUBSET Players], units : [Mines -> 0 .. MineResourceCount],
          held : [Players -> Nat]] :
     UnitsIn(z.units, z.held) = MaxMineCount * MineResourceCount}

\* Nobody has more than there was.
LEMMA HeldIsBounded ==
  ASSUME NEW z \in Handled
  PROVE  z.held \in [Players -> 0 .. MaxMineCount * MineResourceCount]
<1>1. PICK left, got : left = z.units /\ got = z.held
  OBVIOUS
<1>2. /\ left \in [Mines -> Nat] /\ got \in [Players -> Nat]
      /\ SumFunctionOnSet(left, Mines) + SumFunctionOnSet(got, Players)
           = MaxMineCount * MineResourceCount
  <2>1. MineResourceCount \in Nat
    BY PhysicsAssumption
  <2> QED
    BY <1>1, <2>1 DEF Handled, UnitsIn
<1>3. PICK n \in Nat : n = SumFunctionOnSet(left, Mines)
  BY <1>2, BodyFacts, SumFunctionBounds
<1>4. PICK m \in Nat : m = SumFunctionOnSet(got, Players)
  BY <1>2, BodyFacts, SumFunctionBounds
<1>5. \A p \in Players : got[p] <= m
  BY <1>2, <1>4, BodyFacts, SumFunctionBounds
<1>6. PICK s \in Nat : s = MaxMineCount * MineResourceCount
  BY PhysicsAssumption
<1>7. m <= s
  BY <1>2, <1>3, <1>4, <1>6
<1>8. \A p \in Players : got[p] \in 0 .. s
  <2> TAKE p \in Players
  <2>1. PICK x \in Nat : x = got[p]
    BY <1>2
  <2> QED
    BY <1>5, <1>7, <2>1
<1> QED
  BY <1>1, <1>2, <1>6, <1>8

LEMMA JoinGroupsKeeps ==
  ASSUME NEW groups \in [Groups -> SUBSET Players], NEW willing, NEW a, NEW b
  PROVE  JoinGroups(groups, willing, <<a, b>>) \in [Groups -> SUBSET Players]
<1> DEFINE from == IF Cardinality(groups[a]) > Cardinality(groups[b]) THEN b ELSE a
           to == IF from = a THEN b ELSE a
<1>1. JoinGroups(groups, willing, <<a, b>>) =
        IF {a, b} \subseteq Groups /\ IsJoinable(groups, willing, a) /\ IsJoinable(groups, willing, b)
        THEN [groups EXCEPT ![to] = groups[a] \cup groups[b], ![from] = {}]
        ELSE groups
  BY Zenon DEF JoinGroups
<1>2. {a, b} \subseteq Groups => groups[a] \cup groups[b] \in SUBSET Players
  OBVIOUS
<1> HIDE DEF from, to
<1> QED
  BY <1>1, <1>2

\* Only as many players are served as there are units.
LEMMA ServedAreFew ==
  ASSUME NEW M \in SUBSET Players, NEW n \in Nat
  PROVE  LET served == {p \in M : Cardinality({q \in M : q < p}) < n}
         IN IsFiniteSet(served) /\ Cardinality(served) <= n
<1> DEFINE Before(p) == {q \in M : q < p}
           served == {p \in M : Cardinality(Before(p)) < n}
           place == [p \in served |-> Cardinality(Before(p)) + 1]
<1>1. \A p \in M : IsFiniteSet(Before(p)) /\ Cardinality(Before(p)) \in Nat
  <2> TAKE p \in M
  <2>1. Before(p) \in SUBSET Players
    OBVIOUS
  <2> HIDE DEF Before
  <2>2. IsFiniteSet(Before(p))
    BY <2>1, BodyFacts, FS_Subset
  <2> QED
    BY <2>2, FS_CardinalityType
<1>2. ASSUME NEW p \in M, NEW r \in M, p < r
      PROVE  Cardinality(Before(p)) < Cardinality(Before(r))
  <2>0. M \subseteq Nat
    BY PhysicsAssumption DEF Players
  <2>1. Before(p) \subseteq Before(r) /\ p \in Before(r) /\ p \notin Before(p)
    <3>1. p \in Nat /\ r \in Nat /\ ~ (p < p)
      BY <2>0
    <3>2. \A q \in M : q < p => q < r
      BY <1>2, <2>0, <3>1
    <3> QED
      BY <1>2, <3>1, <3>2
  <2> HIDE DEF Before
  <2>2. Before(p) \in SUBSET Before(r) /\ Before(p) # Before(r)
    BY <2>1
  <2>3. Cardinality(Before(p)) <= Cardinality(Before(r))
        /\ (Cardinality(Before(r)) = Cardinality(Before(p)) => Before(r) = Before(p))
    BY <1>1, <2>2, FS_Subset
  <2>4. PICK x \in Nat, y \in Nat : x = Cardinality(Before(p)) /\ y = Cardinality(Before(r))
    BY <1>1
  <2> QED
    BY <2>2, <2>3, <2>4
<1>3. IsFiniteSet(served)
  <2>1. served \in SUBSET Players
    OBVIOUS
  <2> HIDE DEF served
  <2> QED
    BY <2>1, BodyFacts, FS_Subset
<1>4. IsFiniteSet(1 .. n) /\ Cardinality(1 .. n) = n
  <2>1. IsFiniteSet(1 .. n) /\ Cardinality(1 .. n) = IF 1 > n THEN 0 ELSE n - 1 + 1
    BY FS_Interval
  <2> QED
    BY <2>1
<1>5. place \in [served -> 1 .. n]
  <2>1. ASSUME NEW p \in served
        PROVE  Cardinality(Before(p)) + 1 \in 1 .. n
    <3>1. p \in M /\ Cardinality(Before(p)) < n
      OBVIOUS
    <3> HIDE DEF served, Before
    <3>2. PICK x \in Nat : x = Cardinality(Before(p))
      BY <1>1, <3>1
    <3> QED
      BY <3>1, <3>2
  <2> HIDE DEF served, Before
  <2> QED
    BY <2>1
<1>6. \A x, y \in served : x # y => place[x] # place[y]
  <2> SUFFICES ASSUME NEW x \in served, NEW y \in served, x # y
               PROVE  place[x] # place[y]
    OBVIOUS
  <2>1. x \in M /\ y \in M
    OBVIOUS
  <2>2. x < y \/ y < x
    BY <2>1, PhysicsAssumption DEF Players
  <2>3. place[x] = Cardinality(Before(x)) + 1 /\ place[y] = Cardinality(Before(y)) + 1
    BY Zenon
  <2> HIDE DEF served, Before, place
  <2>4. PICK i \in Nat, j \in Nat : i = Cardinality(Before(x)) /\ j = Cardinality(Before(y))
    BY <1>1, <2>1
  <2>5. i # j
    BY <1>2, <2>1, <2>2, <2>4
  <2> QED
    BY <2>3, <2>4, <2>5
<1> HIDE DEF served, place
<1>7. Cardinality(served) <= n
  <2>1. PICK c \in Nat : c = Cardinality(served)
    BY <1>3, FS_CardinalityType
  <2> SUFFICES ASSUME n < c
               PROVE  FALSE
    BY <2>1
  <2>2. Cardinality(1 .. n) < Cardinality(served)
    BY <1>4, <2>1
  <2> QED
    BY <1>3, <1>4, <1>5, <1>6, <2>2, FS_PigeonHole
<1> QED
  BY <1>3, <1>7 DEF served

\* transferResources moves units, and makes none.
LEMMA TransferKeeps ==
  ASSUME NEW z \in Handled, NEW g \in Groups, NEW mine \in Mines
  PROVE  TransferResources(z, g, mine) \in Handled
<1> DEFINE M == z.members[g]
           served == {p \in M : Cardinality({q \in M : q < p}) < z.units[mine]}
           left == [z.units EXCEPT ![mine] = @ - Cardinality(served)]
           got == [p \in Players |-> IF p \in served THEN z.held[p] + 1 ELSE z.held[p]]
<1>1. TransferResources(z, g, mine) = [z EXCEPT !.units = left, !.held = got]
  BY DEF TransferResources, Handled
<1>2. /\ z.units \in [Mines -> 0 .. MineResourceCount] /\ z.held \in [Players -> Nat]
      /\ z.members \in [Groups -> SUBSET Players] /\ MineResourceCount \in Nat
      /\ z = [members |-> z.members, units |-> z.units, held |-> z.held]
      /\ UnitsIn(z.units, z.held) = MaxMineCount * MineResourceCount
  BY PhysicsAssumption DEF Handled
<1>3. PICK n \in 0 .. MineResourceCount : n = z.units[mine]
  BY <1>2
<1>4. M \in SUBSET Players /\ n \in Nat
  BY <1>2
<1>5. IsFiniteSet(served) /\ Cardinality(served) <= n /\ served \in SUBSET Players
  <2> HIDE DEF M
  <2>1. served = {p \in M : Cardinality({q \in M : q < p}) < n}
    BY <1>3
  <2>2. served \in SUBSET Players
    BY <1>4
  <2> HIDE DEF served
  <2> QED
    BY <1>4, <2>1, <2>2, ServedAreFew
<1> HIDE DEF served
<1>6. PICK k \in Nat : k = Cardinality(served) /\ k <= n
  BY <1>5, FS_CardinalityType
<1>7. /\ left \in [Mines -> 0 .. MineResourceCount] /\ left[mine] + k = z.units[mine]
      /\ \A m \in Mines : m # mine => left[m] = z.units[m]
  BY <1>2, <1>3, <1>6
<1>8. got \in [Players -> Nat]
      /\ \A p \in Players : got[p] = IF p \in served THEN z.held[p] + 1 ELSE z.held[p]
  BY <1>2
<1> HIDE DEF left, got
<1>9. PICK l, h : l = z.units /\ h = z.held
  OBVIOUS
<1>10. /\ l \in [Mines -> Nat] /\ left \in [Mines -> Nat]
       /\ h \in [Players -> Nat] /\ got \in [Players -> Nat]
  BY <1>2, <1>7, <1>8, <1>9
<1>11. SumFunctionOnSet(left, Mines) + k = SumFunctionOnSet(l, Mines)
  BY <1>7, <1>9, <1>10, BodyFacts, SumFunctionDrop
<1>12. SumFunctionOnSet(got, Players) = SumFunctionOnSet(h, Players) + k
  <2>1. \A p \in Players : got[p] = IF p \in served THEN h[p] + 1 ELSE h[p]
    BY <1>8, <1>9
  <2>2. SumFunctionOnSet(got, Players) = SumFunctionOnSet(h, Players) + Cardinality(served)
    BY <1>5, <1>10, <2>1, BodyFacts, SumFunctionOneMore
  <2> QED
    BY <1>6, <2>2
<1>13. UnitsIn(left, got) = UnitsIn(l, h)
  <2>1. PICK x \in Nat, y \in Nat :
          x = SumFunctionOnSet(left, Mines) /\ y = SumFunctionOnSet(h, Players)
    BY <1>10, BodyFacts, SumFunctionBounds
  <2>2. x + (y + k) = (x + k) + y
    OBVIOUS
  <2> QED
    BY <1>11, <1>12, <2>1, <2>2 DEF UnitsIn
<1>14. TransferResources(z, g, mine) = [members |-> z.members, units |-> left, held |-> got]
  BY <1>1, <1>2
<1>15. UnitsIn(left, got) = MaxMineCount * MineResourceCount
  BY <1>2, <1>9, <1>13
<1> QED
  BY <1>2, <1>7, <1>8, <1>14, <1>15 DEF Handled

LEMMA HandleCollisionKeeps ==
  ASSUME NEW z \in Handled, NEW willing, NEW a, NEW b
  PROVE  HandleCollision(z, willing, a, b) \in Handled
<1>1. CASE a \in Groups /\ b \in Mines
  BY <1>1, TransferKeeps DEF HandleCollision
<1>2. CASE ~ (a \in Groups /\ b \in Mines) /\ a \in Mines /\ b \in Groups
  BY <1>2, TransferKeeps DEF HandleCollision
<1>3. CASE ~ (a \in Groups /\ b \in Mines) /\ ~ (a \in Mines /\ b \in Groups)
  <2>1. PICK joined \in [Groups -> SUBSET Players] : joined = JoinGroups(z.members, willing, <<a, b>>)
    <3>1. z.members \in [Groups -> SUBSET Players]
      BY DEF Handled
    <3> QED
      BY <3>1, JoinGroupsKeeps
  <2>2. HandleCollision(z, willing, a, b) = [z EXCEPT !.members = joined]
    BY <1>3, <2>1 DEF HandleCollision, Handled
  <2> QED
    BY <2>2 DEF Handled
<1> QED
  BY <1>1, <1>2, <1>3

\* Event after event.
LEMMA HandleCollisionsKeep ==
  ASSUME NEW groups, NEW events \in Events, NEW willing,
         [members |-> groups, units |-> units, held |-> held] \in Handled
  PROVE  HandleCollisions(groups, events, willing) \in Handled
<1> DEFINE n == Len(events)
           start == [members |-> groups, units |-> units, held |-> held]
           F(handled) == [i \in 0 .. n |->
             IF i = 0 THEN [members |-> groups, units |-> units, held |-> held]
             ELSE HandleCollision(handled[i - 1], willing, events[i][1], events[i][2])]
           handled == CHOOSE f : f = F(f)
           step == [z \in Handled \X (1 .. n) |->
             HandleCollision(z[1], willing, events[z[2]][1], events[z[2]][2])]
<1>1. HandleCollisions(groups, events, willing) = handled[n]
  BY Zenon DEF HandleCollisions
<1>2. n \in Nat
  BY DEF Events
<1> HIDE DEF n
<1>3. step \in [Handled \X (1 .. n) -> Handled]
  BY HandleCollisionKeeps
<1>4. PICK v \in [0 .. n -> Handled] : /\ v[0] = start
                                       /\ \A k \in 1 .. n : v[k] = step[<<v[k - 1], k>>]
  <2>1. PICK base \in Handled : base = start
    OBVIOUS
  <2>2. PICK next \in [Handled \X (1 .. n) -> Handled] : next = step
    BY <1>3
  <2>3. \E v \in [0 .. n -> Handled] : LoopValues(v, n, base, next)
    BY <1>2, LoopExists
  <2> HIDE DEF step, start
  <2> QED
    BY Zenon, <2>1, <2>2, <2>3 DEF LoopValues
<1>5. v = F(v)
  <2>1. ASSUME NEW i \in 1 .. n
        PROVE  v[i] = HandleCollision(v[i - 1], willing, events[i][1], events[i][2])
    <3>1. v[i - 1] \in Handled
      BY <1>2
    <3> QED
      BY <1>4, <3>1
  <2> QED
    BY <1>2, <1>4, <2>1
<1>6. handled = F(handled)
  BY <1>5
<1> HIDE DEF handled
<1>7. handled[0] \in Handled
  BY <1>2, <1>6
<1>8. ASSUME NEW k \in 1 .. n, handled[k - 1] \in Handled
      PROVE  handled[k] \in Handled
  <2>1. handled[k] = HandleCollision(handled[k - 1], willing, events[k][1], events[k][2])
    BY <1>2, <1>6
  <2> QED
    BY <1>8, <2>1, HandleCollisionKeeps
<1>9. \A k \in 0 .. n : handled[k] \in Handled
  BY <1>2, <1>7, <1>8, LoopStays
<1> QED
  BY <1>1, <1>2, <1>9

(***************************************************************************)
(* The inductive invariant.                                                *)
(***************************************************************************)

\* loadLevel: mines are in the order, then groups; all units are in the mines.
LEMMA BotStart ==
  ASSUME PhysicsInit
  PROVE  BotIInv
<1> DEFINE mines == [i \in 1 .. MaxMineCount |-> MaxPlayerCount + i]
           groups == [g \in Groups |-> g]
<1>1. /\ MaxPlayerCount \in Nat \ {0} /\ MaxMineCount \in Nat /\ MineSize \in Nat
      /\ GameBoundsRadius \in Nat /\ MaxVelocity \in Nat /\ MineResourceCount \in Nat
  BY PhysicsAssumption
<1>2. /\ mines \in Seq(Bodies) /\ Len(mines) = MaxMineCount
      /\ groups \in Seq(Bodies) /\ Len(groups) = MaxPlayerCount
  BY <1>1 DEF Bodies, Mines, Groups
<1>3. ToSet(mines) = Mines
  <2>1. \A m \in Mines : m - MaxPlayerCount \in 1 .. MaxMineCount
                         /\ MaxPlayerCount + (m - MaxPlayerCount) = m
    BY <1>1 DEF Mines
  <2>2. \A i \in 1 .. MaxMineCount : MaxPlayerCount + i \in Mines
    BY <1>1 DEF Mines
  <2>3. ToSet(mines) = {MaxPlayerCount + i : i \in 1 .. MaxMineCount}
    BY DEF ToSet
  <2> QED
    BY <2>1, <2>2, <2>3
<1>4. ToSet(groups) = Groups
  BY DEF ToSet
<1> HIDE DEF mines, groups
<1>5. /\ mines \o groups \in Seq(Bodies) /\ Len(mines \o groups) = Len(mines) + Len(groups)
      /\ ToSet(mines \o groups) = ToSet(mines) \cup ToSet(groups)
  <2>1. PICK q \in Seq(Bodies), r \in Seq(Bodies) : q = mines /\ r = groups
    BY <1>2
  <2>2. q \o r \in Seq(Bodies) /\ Len(q \o r) = Len(q) + Len(r)
    BY ConcatProperties
  <2>3. ToSet(q \o r) = ToSet(q) \cup ToSet(r)
    BY ToSetFacts
  <2> QED
    BY <2>1, <2>2, <2>3
<1>6. /\ m_circleRigidBodies \in Seq(Bodies) /\ ToSet(m_circleRigidBodies) = Bodies
      /\ Len(m_circleRigidBodies) = Cardinality(Bodies)
  <2>1. m_circleRigidBodies = mines \o groups
    BY DEF PhysicsInit, mines, groups
  <2>2. MaxMineCount + MaxPlayerCount = MaxPlayerCount + MaxMineCount
    BY <1>1
  <2> QED
    BY <1>2, <1>3, <1>4, <1>5, <2>1, <2>2, BodyFacts DEF Bodies
<1>7. \A m \in Mines : MineCenter(m) - MineSize \in Int
  <2> TAKE m \in Mines
  <2>1. (GameBoundsRadius * 4) \div 5 \in Int
    BY <1>1
  <2>2. PICK s \in {-1, 1} : s = IF (m - MaxPlayerCount) % 2 = 1 THEN 1 ELSE -1
    OBVIOUS
  <2>3. MineCenter(m) = GameBoundsRadius + s * ((GameBoundsRadius * 4) \div 5)
    BY <2>2 DEF MineCenter
  <2> QED
    BY <1>1, <2>1, <2>3
<1>8. /\ \A g \in Groups :
           body[g] = [position |-> GameBoundsRadius, radius |-> 0, mass |-> 0, active |-> FALSE,
                      movable |-> TRUE, velocity |-> 0]
      /\ \A m \in Mines :
           body[m] = [position |-> MineCenter(m) - MineSize, radius |-> MineSize, mass |-> 0,
                      active |-> TRUE, movable |-> FALSE, velocity |-> 0]
      /\ body = [id \in Bodies |-> body[id]]
  BY BodyFacts DEF PhysicsInit
<1>9. 0 \in -MaxVelocity .. MaxVelocity
  BY <1>1
<1>10. \A id \in Bodies : body[id] \in Body /\ (body[id].movable <=> id \in Groups)
  <2> TAKE id \in Bodies
  <2>1. CASE id \in Groups
    <3>1. body[id] = [position |-> GameBoundsRadius, radius |-> 0, mass |-> 0, active |-> FALSE,
                      movable |-> TRUE, velocity |-> 0]
      BY <1>8, <2>1
    <3>2. body[id].movable = TRUE
      BY <3>1
    <3>3. body[id] \in Body
      BY <1>1, <1>9, <3>1 DEF Body
    <3> QED
      BY <2>1, <3>2, <3>3
  <2>2. CASE id \in Mines /\ id \notin Groups
    <3>1. PICK x \in Int : x = MineCenter(id) - MineSize
      BY <1>7, <2>2
    <3>2. body[id] = [position |-> x, radius |-> MineSize, mass |-> 0,
                      active |-> TRUE, movable |-> FALSE, velocity |-> 0]
      BY <1>8, <2>2, <3>1
    <3> QED
      BY <1>1, <1>9, <2>2, <3>2 DEF Body
  <2> QED
    BY <2>1, <2>2 DEF Bodies
<1>11. BodiesOK
  <2>1. body \in [Bodies -> Body]
    BY <1>8, <1>10
  <2>2. \A m \in Mines : body[m].active /\ body[m].radius = MineSize
                         /\ body[m].position = MineCenter(m) - MineSize /\ body[m].velocity = 0
    <3> TAKE m \in Mines
    <3>1. PICK x : x = MineCenter(m) - MineSize
      OBVIOUS
    <3>2. body[m] = [position |-> x, radius |-> MineSize, mass |-> 0,
                     active |-> TRUE, movable |-> FALSE, velocity |-> 0]
      BY <1>8, <3>1
    <3>3. body[m].active = TRUE /\ body[m].radius = MineSize /\ body[m].position = x
          /\ body[m].velocity = 0
      BY <3>2
    <3> QED
      BY <3>1, <3>3
  <2>3. m_tick \in 0 .. 1 /\ members \in [Groups -> SUBSET Players]
    BY DEF PhysicsInit
  <2> QED
    BY <1>6, <1>10, <2>1, <2>2, <2>3 DEF BodiesOK
<1>12. PhysicsTypeOK
  <2>1. nextGroupIndex \in 1 .. MaxPlayerCount + 1 /\ joinable \subseteq Bots
        /\ direction \in [Bots -> Signs]
    BY <1>1 DEF PhysicsInit, Signs
  <2>2. units \in [Mines -> 0 .. MineResourceCount]
    BY <1>1 DEF PhysicsInit
  <2>3. MaxMineCount * MineResourceCount \in Nat
    BY <1>1
  <2>4. held \in [Players -> 0 .. MaxMineCount * MineResourceCount]
    BY <2>3 DEF PhysicsInit
  <2> QED
    BY <1>11, <2>1, <2>2, <2>4 DEF PhysicsTypeOK
<1>13. UnitsAccounted
  <2>1. SumFunctionOnSet(units, Mines) = MaxMineCount * MineResourceCount
    <3>1. units = [m \in Mines |-> MineResourceCount]
      BY DEF PhysicsInit
    <3> QED
      BY <1>1, <3>1, BodyFacts, SumFunctionConstant
  <2>2. SumFunctionOnSet(held, Players) = 0
    <3>1. held = [p \in Players |-> 0]
      BY DEF PhysicsInit
    <3>2. SumFunctionOnSet([p \in Players |-> 0], Players) = MaxPlayerCount * 0
      BY BodyFacts, SumFunctionConstant
    <3> QED
      BY <1>1, <3>1, <3>2
  <2>3. MaxMineCount * MineResourceCount \in Nat
    BY <1>1
  <2> QED
    BY <2>1, <2>2, <2>3 DEF UnitsAccounted, UnitsIn
<1> QED
  BY <1>12, <1>13 DEF BotIInv

\* stable_partition loses no body.
LEMMA OrderKept ==
  ASSUME BodiesOK, NEW w \in Worlds
  PROVE  LET order == Partitioned(m_circleRigidBodies, w)
         IN order \in Seq(Bodies) /\ ToSet(order) = Bodies /\ Len(order) = Cardinality(Bodies)
<1> DEFINE A == {id \in Bodies : w[id].active}
           B == {id \in Bodies : ~w[id].active}
           order == Partitioned(m_circleRigidBodies, w)
<1>1. order = Selected(m_circleRigidBodies, A) \o Selected(m_circleRigidBodies, B)
  BY DEF Partitioned, Active
<1>2. \A x \in Bodies : x \in A <=> x \notin B
  OBVIOUS
<1> HIDE DEF A, B, order
<1>3. m_circleRigidBodies \in Seq(Bodies)
  BY DEF BodiesOK
<1>4. order \in Seq(Bodies) /\ Len(order) = Len(m_circleRigidBodies)
      /\ ToSet(order) = ToSet(m_circleRigidBodies)
  BY <1>1, <1>2, <1>3, PartitionKeepsAll
<1>5. order \in Seq(Bodies) /\ ToSet(order) = Bodies /\ Len(order) = Cardinality(Bodies)
  BY <1>4 DEF BodiesOK
<1> QED
  BY <1>5 DEF order

\* An update keeps the invariant, and ends with all groups on the map.
LEMMA UpdateKeeps ==
  ASSUME BotIInv, NEW pressed, Update(pressed)
  PROVE  BotIInv' /\ \A g \in Groups : body'[g].active => IsInBounds(body'[g])
<1> DEFINE updated == UpdateGroups
           order == Partitioned(m_circleRigidBodies, updated)
           stepped == Step(updated, pressed @@ direction)
           collided == ResolveCollisions(stepped, order)
<1>1. BodiesOK
  BY DEF BotIInv, PhysicsTypeOK
<1>2. PICK w \in Worlds : w = updated
  BY <1>1, UpdateGroupsWorld
<1>3. order \in Seq(Bodies) /\ ToSet(order) = Bodies /\ Len(order) = Cardinality(Bodies)
  BY <1>1, <1>2, OrderKept
<1>4. PICK s \in Worlds : s = stepped
  <2>1. Step(w, pressed @@ direction) \in Worlds
    BY <1>1, StepKeeps DEF BodiesOK
  <2> QED
    BY <1>2, <2>1
<1>5. PICK c \in [world : Worlds, events : Events] : c = collided
  <2>1. PICK o \in Seq(Bodies) : o = order
    BY <1>3
  <2>2. ResolveCollisions(s, o) \in [world : Worlds, events : Events]
    BY ResolveCollisionsKeep
  <2> QED
    BY <1>4, <2>1, <2>2
<1>6. /\ m_tick' = 1 - m_tick
      /\ m_circleRigidBodies' = order
      /\ body' = ResolveMapBounds(collided.world)
      /\ \E gone \in SUBSET (Humans \cap InGroup),
            created \in 0 .. MaxPlayerCount + 1 - nextGroupIndex,
            willing \in SUBSET Deciding(collided.events) :
           \E handled \in {HandleCollisions(CreateGroups(RemovePlayers(members, gone), created),
                                           collided.events, willing)} :
             /\ members' = handled.members
             /\ units' = handled.units
             /\ held' = handled.held
             /\ nextGroupIndex' = nextGroupIndex + created
      /\ UNCHANGED <<joinable, direction>>
  BY Zenon DEF Update
<1> HIDE DEF order, collided
<1>7. PICK u \in Worlds : u = c.world
  OBVIOUS
<1>8. /\ ResolveMapBounds(u) \in Worlds
      /\ \A g \in Groups : ResolveMapBounds(u)[g].active => IsInBounds(ResolveMapBounds(u)[g])
  BY ResolveMapBoundsBrings
<1>9. body' = ResolveMapBounds(u)
  BY <1>5, <1>6, <1>7
<1>10. \A g \in Groups : body'[g].active => IsInBounds(body'[g])
  BY <1>8, <1>9
<1>11. body' \in Worlds
  BY <1>8, <1>9
<1>12. PICK gone \in SUBSET (Humans \cap InGroup), created \in 0 .. MaxPlayerCount + 1 - nextGroupIndex,
            willing \in SUBSET Deciding(c.events) :
         LET handled == HandleCollisions(CreateGroups(RemovePlayers(members, gone), created),
                                         c.events, willing)
         IN /\ members' = handled.members
            /\ units' = handled.units
            /\ held' = handled.held
            /\ nextGroupIndex' = nextGroupIndex + created
  BY <1>5, <1>6
<1> DEFINE groups == CreateGroups(RemovePlayers(members, gone), created)
<1>13. groups \in [Groups -> SUBSET Players]
  BY <1>1 DEF CreateGroups, RemovePlayers, BodiesOK, Groups, Players
<1>14. nextGroupIndex' \in 1 .. MaxPlayerCount + 1
  BY <1>12, PhysicsAssumption DEF BotIInv, PhysicsTypeOK
<1> HIDE DEF groups
<1>15. [members |-> groups, units |-> units, held |-> held] \in Handled
  <2>1. held \in [Players -> Nat]
    <3>1. MaxMineCount * MineResourceCount \in Nat
      BY PhysicsAssumption
    <3> QED
      BY <3>1 DEF BotIInv, PhysicsTypeOK
  <2> QED
    BY <1>13, <2>1 DEF Handled, BotIInv, PhysicsTypeOK, UnitsAccounted
<1>16. PICK h \in Handled : h = HandleCollisions(groups, c.events, willing)
  BY <1>15, HandleCollisionsKeep
<1>17. members' = h.members /\ units' = h.units /\ held' = h.held
  BY <1>12, <1>16 DEF groups
<1>18. BodiesOK'
  <2>1. m_tick' \in 0 .. 1
    BY <1>1, <1>6 DEF BodiesOK
  <2>2. members' \in [Groups -> SUBSET Players]
    BY <1>17 DEF Handled
  <2> QED
    BY <1>3, <1>6, <1>11, <2>1, <2>2 DEF BodiesOK, Worlds
<1>19. units' \in [Mines -> 0 .. MineResourceCount]
       /\ UnitsIn(units', held') = MaxMineCount * MineResourceCount
  BY <1>17 DEF Handled
<1>20. held' \in [Players -> 0 .. MaxMineCount * MineResourceCount]
  BY <1>17, HeldIsBounded
<1>21. PhysicsTypeOK'
  BY <1>6, <1>18, <1>19, <1>20, <1>14 DEF BotIInv, PhysicsTypeOK
<1>22. UnitsAccounted'
  BY <1>19 DEF UnitsAccounted
<1> QED
  BY <1>10, <1>21, <1>22 DEF BotIInv

(***************************************************************************)
(* A group and a mine.                                                     *)
(***************************************************************************)

\* Before the centre of m, seen from the middle of the map.
Before(b, m) == Depth(b, m) < b.radius + MineSize

\* The mines are on two sides of the middle, and as far from it.
LEMMA MineFacts ==
  ASSUME NEW m \in Mines, NEW n \in Mines
  PROVE  /\ MineCenter(m) \in Int
         /\ MineCenter(n) = MineCenter(m)
              \/ MineCenter(n) = (GameBoundsRadius + GameBoundsRadius) - MineCenter(m)
<1>1. GameBoundsRadius \in Nat
  BY PhysicsAssumption
<1>2. PICK d \in Int : d = (GameBoundsRadius * 4) \div 5
  BY <1>1
<1>3. \A k \in Mines : MineCenter(k) = GameBoundsRadius + d \/ MineCenter(k) = GameBoundsRadius - d
  BY <1>1, <1>2 DEF MineCenter
<1> QED
  BY <1>1, <1>2, <1>3

\* The depth in numbers.
LEMMA DepthFacts ==
  ASSUME NEW b \in Body, NEW m \in Mines
  PROVE  /\ Center(b) \in Int /\ b.radius \in Nat /\ MineSize \in Nat /\ MaxVelocity \in Nat
         /\ GameBoundsRadius \in Nat /\ MineCenter(m) \in Int /\ Depth(b, m) \in Int
         /\ MineCenter(m) > GameBoundsRadius =>
              Depth(b, m) = (b.radius + MineSize) - (MineCenter(m) - Center(b))
         /\ MineCenter(m) < GameBoundsRadius =>
              Depth(b, m) = (b.radius + MineSize) - (Center(b) - MineCenter(m))
         /\ MineCenter(m) = GameBoundsRadius => Depth(b, m) = b.radius + MineSize
<1>1. PICK R \in Nat, M \in Nat, V \in Nat : R = GameBoundsRadius /\ M = MineSize /\ V = MaxVelocity
  BY PhysicsAssumption
<1>2. PICK C \in Int : C = MineCenter(m)
  BY MineFacts
<1>3. PICK r \in Nat, X \in Int : r = b.radius /\ X = Center(b)
  <2>1. b.position \in Int /\ b.radius \in Nat
    BY DEF Body
  <2>2. b.position + b.radius \in Int
    BY <2>1
  <2> QED
    BY <2>1, <2>2 DEF Center
<1>4. Depth(b, m) = r + (M - Sign(C - R) * (C - X))
  BY <1>1, <1>2, <1>3, Zenon DEF Depth
<1>5. Sign(C - R) = IF C > R THEN 1 ELSE IF C < R THEN -1 ELSE 0
  BY DEF Sign
<1> QED
  BY <1>1, <1>2, <1>3, <1>4, <1>5

\* How a movable body is moved out of a mine, whichever comes first.
LEMMA MinePushes ==
  ASSUME NEW b \in Body, NEW k \in Body, b.movable, ~ k.movable, NEW m \in Mines,
         k.radius = MineSize, Center(k) = MineCenter(m), Before(b, m)
  PROVE  /\ AreIntersecting(b, k) <=> Depth(b, m) > 0
         /\ AreIntersecting(k, b) <=> Depth(b, m) > 0
         /\ \A c \in Body :
              /\ c.radius = b.radius
              /\ c.position = b.position + Resolution(b, k).first
                   \/ c.position = b.position + Resolution(k, b).second
              /\ Depth(b, m) > 0
              => 0 <= Depth(c, m) /\ 2 * Depth(c, m) <= Depth(b, m)
<1>1. PICK R \in Nat, M \in Nat, V \in Nat : R = GameBoundsRadius /\ M = MineSize /\ V = MaxVelocity
  BY PhysicsAssumption
<1>2. PICK C \in Int : C = MineCenter(m)
  BY MineFacts
<1>3. PICK r \in Nat, x \in Int : r = b.radius /\ x = b.position
  BY DEF Body
<1>4. Center(b) = x + r /\ Center(k) = C
  BY <1>2, <1>3 DEF Center
<1>5. PICK d \in Int : d = Depth(b, m)
  BY DepthFacts
<1>6. d < r + M
  BY <1>1, <1>3, <1>5 DEF Before
<1>7. C # R
  BY <1>1, <1>2, <1>3, <1>5, <1>6, DepthFacts
<1>8. PICK s \in {-1, 1} : s = IF C > R THEN 1 ELSE -1
  OBVIOUS
<1>9. /\ C > R => d = (r + M) - (C - (x + r)) /\ x + r < C
      /\ C < R => d = (r + M) - ((x + r) - C) /\ x + r > C
  BY <1>1, <1>2, <1>3, <1>4, <1>5, <1>6, DepthFacts
<1>10. Overlap(b, k) = d /\ Overlap(k, b) = d
  <2>1. Distance(x + r, C) = (r + M) - d /\ Distance(C, x + r) = (r + M) - d
    BY <1>7, <1>9 DEF Distance
  <2> QED
    BY <1>1, <1>3, <1>4, <2>1 DEF Overlap
<1>11. Normal(b, k) = -s /\ Normal(k, b) = s
  BY <1>4, <1>7, <1>8, <1>9 DEF Normal, Sign
<1>12. (AreIntersecting(b, k) <=> d > 0) /\ (AreIntersecting(k, b) <=> d > 0)
  <2>1. Distance(x + r, C) = (r + M) - d /\ Distance(C, x + r) = (r + M) - d
    BY <1>7, <1>9 DEF Distance
  <2> QED
    BY <1>1, <1>3, <1>4, <2>1 DEF AreIntersecting
<1>13. PICK h \in Int : h = HalfUp(d)
  BY SignFacts
<1>14. Resolution(b, k).first = -s * d /\ Resolution(k, b).second = -s * h
  BY <1>10, <1>11, <1>13 DEF Resolution
<1>15. ASSUME NEW c \in Body, c.radius = b.radius, d > 0,
              c.position = x + (-s * d) \/ c.position = x + (-s * h)
       PROVE  0 <= Depth(c, m) /\ 2 * Depth(c, m) <= d
  <2>1. PICK e \in Int : e = Depth(c, m)
    BY DepthFacts
  <2>2. PICK y \in Int : y = c.position
    BY DEF Body
  <2>3. Center(c) = y + r
    BY <1>3, <1>15, <2>2 DEF Center
  <2>4. /\ C > R => e = (r + M) - (C - (y + r))
        /\ C < R => e = (r + M) - ((y + r) - C)
    BY <1>1, <1>2, <1>3, <1>15, <2>1, <2>3, DepthFacts
  <2>5. 2 * h >= d /\ h <= d
    BY <1>13, <1>15 DEF HalfUp
  <2>6. e = d - d \/ e = d - h
    <3>1. CASE C > R
      <4>1. s = 1
        BY <1>8, <3>1
      <4>2. y = x - d \/ y = x - h
        BY <1>15, <2>2, <4>1
      <4> QED
        BY <1>9, <2>4, <3>1, <4>2
    <3>2. CASE C < R
      <4>1. s = -1
        BY <1>8, <3>2
      <4>2. y = x + d \/ y = x + h
        BY <1>15, <2>2, <4>1
      <4> QED
        BY <1>9, <2>4, <3>2, <4>2
    <3> QED
      BY <1>7, <3>1, <3>2
  <2> QED
    BY <2>1, <2>5, <2>6, <1>15
<1> QED
  BY <1>3, <1>5, <1>12, <1>14, <1>15

\* A collision with a mine leaves at most half of the depth.
LEMMA CollisionHalves ==
  ASSUME NEW w \in Worlds, NEW g \in Groups, w[g].active, NEW m \in Mines, Before(w[g], m),
         NEW a \in Bodies, NEW b \in Bodies, (a = g /\ b = m) \/ (a = m /\ b = g),
         AreIntersecting(w[a], w[b])
  PROVE  LET c == ResolveCollision(w, a, b)[g]
         IN /\ c \in Body /\ c.active /\ c.radius = w[g].radius
            /\ 0 <= Depth(c, m) /\ 2 * Depth(c, m) <= Depth(w[g], m)
<1>1. g \in Bodies /\ m \in Bodies /\ g # m /\ a # b
  BY BodyFacts
<1>2. PICK x \in Body, k \in Body : x = w[g] /\ k = w[m]
  BY <1>1 DEF Worlds
<1>3. x.movable /\ ~ k.movable /\ k.radius = MineSize /\ k.position = MineCenter(m) - MineSize
  BY <1>1, <1>2, BodyFacts DEF Worlds
<1>4. Center(k) = MineCenter(m)
  <2>1. MineCenter(m) \in Int /\ MineSize \in Int
    BY MineFacts, PhysicsAssumption
  <2> QED
    BY <1>3, <2>1 DEF Center
<1>5. PICK c : c = ResolveCollision(w, a, b)[g]
  OBVIOUS
<1>6. /\ Moved(x, c)
      /\ c.position = x.position + Resolution(x, k).first
           \/ c.position = x.position + Resolution(k, x).second
  BY <1>1, <1>2, <1>3, <1>5, CollisionMoves
<1>7. Depth(x, m) > 0
  BY <1>2, <1>3, <1>4, MinePushes
<1> QED
  BY <1>2, <1>3, <1>4, <1>5, <1>6, <1>7, MinePushes DEF Moved

\* One step goes as far as the velocity, which is limited.
LEMMA StepGoes ==
  ASSUME NEW b \in Body, b.active, b.movable, NEW target \in Int
  PROVE  LET c == StepBody(b, target)
         IN Moved(b, c) /\ c.position = b.position + c.velocity
<1>1. PICK V \in Nat : V = MaxVelocity
  BY PhysicsAssumption
<1>2. PICK t \in -V .. V : t = Clamp(target)
  BY <1>1, ClampType
<1>3. PICK u \in -V .. V : u = b.velocity
  BY <1>1 DEF Body
<1>4. PICK v \in -V .. V : v = Lerp(u, t)
  BY <1>2, <1>3 DEF Lerp, Sign
<1>5. Clamp(v) = v
  BY <1>1 DEF Clamp
<1>6. PICK e : e = [b EXCEPT !.velocity = v]
  OBVIOUS
<1>7. SetVelocity(b, v) = e
  BY <1>5, <1>6 DEF SetVelocity
<1>8. e \in Body /\ e.active /\ e.movable /\ e.velocity = v /\ e.position = b.position
  BY <1>1, <1>6 DEF Body
<1>9. Moved(e, Move(e, v)) /\ Move(e, v).velocity = v /\ Move(e, v).position = b.position + v
  BY <1>8, MoveMoves
<1>10. StepBody(b, target) = Move(e, v)
  BY <1>2, <1>3, <1>4, <1>7 DEF StepBody
<1> QED
  BY <1>9, <1>10, StepBodyMoves

(***************************************************************************)
(* A group that is alone with a mine, from the start b of an update on.    *)
(***************************************************************************)

\* b has a step's way to the centre of m, and neither a step nor a collision with m
\* takes it to a mine on the other side.
Free(b, m) ==
  /\ Depth(b, m) + MaxVelocity < b.radius + MineSize
  /\ \A n \in Mines : \A depth \in {MaxVelocity, Depth(b, m)} :
       MineCenter(n) = MineCenter(m)
         \/ b.radius + MineSize + depth <= Distance(Center(b), MineCenter(n))

\* How far it gets during the update.
Course(c, b, m) ==
  /\ c.active /\ c.radius = b.radius
  /\ Depth(c, m) <= Depth(b, m) + MaxVelocity
  /\ 0 <= Depth(c, m) \/ Depth(b, m) <= Depth(c, m) + MaxVelocity

Firm(c, b, m) == Depth(c, m) <= MaxVelocity \/ Depth(c, m) < Depth(b, m)

\* The mines on the other side are not met.
LEMMA OtherSide ==
  ASSUME NEW b \in Body, NEW c \in Body, NEW k \in Body, NEW m \in Mines, NEW n \in Mines,
         Free(b, m), Course(c, b, m), k.radius = MineSize, Center(k) = MineCenter(n),
         MineCenter(n) # MineCenter(m)
  PROVE  ~ AreIntersecting(c, k) /\ ~ AreIntersecting(k, c)
<1>1. PICK R \in Nat, M \in Nat, V \in Nat : R = GameBoundsRadius /\ M = MineSize /\ V = MaxVelocity
  BY PhysicsAssumption
<1>2. PICK C \in Int : C = MineCenter(m)
  BY MineFacts
<1>3. MineCenter(n) = (R + R) - C /\ C # R
  <2>1. MineCenter(n) = (R + R) - C
    BY <1>1, <1>2, MineFacts
  <2> QED
    BY <1>1, <1>2, <2>1
<1>4. PICK r \in Nat, x \in Int : r = b.radius /\ x = Center(b)
  BY DepthFacts
<1>5. PICK y \in Int : y = Center(c)
  BY DepthFacts
<1>6. PICK d \in Int, e \in Int : d = Depth(b, m) /\ e = Depth(c, m)
  BY DepthFacts
<1>7. c.radius = r /\ e <= d + V /\ (0 <= e \/ d <= e + V) /\ d + V < r + M
  BY <1>1, <1>4, <1>6 DEF Course, Free
<1>8. PICK D \in Int : D = Distance(x, (R + R) - C)
  BY SignFacts
<1>9. r + M + V <= D /\ r + M + d <= D
  BY <1>1, <1>2, <1>3, <1>4, <1>6, <1>8 DEF Free
<1>10. /\ C > R => d = (r + M) - (C - x) /\ e = (r + M) - (C - y)
       /\ C < R => d = (r + M) - (x - C) /\ e = (r + M) - (y - C)
  BY <1>1, <1>2, <1>4, <1>5, <1>6, <1>7, DepthFacts
<1>11. Distance(y, (R + R) - C) >= r + M
  <2>1. CASE C > R
    BY <1>7, <1>8, <1>9, <1>10, <2>1 DEF Distance
  <2>2. CASE C < R
    BY <1>7, <1>8, <1>9, <1>10, <2>2 DEF Distance
  <2> QED
    BY <1>3, <2>1, <2>2
<1>12. Distance((R + R) - C, y) = Distance(y, (R + R) - C)
  BY DEF Distance
<1>13. PICK E \in Int : E = Distance(y, (R + R) - C)
  BY SignFacts
<1> QED
  BY <1>1, <1>2, <1>3, <1>5, <1>7, <1>11, <1>12, <1>13 DEF AreIntersecting

LEMMA MineIsFirm ==
  ASSUME NEW w \in Worlds, NEW m \in Mines
  PROVE  /\ w[m] \in Body /\ ~ w[m].movable /\ w[m].radius = MineSize /\ w[m].velocity = 0
         /\ Center(w[m]) = MineCenter(m)
<1>1. m \in Bodies /\ m \notin Groups
  BY BodyFacts
<1>2. w[m] \in Body /\ ~ w[m].movable /\ w[m].radius = MineSize /\ w[m].velocity = 0
      /\ w[m].position = MineCenter(m) - MineSize
  BY <1>1 DEF Worlds
<1>3. MineCenter(m) \in Int /\ MineSize \in Int
  BY MineFacts, PhysicsAssumption
<1> QED
  BY <1>2, <1>3 DEF Center

\* What a visit makes of the group.
LEMMA VisitIsFirm ==
  ASSUME NEW z \in [world : Worlds, events : Events], NEW g \in Groups, NEW m \in Mines,
         NEW b \in Body, Free(b, m), Course(z.world[g], b, m),
         NEW p \in Mines \cup {g}, NEW q \in Mines \cup {g}
  PROVE  LET c == Visit(z, p, q).world[g]
         IN /\ Course(c, b, m)
            /\ c = z.world[g] \/ Firm(c, b, m)
            /\ p = g /\ q = m /\ Collide(z.world, g, m) => Firm(c, b, m)
<1>1. PICK w \in Worlds : w = z.world
  OBVIOUS
<1>2. PICK x \in Body : x = w[g]
  BY BodyFacts DEF Worlds
<1>3. p \in Bodies /\ q \in Bodies /\ g \notin Mines
  BY BodyFacts
<1>4. PICK d \in Int, e \in Int, V \in Nat : d = Depth(b, m) /\ e = Depth(x, m) /\ V = MaxVelocity
  BY DepthFacts
<1>5. x.active /\ x.radius = b.radius /\ e <= d + V /\ (0 <= e \/ d <= e + V)
  BY <1>1, <1>2, <1>4 DEF Course
<1>6. CASE ~ Collide(w, p, q)
  <2>1. Visit(z, p, q) = z
    BY <1>1, <1>6 DEF Visit
  <2> QED
    BY <1>1, <1>6, <2>1
<1>7. CASE Collide(w, p, q)
  <2>1. PICK c : c = ResolveCollision(w, p, q)[g]
    OBVIOUS
  <2>2. Visit(z, p, q).world[g] = c
    BY <1>1, <1>7, <2>1 DEF Visit
  <2>3. p # q /\ AreIntersecting(w[p], w[q])
    BY <1>7 DEF Collide
  <2>4. CASE p \in Mines /\ q \in Mines
    <3>1. c = w[g]
      BY <1>3, <2>1, <2>3, <2>4, BodyFacts, CollisionMoves
    <3> QED
      BY <1>1, <1>3, <2>2, <2>4, <3>1
  <2>5. ASSUME NEW n \in Mines, (p = g /\ q = n) \/ (p = n /\ q = g)
        PROVE  Course(c, b, m) /\ Firm(c, b, m)
    <3>1. MineCenter(n) = MineCenter(m)
      <4>1. PICK k \in Body : k = w[n]
        BY MineIsFirm
      <4>2. k.radius = MineSize /\ Center(k) = MineCenter(n)
        BY <4>1, MineIsFirm
      <4>3. AreIntersecting(x, k) \/ AreIntersecting(k, x)
        BY <1>2, <2>3, <2>5, <4>1
      <4> QED
        BY <1>1, <1>2, <4>2, <4>3, OtherSide
    <3>2. \A y : Depth(y, n) = Depth(y, m)
      BY <3>1 DEF Depth
    <3>3. Before(x, n)
      <4>1. d + V < x.radius + MineSize /\ x.radius \in Nat /\ MineSize \in Nat
        BY <1>4, <1>5, DepthFacts DEF Free
      <4> QED
        BY <1>4, <1>5, <3>2, <4>1 DEF Before
    <3>4. /\ c \in Body /\ c.active /\ c.radius = b.radius
          /\ 0 <= Depth(c, n) /\ 2 * Depth(c, n) <= Depth(x, n)
      BY <1>2, <1>3, <1>5, <2>1, <2>3, <2>5, <3>3, CollisionHalves
    <3>5. PICK f \in Int : f = Depth(c, m)
      BY <3>4, DepthFacts
    <3>6. 0 <= f /\ 2 * f <= e
      BY <1>4, <3>2, <3>4, <3>5
    <3>7. f <= d + V /\ (f <= V \/ f < d)
      BY <1>5, <3>6
    <3> QED
      BY <1>4, <3>4, <3>5, <3>6, <3>7 DEF Course, Firm
  <2>6. CASE ~ (p \in Mines /\ q \in Mines)
    <3>1. \E n \in Mines : (p = g /\ q = n) \/ (p = n /\ q = g)
      <4>1. p # q
        BY <2>3
      <4>2. (p \in Mines \/ p = g) /\ (q \in Mines \/ q = g)
        OBVIOUS
      <4>3. (p = g /\ q \in Mines) \/ (p \in Mines /\ q = g)
        BY <2>6, <4>1, <4>2
      <4> QED
        BY <4>3
    <3>2. Course(c, b, m) /\ Firm(c, b, m)
      BY <2>5, <3>1
    <3> QED
      BY <2>2, <3>2
  <2> QED
    BY <2>4, <2>6
<1> QED
  BY <1>6, <1>7

\* Every pair has its visit.
LEMMA PairVisited ==
  ASSUME NEW n \in Nat, NEW p \in 1 .. n, NEW q \in 1 .. n
  PROVE  \E i \in 1 .. n * n : ((i - 1) \div n) + 1 = p /\ ((i - 1) % n) + 1 = q
<1>1. PICK a \in 0 .. n - 1, b \in 0 .. n - 1 : a = p - 1 /\ b = q - 1
  OBVIOUS
<1>2. PICK j \in Nat : j = n * a + b
  OBVIOUS
<1>3. j \div n = a /\ j % n = b
  <2>1. n > 0
    OBVIOUS
  <2>2. PICK s \in Int, t \in 0 .. n - 1 : s = j \div n /\ t = j % n /\ j = n * s + t
    BY <2>1
  <2>3. n * (a - s) = t - b
    BY <1>2, <2>2
  <2>4. a - s = 0
    <3>1. CASE a - s >= 1
      <4>1. n * (a - s) >= n
        BY <2>1, <3>1
      <4> QED
        BY <2>3, <4>1
    <3>2. CASE a - s <= -1
      <4>1. n * (a - s) <= -n
        BY <2>1, <3>2
      <4> QED
        BY <2>3, <4>1
    <3> QED
      BY <3>1, <3>2
  <2> QED
    BY <2>2, <2>3, <2>4
<1>4. j + 1 \in 1 .. n * n
  <2>1. n * a <= n * (n - 1)
    BY <1>1
  <2>2. n * (n - 1) = n * n - n
    OBVIOUS
  <2>3. PICK sq \in Int, na \in Int : sq = n * n /\ na = n * a
    OBVIOUS
  <2>4. j < sq
    BY <1>1, <1>2, <2>1, <2>2, <2>3
  <2> QED
    BY <2>3, <2>4
<1>5. (j + 1) - 1 = j
  OBVIOUS
<1>6. (((j + 1) - 1) \div n) + 1 = p /\ (((j + 1) - 1) % n) + 1 = q
  BY <1>1, <1>3, <1>5
<1> QED
  BY <1>4, <1>6, Zenon

\* All visits of an update, if the group is where its first step took it.
LEMMA CollisionsAreFirm ==
  ASSUME NEW s \in Worlds, NEW order \in Seq(Bodies), NEW g \in Groups, NEW m \in Mines,
         NEW b \in Body, Free(b, m), Course(s[g], b, m),
         ToSet(order) = Bodies,
         \A h \in Groups : s[h].active <=> h = g,
         ~ Collide(s, g, m) => Firm(s[g], b, m)
  PROVE  LET c == ResolveCollisions(s, order).world[g]
         IN Course(c, b, m) /\ Firm(c, b, m)
<1> DEFINE bodies == Active(order, s)
           n == Len(bodies)
<1>1. PICK visited :
        /\ bodies \in Seq(Bodies)
        /\ Visiting(visited, s, bodies)
        /\ \A k \in 0 .. n * n : visited[k] \in [world : Worlds, events : Events]
        /\ ResolveCollisions(s, order) = visited[n * n]
  BY ResolveCollisionsVisit
<1>2. ToSet(bodies) = Mines \cup {g}
  <2>1. ToSet(bodies) = {id \in Bodies : s[id].active}
    <3>1. ToSet(Selected(order, {id \in Bodies : s[id].active}))
            = ToSet(order) \cap {id \in Bodies : s[id].active}
      BY SelectedHas
    <3> QED
      BY <3>1 DEF Active
  <2>2. \A k \in Mines : s[k].active
    BY DEF Worlds
  <2> HIDE DEF bodies
  <2> QED
    BY <2>1, <2>2 DEF Bodies
<1> HIDE DEF bodies
<1>3. PICK size \in Nat : size = n /\ DOMAIN bodies = 1 .. size
  BY <1>1, LenProperties
<1>4. \A k \in 1 .. size : bodies[k] \in Mines \cup {g}
  BY <1>2, <1>3 DEF ToSet
<1>5. PICK i \in 1 .. size * size :
        bodies[((i - 1) \div size) + 1] = g /\ bodies[((i - 1) % size) + 1] = m
  <2>1. \A id \in Mines \cup {g} : \E k \in 1 .. size : bodies[k] = id
    BY <1>2, <1>3 DEF ToSet
  <2>2. PICK p \in 1 .. size : bodies[p] = g
    BY <2>1
  <2>3. PICK q \in 1 .. size : bodies[q] = m
    BY <2>1
  <2>4. PICK i \in 1 .. size * size : ((i - 1) \div size) + 1 = p /\ ((i - 1) % size) + 1 = q
    BY PairVisited
  <2> QED
    BY <2>2, <2>3, <2>4
<1> DEFINE V == [k \in 0 .. size * size |->
             {z \in [world : Worlds, events : Events] :
                /\ Course(z.world[g], b, m)
                /\ Firm(z.world[g], b, m) \/ (k < i /\ z.world[g] = s[g]
                                                /\ \A id \in Mines : z.world[id] = s[id])}]
<1>6. PICK pairs \in Nat : pairs = size * size
  OBVIOUS
<1>7. visited[0] \in V[0]
  <2>1. visited[0] = [world |-> s, events |-> <<>>]
    BY <1>1 DEF Visiting
  <2>2. 0 < i /\ 0 \in 0 .. size * size
    BY <1>6
  <2>3. visited[0] \in [world : Worlds, events : Events]
    BY <1>1, <1>3, <1>6
  <2> QED
    BY <2>1, <2>2, <2>3
<1>8. ASSUME NEW k \in 1 .. pairs, visited[k - 1] \in V[k - 1]
      PROVE  visited[k] \in V[k]
  <2> DEFINE p == bodies[((k - 1) \div size) + 1]
             q == bodies[((k - 1) % size) + 1]
  <2>1. visited[k] = Visit(visited[k - 1], p, q)
    BY <1>1, <1>3, <1>6 DEF Visiting
  <2>2. p \in Mines \cup {g} /\ q \in Mines \cup {g}
    BY <1>4, <1>6, SquareFacts
  <2>3. k = i => p = g /\ q = m
    BY <1>5
  <2> HIDE DEF p, q
  <2>4. PICK z \in [world : Worlds, events : Events] : z = visited[k - 1]
    BY <1>6, <1>8
  <2>5. /\ Course(z.world[g], b, m)
        /\ Firm(z.world[g], b, m) \/ (k - 1 < i /\ z.world[g] = s[g]
                                        /\ \A id \in Mines : z.world[id] = s[id])
    BY <1>6, <1>8, <2>4
  <2>6. PICK y : y = Visit(z, p, q)
    OBVIOUS
  <2>7. /\ Course(y.world[g], b, m)
        /\ y.world[g] = z.world[g] \/ Firm(y.world[g], b, m)
        /\ p = g /\ q = m /\ Collide(z.world, g, m) => Firm(y.world[g], b, m)
    BY <2>2, <2>5, <2>6, VisitIsFirm
  <2>8. y \in [world : Worlds, events : Events]
    BY <2>2, <2>6, VisitKeeps, BodyFacts
  <2>9. \A id \in Mines : y.world[id] = z.world[id]
    <3>1. CASE Collide(z.world, p, q)
      <4>1. y.world = ResolveCollision(z.world, p, q) /\ p # q
        BY <2>6, <3>1 DEF Visit, Collide
      <4>2. \A id \in Bodies : Moved(z.world[id], y.world[id])
        BY <2>2, <4>1, CollisionMoves, BodyFacts
      <4> QED
        BY <4>2, BodyFacts DEF Moved, Worlds
    <3>2. CASE ~ Collide(z.world, p, q)
      BY <2>6, <3>2 DEF Visit
    <3> QED
      BY <3>1, <3>2
  <2>10. CASE Firm(y.world[g], b, m)
    BY <1>6, <2>1, <2>4, <2>6, <2>7, <2>8, <2>10
  <2>11. CASE ~ Firm(y.world[g], b, m)
    <3>1. y.world[g] = z.world[g] /\ ~ Firm(z.world[g], b, m)
      BY <2>7, <2>11
    <3>2. k - 1 < i /\ z.world[g] = s[g] /\ \A id \in Mines : z.world[id] = s[id]
      BY <2>5, <3>1
    <3>3. k # i
      <4> SUFFICES ASSUME k = i
                   PROVE  FALSE
        OBVIOUS
      <4>1. ~ Collide(z.world, g, m)
        BY <2>3, <2>7, <2>11
      <4>2. ~ Collide(s, g, m)
        BY <3>2, <4>1 DEF Collide
      <4> QED
        BY <3>1, <3>2, <4>2
    <3>4. k < i
      BY <1>6, <3>2, <3>3
    <3>5. /\ y.world[g] = s[g]
          /\ \A id \in Mines : y.world[id] = s[id]
      BY <2>9, <3>1, <3>2
    <3> QED
      BY <1>6, <2>1, <2>4, <2>6, <2>7, <2>8, <3>4, <3>5
  <2> QED
    BY <2>10, <2>11
<1>9. visited[pairs] \in V[pairs]
  <2> HIDE DEF V
  <2>1. \A k \in 1 .. pairs : visited[k - 1] \in V[k - 1] => visited[k] \in V[k]
    BY <1>8
  <2>2. \A k \in 0 .. pairs : visited[k] \in V[k]
    BY <1>7, <2>1, LoopFollows
  <2> QED
    BY <2>2
<1>10. Course(visited[pairs].world[g], b, m) /\ Firm(visited[pairs].world[g], b, m)
  BY <1>6, <1>9
<1>11. ResolveCollisions(s, order) = visited[pairs]
  BY <1>1, <1>3, <1>6
<1> QED
  BY <1>10, <1>11

\* The group's own step: it does not collide only if it keeps off m or moves away.
LEMMA StepIsFirm ==
  ASSUME NEW b \in Body, NEW c \in Body, NEW k \in Body, NEW m \in Mines, Free(b, m),
         c.active, c.movable, c.radius = b.radius, c.position = b.position + c.velocity,
         ~ k.movable, k.radius = MineSize, k.velocity = 0, Center(k) = MineCenter(m)
  PROVE  /\ Course(c, b, m)
         /\ ~ (AreIntersecting(c, k) /\ Collided(c, k)) => Firm(c, b, m)
<1>1. PICK R \in Nat, M \in Nat, V \in Nat : R = GameBoundsRadius /\ M = MineSize /\ V = MaxVelocity
  BY PhysicsAssumption
<1>2. PICK C \in Int : C = MineCenter(m)
  BY MineFacts
<1>3. PICK r \in Nat, x \in Int, v \in -V .. V : r = b.radius /\ x = b.position /\ v = c.velocity
  BY <1>1 DEF Body
<1>4. Center(b) = x + r /\ Center(c) = (x + v) + r
  BY <1>3 DEF Center
<1>5. PICK d \in Int, e \in Int : d = Depth(b, m) /\ e = Depth(c, m)
  BY DepthFacts
<1>6. d + V < r + M
  BY <1>1, <1>3, <1>5 DEF Free
<1>7. C # R
  BY <1>1, <1>2, <1>3, <1>5, <1>6, DepthFacts
<1>8. /\ C > R => d = (r + M) - (C - (x + r)) /\ e = (r + M) - (C - ((x + v) + r))
      /\ C < R => d = (r + M) - ((x + r) - C) /\ e = (r + M) - (((x + v) + r) - C)
  BY <1>1, <1>2, <1>3, <1>4, <1>5, DepthFacts
<1>9. (C > R => e = d + v) /\ (C < R => e = d - v)
  BY <1>8
<1>10. Course(c, b, m)
  BY <1>1, <1>5, <1>7, <1>9 DEF Course
<1>11. e < r + M
  BY <1>6, <1>7, <1>9
<1>12. AreIntersecting(c, k) <=> e > 0
  <2>1. Before(c, m)
    BY <1>1, <1>3, <1>5, <1>11 DEF Before
  <2> QED
    BY <1>5, <2>1, MinePushes
<1>13. AlongNormal(c, k) = IF C > R THEN -v ELSE v
  <2>1. CASE C > R
    <3>1. (x + v) + r < C
      BY <1>8, <1>11, <2>1
    <3>2. Normal(c, k) = -1
      BY <1>2, <1>4, <3>1 DEF Normal, Sign
    <3> QED
      BY <1>3, <2>1, <3>2 DEF AlongNormal
  <2>2. CASE C < R
    <3>1. (x + v) + r > C
      BY <1>8, <1>11, <2>2
    <3>2. Normal(c, k) = 1
      BY <1>2, <1>4, <3>1 DEF Normal, Sign
    <3> QED
      BY <1>3, <2>2, <3>2 DEF AlongNormal
  <2> QED
    BY <1>7, <2>1, <2>2
<1>14. ASSUME ~ (AreIntersecting(c, k) /\ Collided(c, k))
       PROVE  e <= V \/ e < d
  <2>1. CASE ~ (e > 0)
    BY <2>1
  <2>2. CASE e > 0
    <3>1. IF C > R THEN -v > 0 ELSE v > 0
      BY <1>12, <1>13, <1>14, <2>2 DEF Collided
    <3> QED
      BY <1>7, <1>9, <3>1
  <2> QED
    BY <2>1, <2>2
<1> QED
  BY <1>1, <1>5, <1>10, <1>14 DEF Firm

\* The correction at the bounds of the map does not push a group with room into a mine.
LEMMA BoundsAreFirm ==
  ASSUME NEW b \in Body, NEW c \in Body, NEW m \in Mines, Free(b, m), Firm(c, b, m),
         c.active, c.movable, c.radius = b.radius, c.radius <= GameBoundsRadius, ~ IsInBounds(c),
         2 * b.radius + MineSize <= GameBoundsRadius + Distance(GameBoundsRadius, MineCenter(m))
  PROVE  Firm(SetVelocity(Move(c, BoundsCorrection(c)), 0), b, m)
<1>1. PICK R \in Nat, M \in Nat, V \in Nat : R = GameBoundsRadius /\ M = MineSize /\ V = MaxVelocity
  BY PhysicsAssumption
<1>2. PICK C \in Int : C = MineCenter(m)
  BY MineFacts
<1>3. PICK offset \in Int : offset = BoundsCorrection(c)
  BY CorrectionBrings
<1>4. PICK u : u = SetVelocity(Move(c, offset), 0)
  OBVIOUS
<1>5. u \in Body /\ u.radius = c.radius
  BY <1>4, MoveAndSet DEF Moved
<1>6. PICK r \in Nat, x \in Int, y \in Int : r = c.radius /\ x = Center(c) /\ y = Center(u)
  BY <1>5, DepthFacts
<1>7. y = IF x < R THEN r ELSE (R + R) - r
  BY <1>1, <1>3, <1>4, <1>6, CorrectionBrings
<1>8. PICK d \in Int, e \in Int, f \in Int : d = Depth(b, m) /\ e = Depth(c, m) /\ f = Depth(u, m)
  BY <1>5, DepthFacts
<1>9. C # R
  <2>1. d + V < r + M
    BY <1>1, <1>6, <1>8 DEF Free
  <2> QED
    BY <1>1, <1>2, <1>6, <1>8, <2>1, DepthFacts
<1>10. /\ C > R => e = (r + M) - (C - x) /\ f = (r + M) - (C - y)
       /\ C < R => e = (r + M) - (x - C) /\ f = (r + M) - (y - C)
  BY <1>1, <1>2, <1>5, <1>6, <1>8, DepthFacts
<1>11. (x < R => x < r) /\ (x >= R => x > (R + R) - r)
  <2>1. Distance(R, x) + r > R
    <3>1. PICK D \in Int : D = Distance(R, x)
      BY SignFacts
    <3> QED
      BY <1>1, <1>6, <3>1 DEF IsInBounds
  <2> QED
    BY <2>1 DEF Distance
<1>12. 2 * r + M <= R + (IF C > R THEN C - R ELSE R - C)
  BY <1>1, <1>2, <1>6 DEF Distance
<1>13. f <= 0 \/ f < e
  <2>1. CASE C > R
    BY <1>7, <1>10, <1>11, <1>12, <2>1
  <2>2. CASE C < R
    BY <1>7, <1>10, <1>11, <1>12, <2>2
  <2> QED
    BY <1>9, <2>1, <2>2
<1>14. e <= V \/ e < d
  BY <1>1, <1>8 DEF Firm
<1>15. Firm(u, b, m)
  BY <1>1, <1>8, <1>13, <1>14 DEF Firm
<1> QED
  BY <1>3, <1>4, <1>15

\* An update.
LEMMA UpdateIsFirm ==
  ASSUME BotIInv, NEW pressed, Update(pressed), NEW g \in Groups, NEW m \in Mines, AloneBefore(g, m)
  PROVE  Firm(body'[g], body[g], m)
<1> DEFINE updated == UpdateGroups
           order == Partitioned(m_circleRigidBodies, updated)
           stepped == Step(updated, pressed @@ direction)
           collided == ResolveCollisions(stepped, order)
<1>1. BodiesOK
  BY DEF BotIInv, PhysicsTypeOK
<1>2. PICK w \in Worlds : w = updated
  BY <1>1, UpdateGroupsWorld
<1>3. PICK s \in Worlds : s = stepped
  <2>1. Step(w, pressed @@ direction) \in Worlds
    BY <1>1, StepKeeps DEF BodiesOK
  <2> QED
    BY <1>2, <2>1
<1>4. PICK o \in Seq(Bodies) : o = order /\ ToSet(o) = Bodies
  BY <1>1, <1>2, OrderKept
<1>5. PICK c \in [world : Worlds, events : Events] : c = ResolveCollisions(s, o)
  BY ResolveCollisionsKeep
<1>6. body' = ResolveMapBounds(c.world)
  BY <1>3, <1>4, <1>5, Zenon DEF Update
<1>7. PICK b \in Body, x \in Body, y \in Body, u \in Body :
        b = body[g] /\ x = w[g] /\ y = s[g] /\ u = c.world[g]
  BY <1>1, BodyFacts DEF BodiesOK, Worlds
<1>8. /\ \A id \in Bodies : Moved(s[id], c.world[id])
      /\ \A id \in Bodies : Moved(c.world[id], body'[id])
  BY <1>5, <1>6, ResolveCollisionsKeep, ResolveMapBoundsBrings
<1>9. \A h \in Groups : s[h].active <=> h = g
  <2>1. \A h \in Groups : s[h].active = body'[h].active
    BY <1>8, BodyFacts DEF Moved
  <2> QED
    BY <2>1 DEF AloneBefore
<1>10. PICK target \in Int : y = StepBody(x, target)
  <2>1. PICK target \in Int : target = GroupDirection(g, pressed @@ direction)
    BY <1>1, GroupDirectionType DEF BodiesOK
  <2>2. s[g] = StepBody(w[g], target)
    BY <1>2, <1>3, <2>1, BodyFacts DEF Step
  <2> QED
    BY <1>7, <2>2
<1>11. x.position = b.position /\ x.movable /\ x.active /\ x.radius = b.radius
  <2>1. x.position = b.position /\ x.movable
    <3>1. w[g] = IF members[g] = {} THEN [b EXCEPT !.active = FALSE]
                 ELSE [b EXCEPT !.active = TRUE,
                                !.radius = GroupMemberSize * Cardinality(members[g]),
                                !.mass = Cardinality(members[g])]
      BY <1>2, <1>7, BodyFacts DEF UpdateGroups
    <3>2. w[g].movable
      BY <1>1, BodyFacts DEF BodiesOK, Worlds
    <3>3. w[g].position = b.position
      <4> DEFINE n == Cardinality(members[g])
      <4> HIDE DEF n
      <4>1. b.position = b.position /\ b = [position |-> b.position, velocity |-> b.velocity,
              radius |-> b.radius, mass |-> b.mass, active |-> b.active, movable |-> b.movable]
        BY <1>7 DEF Body
      <4> QED
        BY <3>1, <4>1
    <3> QED
      BY <1>7, <3>2, <3>3
  <2>2. Moved(x, y)
    BY <1>10, StepBodyMoves
  <2>3. x.active = body'[g].active /\ x.radius = body'[g].radius
    BY <1>7, <1>8, <2>2, BodyFacts DEF Moved
  <2> QED
    BY <1>7, <2>1, <2>3 DEF AloneBefore
<1>12. y.active /\ y.movable /\ y.radius = b.radius /\ y.position = b.position + y.velocity
  BY <1>10, <1>11, StepGoes DEF Moved
<1>13. Free(b, m)
  BY <1>7 DEF AloneBefore, Free
<1>14. Course(y, b, m) /\ (~ Collide(s, g, m) => Firm(y, b, m))
  <2>1. PICK k \in Body : k = s[m] /\ ~ k.movable /\ k.radius = MineSize /\ k.velocity = 0
                          /\ Center(k) = MineCenter(m)
    BY MineIsFirm
  <2>2. g # m
    BY BodyFacts
  <2> QED
    BY <1>7, <1>12, <1>13, <2>1, <2>2, StepIsFirm DEF Collide
<1>15. Course(u, b, m) /\ Firm(u, b, m)
  BY <1>4, <1>5, <1>7, <1>9, <1>13, <1>14, CollisionsAreFirm
<1>16. u.active /\ u.movable /\ u.radius = b.radius /\ u.radius <= GameBoundsRadius
  <2>1. u.active /\ u.radius = b.radius
    BY <1>15 DEF Course
  <2> QED
    BY <1>7, <2>1, BodyFacts DEF Worlds
<1>17. body'[g] = IF ~ IsInBounds(u) THEN SetVelocity(Move(u, BoundsCorrection(u)), 0) ELSE u
  BY <1>6, <1>7, <1>16, BodyFacts DEF ResolveMapBounds
<1>18. 2 * b.radius + MineSize <= GameBoundsRadius + Distance(GameBoundsRadius, MineCenter(m))
  BY <1>7 DEF AloneBefore
<1> QED
  BY <1>7, <1>13, <1>15, <1>16, <1>17, <1>18, BoundsAreFirm

\* Nothing else that happens between two updates disturbs it.
LEMMA BotStep ==
  ASSUME BotIInv, [BotNext]_physicsVars
  PROVE  BotIInv'
<1>1. CASE SomeUpdate
  BY <1>1, UpdateKeeps DEF SomeUpdate
<1>2. ASSUME NEW p \in Humans, Regroup(p)
      PROVE  BotIInv'
  <2>0. GroupOf(p) \in Groups
    <3>1. \E g \in Groups : p \in members[g]
      BY <1>2 DEF Regroup, InGroup
    <3> QED
      BY <3>1 DEF GroupOf
  <2>1. PICK empty \in Groups :
          /\ members' = [members EXCEPT ![GroupOf(p)] = @ \ {p}, ![empty] = {p}]
          /\ body' = [body EXCEPT ![empty].position = body[GroupOf(p)].position]
    BY <1>2 DEF Regroup
  <2>2. members' \in [Groups -> SUBSET Players]
    BY <2>0, <2>1 DEF Humans, BotIInv, PhysicsTypeOK, BodiesOK
  <2>3. PICK x \in Int : x = body[GroupOf(p)].position
    BY <2>0, BodyFacts DEF BotIInv, PhysicsTypeOK, BodiesOK, Body
  <2>4. /\ body' \in [Bodies -> Body]
        /\ \A id \in Bodies : body'[id].movable = body[id].movable
        /\ \A m \in Mines : body'[m] = body[m]
    <3>1. body \in [Bodies -> Body] /\ empty \in Bodies
      BY BodyFacts DEF BotIInv, PhysicsTypeOK, BodiesOK
    <3>2. [body[empty] EXCEPT !.position = x] \in Body
          /\ [body[empty] EXCEPT !.position = x].movable = body[empty].movable
      BY <3>1 DEF Body
    <3>3. body' = [body EXCEPT ![empty] = [body[empty] EXCEPT !.position = x]]
      BY <2>1, <2>3, <3>1
    <3> QED
      BY <3>1, <3>2, <3>3, BodyFacts
  <2>5. UNCHANGED <<m_tick, m_circleRigidBodies, nextGroupIndex, joinable, direction, units, held>>
    BY <1>2 DEF Regroup
  <2>6. BodiesOK'
    BY <2>2, <2>4, <2>5 DEF BotIInv, PhysicsTypeOK, BodiesOK
  <2> QED
    BY <2>5, <2>6 DEF BotIInv, PhysicsTypeOK, UnitsAccounted
<1>3. ASSUME NEW p \in Bots, BotMove(p)
      PROVE  BotIInv'
  <2>0. PICK willing :
          /\ \E sign \in GroupieMoves(p, willing) : direction' = [direction EXCEPT ![p] = sign]
          /\ joinable' = IF Toggles(p, willing) THEN joinable \cup {p} ELSE joinable
    BY <1>3 DEF BotMove
  <2>1. PICK sign \in GroupieMoves(p, willing) : direction' = [direction EXCEPT ![p] = sign]
    BY <2>0
  <2>2. sign \in Signs
    BY <2>1 DEF GroupieMoves, NearestGreedyMoves, MovesTo, NearestMoves
  <2>3. UNCHANGED <<m_tick, m_circleRigidBodies, body, members, nextGroupIndex, units, held>>
    BY <1>3 DEF BotMove
  <2>4. direction' \in [Bots -> Signs] /\ joinable' \subseteq Bots
    BY <2>0, <2>1, <2>2 DEF BotIInv, PhysicsTypeOK
  <2> QED
    BY <2>3, <2>4 DEF BotIInv, PhysicsTypeOK, BodiesOK, UnitsAccounted
<1>4. CASE UNCHANGED physicsVars
  BY <1>4 DEF physicsVars, BotIInv, PhysicsTypeOK, BodiesOK, UnitsAccounted
<1> QED
  BY <1>1, <1>2, <1>3, <1>4 DEF BotNext

\* Bodies are what the code takes them for, mines stay where they are, velocities keep
\* their limit, no body is lost from the order of visits, and every unit that has left
\* a mine is with a player, however the update's collisions follow one another.
THEOREM BotInvariance == BotSpec => []BotIInv
<1>1. PhysicsInit => BotIInv
  BY BotStart
<1>2. BotIInv /\ [BotNext]_physicsVars => BotIInv'
  BY BotStep
<1> QED
  BY <1>1, <1>2, PTL DEF BotSpec

\* resolveMapBounds, after all collisions, brings every group back on the map.
THEOREM EndsOnMap == BotSpec => InBounds
<1>1. ASSUME BotIInv, [BotNext]_physicsVars
      PROVE  [m_tick' # m_tick => \A g \in Groups : body'[g].active => IsInBounds(body'[g])]_physicsVars
  <2>1. CASE SomeUpdate
    BY <1>1, <2>1, UpdateKeeps DEF SomeUpdate
  <2>2. CASE ~ SomeUpdate
    <3>1. UNCHANGED m_tick
      BY <1>1, <2>2 DEF BotNext, Regroup, BotMove, physicsVars
    <3> QED
      BY <3>1
  <2> QED
    BY <2>1, <2>2
<1> QED
  BY <1>1, BotInvariance, PTL DEF BotSpec, InBounds

\* A lone group never gets deeper into a mine than a step goes, or gets out of it step by
\* step, although the collision code moves it only by half the overlap if it comes second.
THEOREM MinesHold == BotSpec => MinesAreFirm
<1> DEFINE Stays == [\A g \in Groups, m \in Mines :
                       AloneBefore(g, m) => Depth(body'[g], m) <= MaxVelocity
                                              \/ Depth(body'[g], m) < Depth(body[g], m)]_physicsVars
<1>1. ASSUME BotIInv, [BotNext]_physicsVars
      PROVE  Stays
  <2>1. CASE SomeUpdate
    BY <1>1, <2>1, UpdateIsFirm DEF SomeUpdate, Firm
  <2>2. CASE ~ SomeUpdate
    <3>1. UNCHANGED m_tick
      BY <1>1, <2>2 DEF BotNext, Regroup, BotMove, physicsVars
    <3> QED
      BY <3>1 DEF AloneBefore
  <2> QED
    BY <2>1, <2>2
<1> QED
  BY <1>1, BotInvariance, PTL DEF BotSpec, MinesAreFirm

=============================================================================
