--------------------- MODULE GameObjectController_proofs ---------------------
(***************************************************************************)
(* Proofs, for every number of players, mines, resource types and units,   *)
(* of what MCGameObjectController checks for two players and one mine: of  *)
(* the server, of the packet it publishes, and of a client that applies    *)
(* the packet and replays its collisions.                                  *)
(***************************************************************************)
EXTENDS GameObjectController, GroupController_proofs, FoldTheorems

(***************************************************************************)
(* Who can hold resources, and what can be held in all.                    *)
(***************************************************************************)

\* Counts, without their bound.
Held == [Holders -> [ResourceTypes -> Nat]]

\* All that there is of a type.
Stock == MaxMineCount * MineResourceCount

\* The ids of players and mines are different: IdFactory keeps them apart.
LEMMA HolderFacts ==
  /\ Players \cap MineIds = {}
  /\ IsFiniteSet(Holders) /\ Players \subseteq Holders /\ MineIds \subseteq Holders
  /\ IsFiniteSet(MineIds) /\ Cardinality(MineIds) = MaxMineCount
  /\ Stock \in Nat /\ Stock <= UintMax /\ UintMax \in Nat /\ MineResourceCount \in Nat
<1>1. Players \cap MineIds = {}
  BY CountsAssumption, ResourcesAssumption DEF Players, MineIds
<1>2. IsFiniteSet(Players)
  BY CountsAssumption, FS_Interval DEF Players
<1>3. IsFiniteSet(MineIds) /\ Cardinality(MineIds) = MaxMineCount
  <2> DEFINE a == 2 * OffsetValue
  <2>1. a \in Int /\ MaxMineCount \in Nat /\ a + MaxMineCount - 1 \in Int
    BY CountsAssumption, ResourcesAssumption
  <2>2. MineIds = a .. a + MaxMineCount - 1
    BY DEF MineIds
  <2> HIDE DEF a
  <2>3. /\ IsFiniteSet(MineIds)
        /\ Cardinality(MineIds) = IF a > a + MaxMineCount - 1 THEN 0
                                  ELSE (a + MaxMineCount - 1) - a + 1
    BY <2>1, <2>2, FS_Interval
  <2> QED
    BY <2>1, <2>3
<1>4. IsFiniteSet(Holders) /\ Players \subseteq Holders /\ MineIds \subseteq Holders
  BY <1>2, <1>3, FS_Union DEF Holders
<1>5. Stock \in Nat /\ Stock <= UintMax /\ UintMax \in Nat /\ MineResourceCount \in Nat
  BY ResourcesAssumption DEF Stock
<1> QED
  BY <1>1, <1>3, <1>4, <1>5

\* Every mine has a type.
LEMMA MineHasType ==
  ASSUME NEW m \in MineIds
  PROVE  MineType(m) \in ResourceTypes
<1> DEFINE i == m - 2 * OffsetValue
<1>1. i \in Nat
  BY CountsAssumption, ResourcesAssumption DEF MineIds
<1>2. ResourceTypeCount \in Nat \ {0}
  BY ResourcesAssumption
<1> HIDE DEF i
<1>3. i % ResourceTypeCount \in 0 .. ResourceTypeCount - 1
  BY <1>1, <1>2
<1>4. (i % ResourceTypeCount) + 1 \in 1 .. ResourceTypeCount
  BY <1>2, <1>3
<1> QED
  BY <1>4 DEF MineType, ResourceTypes, i

\* Total adds up what all holders have.
LEMMA TotalIs ==
  ASSUME NEW c \in Held, NEW t \in ResourceTypes
  PROVE  \E sum : /\ SumOf(sum, Holders, [h \in Holders |-> c[h][t]])
                  /\ Total(c, t) = sum[Holders]
<1> DEFINE f == [h \in Holders |-> c[h][t]]
           F(it) == [s \in SUBSET Holders |->
                       IF s = {} THEN 0
                       ELSE c[CHOOSE x \in s : TRUE][t] + it[s \ {CHOOSE x \in s : TRUE}]]
           fold == CHOOSE it : it = F(it)
<1>1. Total(c, t) = fold[Holders]
  BY Zenon DEF Total, MapThenSumSet, MapThenFoldSet
<1>2. f \in [Holders -> Nat] /\ IsFiniteSet(Holders)
  BY HolderFacts DEF Held
<1>3. PICK it \in [SUBSET Holders -> Nat] : SumRecursion(it, Holders, f)
  <2> HIDE DEF f
  <2> QED
    BY <1>2, SumExists
<1>4. \A s \in SUBSET Holders : s # {} => f[CHOOSE x \in s : TRUE] = c[CHOOSE x \in s : TRUE][t]
  <2> SUFFICES ASSUME NEW s \in SUBSET Holders, s # {}
               PROVE  f[CHOOSE x \in s : TRUE] = c[CHOOSE x \in s : TRUE][t]
    OBVIOUS
  <2>1. (CHOOSE x \in s : TRUE) \in Holders
    OBVIOUS
  <2> QED
    BY <2>1
<1> HIDE DEF f
<1>5. it = F(it)
  BY <1>3, <1>4 DEF SumRecursion
<1>6. fold = F(fold)
  BY <1>5
<1> HIDE DEF fold
<1>7. SumRecursion(fold, Holders, f) /\ DOMAIN fold = SUBSET Holders
      /\ fold = [s \in SUBSET Holders |-> fold[s]]
  <2>1. fold = [s \in SUBSET Holders |-> fold[s]]
    BY <1>6
  <2>2. ASSUME NEW s \in SUBSET Holders
        PROVE  fold[s] = IF s = {} THEN 0
                         ELSE f[CHOOSE x \in s : TRUE] + fold[s \ {CHOOSE x \in s : TRUE}]
    BY <1>4, <1>6
  <2> QED
    BY <2>1, <2>2 DEF SumRecursion
<1>8. SumOf(fold, Holders, f)
  BY <1>2, <1>7, SumUnique
<1> QED
  BY <1>1, <1>8 DEF f

\* Nobody has more than there is, nor two holders together.
LEMMA TotalBounds ==
  ASSUME NEW c \in Held, NEW t \in ResourceTypes, NEW h \in Holders
  PROVE  /\ Total(c, t) \in Nat
         /\ c[h][t] <= Total(c, t)
         /\ \A k \in Holders : k # h => c[h][t] + c[k][t] <= Total(c, t)
<1> DEFINE f == [x \in Holders |-> c[x][t]]
<1>1. f \in [Holders -> Nat] /\ \A x \in Holders : f[x] = c[x][t]
  BY DEF Held
<1>2. PICK sum : SumOf(sum, Holders, f) /\ Total(c, t) = sum[Holders]
  BY TotalIs
<1> HIDE DEF f
<1>3. /\ f[h] <= sum[Holders] /\ sum[Holders] \in Nat
      /\ \A k \in Holders : k # h => f[h] + f[k] <= sum[Holders]
  BY <1>1, <1>2, SumBounds
<1> QED
  BY <1>1, <1>2, <1>3

\* If all there is of a type is what the level was loaded with, the counts are bounded.
LEMMA HeldBounds ==
  ASSUME NEW c \in Held, NEW t \in ResourceTypes, Total(c, t) <= Stock, NEW h \in Holders
  PROVE  /\ c[h][t] \in 0 .. Stock
         /\ \A k \in Holders : k # h => c[h][t] + c[k][t] <= UintMax
<1>1. Stock \in Nat /\ Stock <= UintMax /\ UintMax \in Nat
  BY HolderFacts
<1>2. PICK x \in Nat : x = c[h][t]
  BY DEF Held
<1>3. Total(c, t) \in Nat /\ x <= Total(c, t) /\ \A k \in Holders : k # h => x + c[k][t] <= Total(c, t)
  BY <1>2, TotalBounds
<1>4. PICK n \in Nat : n = Total(c, t)
  BY <1>3
<1>5. x \in 0 .. Stock
  BY <1>1, <1>3, <1>4
<1>6. ASSUME NEW k \in Holders, k # h
      PROVE  x + c[k][t] <= UintMax
  <2>1. PICK y \in Nat : y = c[k][t]
    BY DEF Held
  <2>2. x + y <= n
    BY <1>3, <1>4, <1>6, <2>1
  <2> QED
    BY <1>1, <1>4, <2>1, <2>2
<1> QED
  BY <1>2, <1>5, <1>6

\* The level is loaded with no more than the stock of each type.
LEMMA LoadedFacts ==
  /\ LoadedCounts \in Held
  /\ \A t \in ResourceTypes : Total(LoadedCounts, t) \in Nat /\ Total(LoadedCounts, t) <= Stock
<1>1. LoadedCounts \in Held
  BY HolderFacts DEF LoadedCounts, Held
<1>2. ASSUME NEW t \in ResourceTypes
      PROVE  Total(LoadedCounts, t) \in Nat /\ Total(LoadedCounts, t) <= Stock
  <2> DEFINE f == [h \in Holders |-> LoadedCounts[h][t]]
  <2>1. f \in [Holders -> Nat]
    BY <1>1 DEF Held
  <2>2. \A h \in Holders : f[h] <= IF h \in MineIds THEN MineResourceCount ELSE 0
    BY HolderFacts DEF LoadedCounts
  <2>3. PICK sum : SumOf(sum, Holders, f) /\ Total(LoadedCounts, t) = sum[Holders]
    BY <1>1, TotalIs
  <2> HIDE DEF f
  <2>4. sum[Holders] <= MineResourceCount * Cardinality(MineIds)
    BY <2>1, <2>2, <2>3, HolderFacts, SumAtMost
  <2>5. MineResourceCount * Cardinality(MineIds) = Stock
    BY HolderFacts, ResourcesAssumption DEF Stock
  <2>6. sum[Holders] \in Nat
    BY <2>3 DEF SumOf
  <2> QED
    BY <2>3, <2>4, <2>5, <2>6
<1> QED
  BY <1>1, <1>2

(***************************************************************************)
(* One unit moves, or, when the mine is empty, none.                       *)
(***************************************************************************)

\* d is c after one unit of t went from m to p.
UnitMoved(c, d, m, p, t) ==
  /\ d[m][t] = c[m][t] - 1
  /\ d[p][t] = c[p][t] + 1
  /\ \A h \in Holders, u \in ResourceTypes :
       ~ (u = t /\ h \in {m, p}) => d[h][u] = c[h][u]

LEMMA MoveUnit ==
  ASSUME NEW c \in Held, NEW t \in ResourceTypes, Total(c, t) <= Stock,
         NEW m \in MineIds, NEW p \in Players
  PROVE  /\ Move(c, m, p, t, 1) \in Held
         /\ c[m][t] = 0 => Move(c, m, p, t, 1) = c
         /\ c[m][t] > 0 => UnitMoved(c, Move(c, m, p, t, 1), m, p, t)
<1>1. m \in Holders /\ p \in Holders /\ m # p
  BY HolderFacts
<1>2. PICK x \in Nat : x = c[m][t]
  BY <1>1 DEF Held
<1>3. PICK y \in Nat : y = c[p][t]
  BY <1>1 DEF Held
<1>4. y + x <= UintMax /\ UintMax \in Nat
  BY <1>1, <1>2, <1>3, HeldBounds, HolderFacts
<1> DEFINE moved == IF x < 1 THEN x ELSE 1
           mid == [c EXCEPT ![m][t] = @ - moved]
<1>5. moved \in {0, 1} /\ moved <= x /\ x - moved \in Nat
  BY <1>2
<1>6. mid \in Held /\ mid[p][t] = y
  BY <1>1, <1>2, <1>3, <1>5 DEF Held
<1>7. ~ (y > UintMax - moved)
  BY <1>3, <1>4, <1>5
<1>8. Move(c, m, p, t, 1) = [mid EXCEPT ![p][t] = y + moved]
  <2>1. Move(c, m, p, t, 1) = Add(mid, p, t, moved)
    BY <1>2 DEF Move
  <2>2. Add(mid, p, t, moved) = [mid EXCEPT ![p][t] = IF y > UintMax - moved THEN UintMax ELSE y + moved]
    <3> HIDE DEF mid, moved
    <3> QED
      BY <1>1, <1>6 DEF Add, Held
  <2> QED
    BY <1>7, <2>1, <2>2
<1>9. CASE x = 0
  <2>1. moved = 0 /\ x - moved = x /\ y + moved = y
    BY <1>9, <1>3
  <2>2. mid = c
    BY <1>1, <1>2, <2>1 DEF Held
  <2>3. [mid EXCEPT ![p][t] = y + moved] = c
    BY <1>1, <1>3, <2>1, <2>2 DEF Held
  <2> QED
    BY <1>2, <1>8, <1>9, <2>3
<1>10. CASE x > 0
  <2>1. moved = 1
    BY <1>2, <1>10
  <2> DEFINE d == [mid EXCEPT ![p][t] = y + moved]
  <2>2. d \in Held
    <3>1. y + moved \in Nat
      BY <1>3, <2>1
    <3> HIDE DEF mid, moved
    <3> QED
      BY <1>1, <1>6, <3>1 DEF Held
  <2>3. d[m][t] = x - 1
    BY <1>1, <1>2, <2>1 DEF Held
  <2>4. d[p][t] = y + 1
    BY <1>1, <1>6, <2>1 DEF Held
  <2>5. \A h \in Holders, u \in ResourceTypes : ~ (u = t /\ h \in {m, p}) => d[h][u] = c[h][u]
    BY <1>1 DEF Held
  <2> HIDE DEF d
  <2>6. UnitMoved(c, d, m, p, t)
    BY <1>2, <1>3, <2>3, <2>4, <2>5 DEF UnitMoved
  <2>7. Move(c, m, p, t, 1) = d
    BY <1>8 DEF d
  <2> QED
    BY <1>2, <1>10, <2>2, <2>6, <2>7
<1> QED
  BY <1>2, <1>9, <1>10

\* What one holder loses the other gains.
LEMMA MoveConserves ==
  ASSUME NEW c \in Held, NEW d \in Held, NEW t \in ResourceTypes,
         NEW m \in MineIds, NEW p \in Players, UnitMoved(c, d, m, p, t),
         NEW u \in ResourceTypes
  PROVE  Total(d, u) = Total(c, u)
<1>1. m \in Holders /\ p \in Holders /\ m # p /\ IsFiniteSet(Holders)
  BY HolderFacts
<1> DEFINE f == [h \in Holders |-> c[h][u]]
           g == [h \in Holders |-> d[h][u]]
<1>2. f \in [Holders -> Nat] /\ g \in [Holders -> Nat]
  BY DEF Held
<1>3. f[m] + f[p] = g[m] + g[p]
  <2>1. PICK x \in Nat : x = c[m][u]
    BY <1>1 DEF Held
  <2>2. PICK y \in Nat : y = c[p][u]
    BY <1>1 DEF Held
  <2>3. CASE u = t
    <3>1. g[m] = x - 1 /\ g[p] = y + 1 /\ f[m] = x /\ f[p] = y
      BY <1>1, <2>1, <2>2, <2>3 DEF UnitMoved
    <3>2. x + y = (x - 1) + (y + 1)
      BY <2>1, <2>2
    <3> QED
      BY <3>1, <3>2
  <2>4. CASE u # t
    BY <1>1, <2>4 DEF UnitMoved
  <2> QED
    BY <2>3, <2>4
<1>4. \A h \in Holders : h # m /\ h # p => f[h] = g[h]
  BY DEF UnitMoved
<1>5. PICK sumf : SumOf(sumf, Holders, f) /\ Total(c, u) = sumf[Holders]
  BY TotalIs
<1>6. PICK sumg : SumOf(sumg, Holders, g) /\ Total(d, u) = sumg[Holders]
  BY TotalIs
<1> HIDE DEF f, g
<1> QED
  BY <1>1, <1>2, <1>3, <1>4, <1>5, <1>6, SumShift

(***************************************************************************)
(* A group's turn at a mine: a unit for each member while there are any.   *)
(***************************************************************************)

\* After k of the members had their turn, starting with the counts c.
TurnsTaken(c, d, m, members, k) ==
  /\ d \in Held
  /\ \A u \in ResourceTypes : Total(d, u) = Total(c, u)
  /\ d[m][MineType(m)] = IF c[m][MineType(m)] > k THEN c[m][MineType(m)] - k ELSE 0
  /\ \A h \in Holders, u \in ResourceTypes :
       ~ (h = m /\ u = MineType(m)) =>
         d[h][u] = IF /\ u = MineType(m)
                      /\ \E i \in 1 .. k : members[i] = h /\ i <= c[m][MineType(m)]
                   THEN c[h][u] + 1 ELSE c[h][u]

\* One more turn.
LEMMA NextTurn ==
  ASSUME NEW c \in Held, \A u \in ResourceTypes : Total(c, u) <= Stock,
         NEW m \in MineIds, NEW n \in Nat, NEW members \in [1 .. n -> Players],
         \A i, j \in 1 .. n : i # j => members[i] # members[j],
         NEW k \in 1 .. n, NEW d, TurnsTaken(c, d, m, members, k - 1)
  PROVE  TurnsTaken(c, Move(d, m, members[k], MineType(m), 1), m, members, k)
<1> DEFINE t == MineType(m)
           p == members[k]
           e == Move(d, m, p, t, 1)
<1>1. t \in ResourceTypes /\ p \in Players /\ p \in Holders /\ m \in Holders /\ p # m
  BY MineHasType, HolderFacts
<1>2. d \in Held /\ Total(d, t) <= Stock
  BY <1>1 DEF TurnsTaken
<1>3. PICK x \in Nat : x = c[m][t]
  BY <1>1 DEF Held
<1>4. d[m][t] = IF x > k - 1 THEN x - (k - 1) ELSE 0
  BY <1>3 DEF TurnsTaken
<1>5. /\ e \in Held
      /\ d[m][t] = 0 => e = d
      /\ d[m][t] > 0 => UnitMoved(d, e, m, p, t)
  BY <1>1, <1>2, MoveUnit
<1>6. \A h \in Holders, u \in ResourceTypes : ~ (h = m /\ u = t) =>
        d[h][u] = IF u = t /\ (\E i \in 1 .. k - 1 : members[i] = h /\ i <= x)
                  THEN c[h][u] + 1 ELSE c[h][u]
  BY <1>3 DEF TurnsTaken
<1>7. ~ \E i \in 1 .. k - 1 : members[i] = p
  OBVIOUS
<1>8. \A h \in Holders : (\E i \in 1 .. k : members[i] = h /\ i <= x)
                         <=> (\E i \in 1 .. k - 1 : members[i] = h /\ i <= x) \/ (h = p /\ k <= x)
  <2>1. 1 .. k = (1 .. k - 1) \cup {k}
    OBVIOUS
  <2> QED
    BY <2>1
<1> HIDE DEF t, e, p
<1>9. CASE x > k - 1
  <2>1. UnitMoved(d, e, m, p, t) /\ d[m][t] = x - (k - 1) /\ k <= x
    BY <1>3, <1>4, <1>5, <1>9
  <2>2. e[m][t] = IF x > k THEN x - k ELSE 0
    BY <1>3, <1>9, <2>1 DEF UnitMoved
  <2>3. \A u \in ResourceTypes : Total(e, u) = Total(c, u)
    <3> TAKE u \in ResourceTypes
    <3>1. Total(e, u) = Total(d, u)
      BY <1>1, <1>2, <1>5, <2>1, MoveConserves
    <3> QED
      BY <3>1 DEF TurnsTaken
  <2>4. ASSUME NEW h \in Holders, NEW u \in ResourceTypes, ~ (h = m /\ u = t)
        PROVE  e[h][u] = IF u = t /\ (\E i \in 1 .. k : members[i] = h /\ i <= x)
                         THEN c[h][u] + 1 ELSE c[h][u]
    <3>1. CASE u = t /\ h = p
      <4>1. e[h][u] = d[h][u] + 1
        BY <2>1, <3>1 DEF UnitMoved
      <4>2. d[h][u] = c[h][u]
        BY <1>6, <1>7, <2>4, <3>1
      <4> QED
        BY <1>8, <2>1, <3>1, <4>1, <4>2
    <3>2. CASE u = t /\ h # p
      <4>1. e[h][u] = d[h][u]
        BY <2>1, <2>4, <3>2 DEF UnitMoved
      <4> QED
        BY <1>6, <1>8, <2>4, <3>2, <4>1
    <3>3. CASE u # t
      <4>1. e[h][u] = d[h][u]
        BY <2>1, <3>3 DEF UnitMoved
      <4> QED
        BY <1>6, <2>4, <3>3, <4>1
    <3> QED
      BY <3>1, <3>2, <3>3
  <2> QED
    BY <1>3, <1>5, <2>2, <2>3, <2>4 DEF TurnsTaken, t, e, p
<1>10. CASE ~ (x > k - 1)
  <2>1. e = d /\ ~ (k <= x) /\ d[m][t] = 0 /\ ~ (x > k)
    BY <1>3, <1>4, <1>5, <1>10
  <2>2. \A h \in Holders, u \in ResourceTypes : ~ (h = m /\ u = t) =>
          e[h][u] = IF u = t /\ (\E i \in 1 .. k : members[i] = h /\ i <= x)
                    THEN c[h][u] + 1 ELSE c[h][u]
    BY <1>6, <1>8, <2>1
  <2>3. \A u \in ResourceTypes : Total(e, u) = Total(c, u)
    BY <2>1 DEF TurnsTaken
  <2>4. e[m][t] = IF x > k THEN x - k ELSE 0
    BY <2>1
  <2> QED
    BY <1>3, <1>5, <2>2, <2>3, <2>4 DEF TurnsTaken, t, e, p
<1> QED
  BY <1>3, <1>9, <1>10

\* Counts that can be all there is.
Stocked == {c \in Held : \A u \in ResourceTypes : Total(c, u) <= Stock}

LEMMA MoveStocked ==
  ASSUME NEW c \in Stocked, NEW t \in ResourceTypes, NEW m \in MineIds, NEW p \in Players
  PROVE  Move(c, m, p, t, 1) \in Stocked
<1> DEFINE d == Move(c, m, p, t, 1)
<1>1. c \in Held /\ \A u \in ResourceTypes : Total(c, u) <= Stock
  BY DEF Stocked
<1>2. d \in Held /\ (c[m][t] = 0 => d = c) /\ (c[m][t] > 0 => UnitMoved(c, d, m, p, t))
  BY <1>1, MoveUnit
<1> HIDE DEF d
<1>3. c[m][t] = 0 \/ c[m][t] > 0
  <2>1. c[m][t] \in Nat
    BY <1>1, HolderFacts DEF Held
  <2> QED
    BY <2>1
<1>4. CASE c[m][t] = 0
  BY <1>2, <1>4 DEF d
<1>5. CASE c[m][t] > 0
  <2>1. \A u \in ResourceTypes : Total(d, u) = Total(c, u)
    BY <1>1, <1>2, <1>5, MoveConserves
  <2> QED
    BY <1>1, <1>2, <2>1 DEF Stocked, d
<1> QED
  BY <1>3, <1>4, <1>5

\* All turns, in the order of the vector.
LEMMA TransferTurns ==
  ASSUME NEW c \in Stocked, NEW m \in MineIds, NEW n \in Nat, NEW members \in [1 .. n -> Players],
         \A i, j \in 1 .. n : i # j => members[i] # members[j]
  PROVE  TurnsTaken(c, Transfer(c, m, members), m, members, n)
<1> DEFINE F(it) == [s \in SUBSET DOMAIN members |->
                       IF s = {} THEN c
                       ELSE Move(it[s \ {Max(s)}], m, members[Max(s)], MineType(m), 1)]
           fold == CHOOSE it : it = F(it)
           step == [z \in Stocked \X (1 .. n) |->
                      Move(z[1], m, members[z[2]], MineType(m), 1)]
<1>1. Transfer(c, m, members) = fold[DOMAIN members]
  BY Zenon DEF Transfer, FoldLeft, MapThenFoldSet
<1>2. DOMAIN members = 1 .. n
  OBVIOUS
<1>3. step \in [Stocked \X (1 .. n) -> Stocked]
  <2>1. ASSUME NEW d \in Stocked, NEW k \in 1 .. n
        PROVE  Move(d, m, members[k], MineType(m), 1) \in Stocked
    BY MineHasType, MoveStocked
  <2> QED
    BY <2>1
<1>4. PICK it \in [SUBSET (1 .. n) -> Stocked] : SeqRecursion(it, n, c, step)
  <2> HIDE DEF step
  <2> QED
    BY <1>3, FoldExists
<1>5. it = F(it)
  <2>1. ASSUME NEW s \in SUBSET (1 .. n), s # {}
        PROVE  /\ Max(s) \in 1 .. n /\ it[s \ {Max(s)}] \in Stocked
               /\ it[s] = Move(it[s \ {Max(s)}], m, members[Max(s)], MineType(m), 1)
    <3>1. Max(s) \in 1 .. n /\ it[s \ {Max(s)}] \in Stocked
      BY <1>4, <2>1, MaxIsLargest
    <3>2. it[s] = step[<<it[s \ {Max(s)}], Max(s)>>]
      BY <1>4, <2>1 DEF SeqRecursion
    <3> QED
      BY <3>1, <3>2
  <2>2. it[{}] = c
    BY <1>4 DEF SeqRecursion
  <2> QED
    BY <1>2, <2>1, <2>2
<1>6. fold = F(fold)
  BY <1>5
<1>7. SeqStep(fold, n, Stocked, c, step)
  <2> HIDE DEF fold
  <2>1. fold[{}] = c
    BY <1>2, <1>6
  <2>2. ASSUME NEW s \in SUBSET (1 .. n), s # {}, fold[s \ {Max(s)}] \in Stocked
        PROVE  fold[s] = step[<<fold[s \ {Max(s)}], Max(s)>>]
    <3>1. Max(s) \in 1 .. n
      BY <2>2, MaxIsLargest
    <3> QED
      BY <1>2, <1>6, <2>2, <3>1
  <2> QED
    BY <2>1, <2>2 DEF SeqStep
<1>8. PICK v \in [0 .. n -> Stocked] : Values(v, fold, n, c, step)
  <2> HIDE DEF step, fold
  <2> QED
    BY <1>3, <1>7, FoldValues
<1> DEFINE N == {k \in Nat : k <= n => TurnsTaken(c, v[k], m, members, k)}
<1>9. c \in Held /\ \A u \in ResourceTypes : Total(c, u) <= Stock
  BY DEF Stocked
<1>10. 0 \in N
  <2>1. v[0] = c
    BY <1>8 DEF Values
  <2>2. c[m][MineType(m)] \in Nat
    BY <1>9, HolderFacts, MineHasType DEF Held
  <2>3. 1 .. 0 = {}
    OBVIOUS
  <2>4. TurnsTaken(c, c, m, members, 0)
    BY <1>9, <2>2, <2>3 DEF TurnsTaken
  <2> QED
    BY <2>1, <2>4
<1>11. ASSUME NEW j \in Nat, j \in N
       PROVE  j + 1 \in N
  <2> SUFFICES ASSUME j + 1 <= n
               PROVE  TurnsTaken(c, v[j + 1], m, members, j + 1)
    OBVIOUS
  <2>1. PICK k \in 1 .. n : k = j + 1
    OBVIOUS
  <2>2. k - 1 = j /\ j <= n /\ k - 1 \in 0 .. n
    BY <2>1
  <2>3. TurnsTaken(c, v[k - 1], m, members, k - 1)
    BY <1>11, <2>2
  <2>4. v[k] = step[<<v[k - 1], k>>] /\ v[k - 1] \in Stocked
    BY <1>8, <2>2 DEF Values
  <2>5. v[k] = Move(v[k - 1], m, members[k], MineType(m), 1)
    BY <2>4
  <2>6. TurnsTaken(c, v[k], m, members, k)
    BY <1>9, <2>3, <2>5, NextTurn
  <2> QED
    BY <2>1, <2>6
<1> HIDE DEF N
<1>12. Nat \subseteq N
  BY <1>10, <1>11, NatSetInduction
<1>13. TurnsTaken(c, v[n], m, members, n)
  BY <1>12 DEF N
<1> HIDE DEF fold
<1> QED
  BY <1>1, <1>2, <1>8, <1>13 DEF Values

\* SetToSeqs are the vectors without duplicates that have just these elements.
LEMMA SeqsOf ==
  ASSUME NEW S, IsFiniteSet(S), NEW members \in SetToSeqs(S)
  PROVE  \E n \in Nat : /\ members \in [1 .. n -> S]
                        /\ \A i, j \in 1 .. n : i # j => members[i] # members[j]
                        /\ \A x \in S : \E i \in 1 .. n : members[i] = x
<1> DEFINE n == Cardinality(S)
<1>1. n \in Nat
  BY FS_CardinalityType
<1>2. members \in [1 .. n -> S] /\ \A i, j \in 1 .. n : i # j => members[i] # members[j]
  BY DEF SetToSeqs
<1> HIDE DEF n
<1>3. members \in Injection(1 .. n, S)
  BY <1>2 DEF Injection, IsInjective
<1>4. IsFiniteSet(1 .. n) /\ Cardinality(1 .. n) = n
  BY <1>1, FS_Interval
<1>5. members \in Surjection(1 .. n, S)
  BY <1>3, <1>4, FS_Injection DEF n
<1>6. \A x \in S : \E i \in 1 .. n : members[i] = x
  BY <1>5 DEF Surjection
<1> QED
  BY <1>1, <1>2, <1>6

(***************************************************************************)
(* The counts in the state.                                                *)
(***************************************************************************)
LEMMA CountsFacts ==
  ASSUME ObjectIInv
  PROVE  m_resourceCounts \in Stocked /\ m_resourceCounts \in Held
<1>1. m_resourceCounts \in Held
  <2>1. 0 .. MaxMineCount * MineResourceCount \subseteq Nat
    OBVIOUS
  <2> QED
    BY <2>1 DEF ObjectIInv, ServerStateOK, Counts, Held
<1>2. ASSUME NEW u \in ResourceTypes
      PROVE  Total(m_resourceCounts, u) <= Stock
  BY LoadedFacts DEF ObjectIInv, ResourcesConserved
<1> QED
  BY <1>1, <1>2 DEF Stocked

\* Counts that are all there is have the type the state's have.
LEMMA StockedType == Stocked \subseteq Counts
<1> SUFFICES ASSUME NEW c \in Stocked
             PROVE  c \in Counts
  OBVIOUS
<1>1. \A h \in Holders, t \in ResourceTypes : c[h][t] \in 0 .. Stock
  BY HeldBounds DEF Stocked
<1>2. c \in [Holders -> [ResourceTypes -> 0 .. Stock]]
  BY <1>1 DEF Stocked, Held
<1> QED
  BY <1>2 DEF Counts, Stock

\* Who is served in a collision with a mine.
LEMMA CollisionServes ==
  ASSUME ObjectIInv, NEW g \in Active, NEW m \in MineIds, CollideWithMine(g, m)
  PROVE  \E n \in Nat : \E members \in [1 .. n -> Players] :
           /\ \A p \in Players : p \in m_groupToPlayers[g] <=> \E i \in 1 .. n : members[i] = p
           /\ TurnsTaken(m_resourceCounts, m_resourceCounts', m, members, n)
<1>1. m_groupToPlayers[g] \subseteq Players /\ IsFiniteSet(m_groupToPlayers[g])
  <2>1. g \in Keys
    BY IdFacts DEF Active
  <2>2. m_groupToPlayers[g] \subseteq Players
    BY <2>1 DEF ObjectIInv, IInv, TypeOK
  <2>3. IsFiniteSet(Players)
    BY CountsAssumption, FS_Interval DEF Players
  <2> QED
    BY <2>2, <2>3, FS_Subset
<1>2. PICK members \in SetToSeqs(m_groupToPlayers[g]) :
        m_resourceCounts' = Transfer(m_resourceCounts, m, members)
  BY DEF CollideWithMine
<1>3. PICK n \in Nat : /\ members \in [1 .. n -> m_groupToPlayers[g]]
                       /\ \A i, j \in 1 .. n : i # j => members[i] # members[j]
                       /\ \A x \in m_groupToPlayers[g] : \E i \in 1 .. n : members[i] = x
  BY <1>1, SeqsOf
<1>4. members \in [1 .. n -> Players]
  BY <1>1, <1>3
<1>5. TurnsTaken(m_resourceCounts, m_resourceCounts', m, members, n)
  <2>1. PICK c \in Stocked : c = m_resourceCounts
    BY CountsFacts
  <2>2. TurnsTaken(c, Transfer(c, m, members), m, members, n)
    BY <1>3, <1>4, TransferTurns
  <2> QED
    BY <1>2, <2>1, <2>2
<1> QED
  BY <1>3, <1>4, <1>5

(***************************************************************************)
(* Every action keeps the invariant.                                       *)
(***************************************************************************)
LEMMA ObjectInitInv == ObjectInit => ObjectIInv
<1> SUFFICES ASSUME ObjectInit PROVE ObjectIInv
  OBVIOUS
<1>1. IInv
  BY InitInv DEF ObjectInit
<1>2. m_resourceCounts = LoadedCounts
  BY DEF ObjectInit
<1>3. LoadedCounts \in Counts
  BY LoadedFacts, StockedType DEF Stocked
<1>4. goals \in [Players -> {Goal(t) : t \in ResourceTypes}]
  BY DEF ObjectInit
<1>5. phase = "idle" /\ updates = 0 /\ status = "playing" /\ winner \in Players
  BY IdFacts DEF ObjectInit, DefaultId
<1>6. ServerStateOK
  BY <1>2, <1>3, <1>4, <1>5, ResourcesAssumption DEF ServerStateOK
<1>7. EndsWhenWon
  <2>1. \A p \in Players : ~ playerActive[p]
    BY DEF ObjectInit, Init
  <2> QED
    BY <1>5, <2>1 DEF EndsWhenWon
<1> QED
  BY <1>1, <1>2, <1>5, <1>6, <1>7 DEF ObjectIInv, ResourcesConserved, OverIsOver

\* While a step's events are handled the game is not over, and nothing is said of
\* who has reached its goal.
LEMMA EventsInv ==
  ASSUME ObjectIInv, IInv', phase' = "events", status' = "playing", winner' = winner,
         goals' = goals, updates' \in 0 .. UpdatesPerStep, m_resourceCounts' \in Stocked,
         \A u \in ResourceTypes : Total(m_resourceCounts', u) = Total(m_resourceCounts, u)
  PROVE  ObjectIInv'
<1>1. m_resourceCounts' \in Counts
  BY StockedType
<1>2. ServerStateOK'
  BY <1>1 DEF ObjectIInv, ServerStateOK
<1>3. ResourcesConserved'
  BY DEF ObjectIInv, ResourcesConserved
<1>4. EndsWhenWon' /\ OverIsOver'
  BY DEF EndsWhenWon, OverIsOver
<1> QED
  BY <1>2, <1>3, <1>4 DEF ObjectIInv

LEMMA CollideWithMineInv ==
  ASSUME ObjectIInv, NEW g \in Active, NEW m \in MineIds, CollideWithMine(g, m)
  PROVE  ObjectIInv'
<1>1. PICK n \in Nat : \E members \in [1 .. n -> Players] :
        TurnsTaken(m_resourceCounts, m_resourceCounts', m, members, n)
  BY CollisionServes
<1>2. /\ m_resourceCounts' \in Held
      /\ \A u \in ResourceTypes : Total(m_resourceCounts', u) = Total(m_resourceCounts, u)
  BY <1>1 DEF TurnsTaken
<1>3. m_resourceCounts' \in Stocked
  BY <1>2, CountsFacts DEF Stocked
<1>4. UNCHANGED vars /\ phase = "events" /\ UNCHANGED <<goals, phase, updates, status, winner>>
  BY DEF CollideWithMine, CanCollide
<1>5. IInv'
  BY <1>4, StutterInv DEF ObjectIInv
<1>6. status = "playing"
  BY <1>4 DEF ObjectIInv, OverIsOver, ServerStateOK
<1>7. updates' \in 0 .. UpdatesPerStep
  BY <1>4 DEF ObjectIInv, ServerStateOK
<1> QED
  BY <1>2, <1>3, <1>4, <1>5, <1>6, <1>7, EventsInv

\* The other actions between the updates and the publication leave the counts alone.
LEMMA CountsKept ==
  ASSUME ObjectIInv, IInv', phase' = "events", status = "playing", updates' \in 0 .. UpdatesPerStep,
         UNCHANGED <<m_resourceCounts, goals, status, winner>>
  PROVE  ObjectIInv'
BY CountsFacts, EventsInv

\* A player that has not reached its goal lacks something.
LEMMA Lacks ==
  ASSUME ObjectIInv, NEW p \in Players, ~ SatisfiesCondition(goals[p], m_resourceCounts[p])
  PROVE  \E t \in ResourceTypes : m_resourceCounts[p][t] < goals[p][t]
<1>1. PICK t \in ResourceTypes : ~ (m_resourceCounts[p][t] >= goals[p][t])
  BY DEF SatisfiesCondition
<1>2. m_resourceCounts[p][t] \in Int
  BY CountsFacts, HolderFacts DEF Held
<1>3. goals[p][t] \in Int
  <2>1. PICK primary \in ResourceTypes : goals[p] = Goal(primary)
    BY DEF ObjectIInv, ServerStateOK
  <2>2. Goal(primary)[t] \in Int
    <3>1. ResourceTypeCount \in Nat /\ ResourceTypeCount > 1 /\ TotalRequirements \in Nat
      BY ResourcesAssumption
    <3>2. (TotalRequirements \div ResourceTypeCount) * 2 \in Int
      BY <3>1
    <3> DEFINE main == (TotalRequirements \div ResourceTypeCount) * 2
    <3> HIDE DEF main
    <3>3. (TotalRequirements - main) \div (ResourceTypeCount - 1) \in Int
      BY <3>1, <3>2 DEF main
    <3> QED
      BY <3>2, <3>3 DEF Goal, main
  <2> QED
    BY <2>1, <2>2
<1> QED
  BY <1>1, <1>2, <1>3

LEMMA PostUpdateInv ==
  ASSUME ObjectIInv, PostUpdate
  PROVE  ObjectIInv'
<1>1. /\ phase = "events" /\ failure = "none" /\ phase' = "show" /\ updates' = 0
      /\ UNCHANGED <<vars, m_resourceCounts, goals>>
  BY DEF PostUpdate
<1>2. IInv' /\ UNCHANGED playerActive
  BY <1>1, StutterInv DEF ObjectIInv, vars
<1>3. status = "playing"
  BY <1>1 DEF ObjectIInv, OverIsOver, ServerStateOK
<1>4. ResourcesConserved' /\ OverIsOver'
  BY <1>1 DEF ObjectIInv, ResourcesConserved, OverIsOver
<1>5. 0 \in 0 .. UpdatesPerStep
  BY ResourcesAssumption
<1>6. CASE Satisfied(m_resourceCounts) = {}
  <2>1. UNCHANGED <<status, winner>>
    BY <1>6 DEF PostUpdate
  <2>2. ASSUME NEW p \in Players, playerActive[p]
        PROVE  \E t \in ResourceTypes : m_resourceCounts[p][t] < goals[p][t]
    BY <1>6, <2>2, Lacks DEF Satisfied, ActivePlayers
  <2>3. EndsWhenWon'
    BY <1>1, <1>2, <1>3, <2>1, <2>2 DEF EndsWhenWon
  <2>4. ServerStateOK'
    BY <1>1, <1>5, <2>1 DEF ObjectIInv, ServerStateOK
  <2> QED
    BY <1>2, <1>4, <2>3, <2>4 DEF ObjectIInv
<1>7. CASE Satisfied(m_resourceCounts) # {}
  <2>1. status' = "game_over" /\ winner' \in Satisfied(m_resourceCounts)
    BY <1>7 DEF PostUpdate
  <2>2. winner' \in Players /\ playerActive[winner']
        /\ SatisfiesCondition(goals[winner'], m_resourceCounts[winner'])
    BY <2>1 DEF Satisfied, ActivePlayers
  <2>3. EndsWhenWon'
    BY <1>1, <1>2, <2>1, <2>2 DEF EndsWhenWon, SatisfiesCondition
  <2>4. ServerStateOK'
    BY <1>1, <1>5, <2>1, <2>2 DEF ObjectIInv, ServerStateOK
  <2> QED
    BY <1>2, <1>4, <2>3, <2>4 DEF ObjectIInv
<1> QED
  BY <1>6, <1>7

\* What the client does to its copy is none of the server's business.
LEMMA ClientStepInv ==
  ASSUME ObjectIInv, UNCHANGED <<vars, m_resourceCounts, goals, updates, status, winner>>,
         phase \in {"idle", "show", "replay"}, phase' \in {"idle", "show", "replay"}
  PROVE  ObjectIInv'
<1>1. IInv'
  BY StutterInv DEF ObjectIInv
<1>2. ServerStateOK' /\ ResourcesConserved' /\ OverIsOver'
  BY DEF ObjectIInv, ServerStateOK, ResourcesConserved, OverIsOver
<1>3. EndsWhenWon'
  BY DEF ObjectIInv, EndsWhenWon, vars
<1> QED
  BY <1>1, <1>2, <1>3 DEF ObjectIInv

LEMMA ObjectStutterInv == ObjectIInv /\ UNCHANGED objectVars => ObjectIInv'
<1> SUFFICES ASSUME ObjectIInv, UNCHANGED objectVars PROVE ObjectIInv'
  OBVIOUS
<1>1. IInv'
  BY StutterInv DEF ObjectIInv, objectVars
<1>2. UNCHANGED <<vars, m_resourceCounts, goals, phase, updates, status, winner>>
  BY DEF objectVars, stepVars
<1>3. ServerStateOK' /\ ResourcesConserved' /\ OverIsOver'
  BY <1>2 DEF ObjectIInv, ServerStateOK, ResourcesConserved, OverIsOver
<1>4. EndsWhenWon'
  BY <1>2 DEF ObjectIInv, EndsWhenWon, vars
<1> QED
  BY <1>1, <1>3, <1>4 DEF ObjectIInv

LEMMA ObjectNextInv == ObjectIInv /\ [ObjectNext]_objectVars => ObjectIInv'
<1> SUFFICES ASSUME ObjectIInv, [ObjectNext]_objectVars PROVE ObjectIInv'
  OBVIOUS
<1>0. IInv /\ ServerStateOK
  BY DEF ObjectIInv
<1>1. ASSUME NEW toggledJoinable \in SUBSET Commanded, NEW toggledUngroup \in SUBSET Commanded,
             UpdateObjects(toggledJoinable, toggledUngroup)
      PROVE  ObjectIInv'
  <2>1. /\ Update(toggledJoinable, toggledUngroup) /\ phase' = "events" /\ status = "playing"
        /\ updates < UpdatesPerStep /\ updates' = updates + 1
        /\ UNCHANGED <<m_resourceCounts, goals, status, winner>>
    BY <1>1 DEF UpdateObjects
  <2>2. IInv'
    BY <1>0, <2>1, UpdateInv
  <2>3. updates' \in 0 .. UpdatesPerStep
    BY <1>0, <2>1, ResourcesAssumption DEF ServerStateOK
  <2> QED
    BY <2>1, <2>2, <2>3, CountsKept
<1>2. ASSUME NEW a \in Active, NEW b \in Active \ {a}, CollideGroups(a, b)
      PROVE  ObjectIInv'
  <2>1. /\ JoinGroups(a, b) /\ phase = "events"
        /\ UNCHANGED <<m_resourceCounts, goals, phase, updates, status, winner>>
    BY <1>2 DEF CollideGroups, CanCollide
  <2>2. IInv'
    BY <1>0, <2>1, JoinGroupsInv
  <2>3. status = "playing" /\ updates' \in 0 .. UpdatesPerStep
    BY <1>0, <2>1 DEF ObjectIInv, OverIsOver, ServerStateOK
  <2> QED
    BY <2>1, <2>2, <2>3, CountsKept
<1>3. ASSUME NEW g \in Active, NEW m \in MineIds, CollideWithMine(g, m)
      PROVE  ObjectIInv'
  BY <1>3, CollideWithMineInv
<1>4. CASE ConnectClient
  <2>1. /\ CreatePlayerWithGroup /\ phase = "events"
        /\ UNCHANGED <<m_resourceCounts, goals, phase, updates, status, winner>>
    BY <1>4 DEF ConnectClient, stepVars
  <2>2. IInv'
    BY <1>0, <2>1, CreatePlayerWithGroupInv
  <2>3. status = "playing" /\ updates' \in 0 .. UpdatesPerStep
    BY <1>0, <2>1 DEF ObjectIInv, OverIsOver, ServerStateOK
  <2> QED
    BY <2>1, <2>2, <2>3, CountsKept
<1>5. ASSUME NEW p \in Named, DisconnectClient(p)
      PROVE  ObjectIInv'
  <2>1. /\ RemovePlayer(p) /\ phase = "events"
        /\ UNCHANGED <<m_resourceCounts, goals, phase, updates, status, winner>>
    BY <1>5 DEF DisconnectClient, stepVars
  <2>2. IInv'
    BY <1>0, <2>1, IdFacts, RemovePlayerInv DEF Named
  <2>3. status = "playing" /\ updates' \in 0 .. UpdatesPerStep
    BY <1>0, <2>1 DEF ObjectIInv, OverIsOver, ServerStateOK
  <2> QED
    BY <2>1, <2>2, <2>3, CountsKept
<1>6. CASE PostUpdate
  BY <1>6, PostUpdateInv
<1>7. CASE ShowGameState
  <2>1. /\ phase = "show" /\ phase' \in {"idle", "show", "replay"}
        /\ UNCHANGED <<vars, m_resourceCounts, goals, updates, status, winner>>
    BY Zenon, <1>7 DEF ShowGameState
  <2> QED
    BY <2>1, ClientStepInv
<1>8. CASE ReplayCollision
  <2>1. /\ phase = "replay" /\ phase' \in {"idle", "show", "replay"}
        /\ UNCHANGED <<vars, m_resourceCounts, goals, updates, status, winner>>
    BY Zenon, <1>8 DEF ReplayCollision
  <2> QED
    BY <2>1, ClientStepInv
<1>9. CASE Stopped
  BY <1>9, ObjectStutterInv DEF Stopped
<1>10. CASE UNCHANGED objectVars
  BY <1>10, ObjectStutterInv
<1> QED
  BY <1>1, <1>2, <1>3, <1>4, <1>5, <1>6, <1>7, <1>8, <1>9, <1>10 DEF ObjectNext

(***************************************************************************)
(* What a bump into a mine gives to whom.                                  *)
(***************************************************************************)

\* The body of OneUnitEach.
FairStep ==
  LET Gain(p, t) == m_resourceCounts'[p][t] - m_resourceCounts[p][t]
      RanOut(t) == \E m \in MineIds : m_resourceCounts[m][t] > 0 /\ m_resourceCounts'[m][t] = 0
  IN \A p \in Players, t \in ResourceTypes :
       /\ Gain(p, t) \in {0, 1}
       /\ Gain(p, t) = 1 =>
            \A q \in Players : m_playerToGroup[q] = m_playerToGroup[p]
                               => Gain(q, t) = 1 \/ RanOut(t)

\* Those who are served are the members of one group, in some order.
LEMMA CollisionFair ==
  ASSUME ObjectIInv, NEW g \in Active, NEW m \in MineIds, CollideWithMine(g, m)
  PROVE  FairStep
<1>1. PICK n \in Nat : \E members \in [1 .. n -> Players] :
        /\ \A p \in Players : p \in m_groupToPlayers[g] <=> \E i \in 1 .. n : members[i] = p
        /\ TurnsTaken(m_resourceCounts, m_resourceCounts', m, members, n)
  BY CollisionServes
<1>2. PICK members \in [1 .. n -> Players] :
        /\ \A p \in Players : p \in m_groupToPlayers[g] <=> \E i \in 1 .. n : members[i] = p
        /\ TurnsTaken(m_resourceCounts, m_resourceCounts', m, members, n)
  BY <1>1
<1>3. PICK c \in Held : c = m_resourceCounts
  BY CountsFacts
<1>4. PICK d \in Held : d = m_resourceCounts'
  BY <1>2 DEF TurnsTaken
<1>5. PICK T \in ResourceTypes : T = MineType(m)
  BY MineHasType
<1>6. PICK x \in Nat : x = c[m][T]
  BY HolderFacts DEF Held
<1>7. d[m][T] = IF x > n THEN x - n ELSE 0
  BY <1>2, <1>3, <1>4, <1>5, <1>6 DEF TurnsTaken
<1>8. ASSUME NEW p \in Players, NEW t \in ResourceTypes
      PROVE  d[p][t] = IF t = T /\ (\E i \in 1 .. n : members[i] = p /\ i <= x)
                       THEN c[p][t] + 1 ELSE c[p][t]
  <2>1. p \in Holders /\ p # m
    BY HolderFacts
  <2> QED
    BY <1>2, <1>3, <1>4, <1>5, <1>6, <2>1 DEF TurnsTaken
<1>9. ASSUME NEW p \in Players, NEW t \in ResourceTypes
      PROVE  c[p][t] \in Nat
  BY HolderFacts DEF Held
<1>10. ASSUME NEW p \in Players, NEW t \in ResourceTypes
       PROVE  d[p][t] - c[p][t] \in {0, 1}
  BY <1>8, <1>9
<1>11. ASSUME NEW p \in Players, NEW t \in ResourceTypes, d[p][t] - c[p][t] = 1,
              NEW q \in Players, m_playerToGroup[q] = m_playerToGroup[p]
       PROVE  d[q][t] - c[q][t] = 1 \/ (c[m][t] > 0 /\ d[m][t] = 0)
  <2>1. t = T /\ \E i \in 1 .. n : members[i] = p /\ i <= x
    BY <1>8, <1>9, <1>11
  <2>2. x > 0
    BY <1>6, <2>1
  <2>3. p \in m_groupToPlayers[g]
    BY <1>2, <2>1
  <2>4. q \in m_groupToPlayers[g]
    <3>1. g \in Keys
      BY IdFacts DEF Active
    <3> QED
      BY <1>11, <2>3, <3>1 DEF ObjectIInv, IInv, MembershipConsistent
  <2>5. PICK j \in 1 .. n : members[j] = q
    BY <1>2, <2>4
  <2>6. CASE j <= x
    <3>1. d[q][t] = c[q][t] + 1
      BY <1>8, <2>1, <2>5, <2>6
    <3> QED
      BY <1>9, <3>1
  <2>7. CASE ~ (j <= x)
    <3>1. ~ (x > n)
      BY <1>6, <2>7
    <3> QED
      BY <1>6, <1>7, <2>1, <2>2, <3>1
  <2> QED
    BY <2>6, <2>7
<1> QED
  BY <1>3, <1>4, <1>10, <1>11 DEF FairStep

\* Nothing else a server or a client does touches the server's counts.
LEMMA NobodyServed ==
  ASSUME ObjectIInv, UNCHANGED m_resourceCounts
  PROVE  FairStep
<1>1. ASSUME NEW p \in Players, NEW t \in ResourceTypes
      PROVE  m_resourceCounts'[p][t] - m_resourceCounts[p][t] = 0
  <2>1. m_resourceCounts[p][t] \in Nat
    BY CountsFacts, HolderFacts DEF Held
  <2> QED
    BY <2>1
<1> QED
  BY <1>1 DEF FairStep

LEMMA StepFair == ObjectIInv /\ [ObjectNext]_objectVars => FairStep
<1> SUFFICES ASSUME ObjectIInv, [ObjectNext]_objectVars PROVE FairStep
  OBVIOUS
<1>1. \/ UNCHANGED m_resourceCounts
      \/ \E g \in Active, m \in MineIds : CollideWithMine(g, m)
  BY Zenon DEF ObjectNext, UpdateObjects, CollideGroups, ConnectClient, DisconnectClient, PostUpdate,
               ShowGameState, ReplayCollision, Stopped, objectVars
<1> QED
  BY <1>1, CollisionFair, NobodyServed

(***************************************************************************)
(* Resources come on top of the groups and do not reach into them.         *)
(***************************************************************************)
LEMMA StepImplementsGroups == [ObjectNext]_objectVars => [Next]_vars
<1> SUFFICES ASSUME [ObjectNext]_objectVars PROVE [Next]_vars
  OBVIOUS
<1>1. \/ UNCHANGED vars
      \/ \E toggledJoinable \in SUBSET Commanded, toggledUngroup \in SUBSET Commanded :
           Update(toggledJoinable, toggledUngroup)
      \/ \E a \in Active : \E b \in Active \ {a} : JoinGroups(a, b)
      \/ CreatePlayerWithGroup
      \/ \E p \in Named : RemovePlayer(p)
  BY Zenon DEF ObjectNext, UpdateObjects, CollideGroups, CollideWithMine, ConnectClient,
               DisconnectClient, PostUpdate, ShowGameState, ReplayCollision, Stopped, objectVars
<1> QED
  BY <1>1 DEF Next

(***************************************************************************)
(* The packet: what is written of each part of a game state is read back,  *)
(* and the rest of the packet is left.  A list of parts is ListCodec's     *)
(* subject.                                                                *)
(***************************************************************************)
\* What a reader finds at the front of a packet that starts with a.
LEMMA FrontRead ==
  ASSUME NEW a \in Seq(Nat), NEW q \in Seq(Nat)
  PROVE  /\ a \o q \in Seq(Nat)
         /\ \A i \in 1 .. Len(a) : (a \o q)[i] = a[i]
         /\ \A m, n \in 1 .. Len(a) : SubSeq(a \o q, m, n) = SubSeq(a, m, n)
         /\ From(a \o q, Len(a) + 1) = q
<1>1. Len(a) \in Nat /\ Len(q) \in Nat
  OBVIOUS
<1>2. /\ a \o q \in Seq(Nat)
      /\ Len(a \o q) = Len(a) + Len(q)
      /\ \A i \in 1 .. Len(a) + Len(q) : (a \o q)[i] = IF i <= Len(a) THEN a[i] ELSE q[i - Len(a)]
  BY ConcatProperties
<1>3. \A i \in 1 .. Len(a) : (a \o q)[i] = a[i]
  BY <1>1, <1>2
<1>4. \A m, n \in 1 .. Len(a) : SubSeq(a \o q, m, n) = SubSeq(a, m, n)
  BY SubSeqOfConcat1
<1>5. From(a \o q, Len(a) + 1) = q
  BY <1>2 DEF From
<1> QED
  BY <1>2, <1>3, <1>4, <1>5

\* One number more at the end.
LEMMA OneMore ==
  ASSUME NEW a \in Seq(Nat), NEW x \in Nat
  PROVE  /\ a \o <<x>> \in Seq(Nat)
         /\ Len(a \o <<x>>) = Len(a) + 1
         /\ \A i \in 1 .. Len(a) : (a \o <<x>>)[i] = a[i]
         /\ (a \o <<x>>)[Len(a) + 1] = x
BY ConcatProperties

\* A packet of one number.
LEMMA OneNumber == \A x \in Nat : <<x>> \in Seq(Nat) /\ Len(<<x>>) = 1 /\ <<x>>[1] = x
OBVIOUS

\* A packet of two.
LEMMA TwoNumbers ==
  \A x, y \in Nat :
    /\ <<x>> \o <<y>> \in Seq(Nat) /\ Len(<<x>> \o <<y>>) = 2
    /\ (<<x>> \o <<y>>)[1] = x /\ (<<x>> \o <<y>>)[2] = y
<1> SUFFICES ASSUME NEW x \in Nat, NEW y \in Nat
             PROVE  /\ <<x>> \o <<y>> \in Seq(Nat) /\ Len(<<x>> \o <<y>>) = 2
                    /\ (<<x>> \o <<y>>)[1] = x /\ (<<x>> \o <<y>>)[2] = y
  OBVIOUS
<1> DEFINE one == <<x>>
<1>1. one \in Seq(Nat) /\ Len(one) = 1 /\ one[1] = x
  BY OneNumber, Zenon
<1> HIDE DEF one
<1>2. /\ one \o <<y>> \in Seq(Nat)
      /\ Len(one \o <<y>>) = Len(one) + 1
      /\ \A i \in 1 .. Len(one) : (one \o <<y>>)[i] = one[i]
      /\ (one \o <<y>>)[Len(one) + 1] = y
  BY <1>1, OneMore
<1> DEFINE two == one \o <<y>>
<1> HIDE DEF two
<1>3. two \in Seq(Nat) /\ Len(two) = 2 /\ two[1] = x /\ two[2] = y
  BY <1>1, <1>2 DEF two
<1> QED
  BY <1>3, Zenon DEF one, two

\* A flag is a number that tells what it was.
LEMMA FlagWritten ==
  ASSUME NEW flag \in BOOLEAN
  PROVE  \E f \in Nat : WriteFlag(flag) = <<f>> /\ (f = 1) = flag
BY DEF WriteFlag

CircleUpdates == [id : Nat, active : BOOLEAN]

\* GroupUpdate and MineUpdate.
LEMMA CircleReads ==
  ASSUME NEW u \in CircleUpdates, NEW q \in Seq(Nat)
  PROVE  /\ WriteCircle(u) \in Seq(Nat)
         /\ ReadCircle(WriteCircle(u) \o q) = [value |-> u, rest |-> q]
<1>1. u.id \in Nat /\ u.active \in BOOLEAN /\ u = [id |-> u.id, active |-> u.active]
  BY DEF CircleUpdates
<1>2. PICK f \in Nat : WriteFlag(u.active) = <<f>> /\ (f = 1) = u.active
  BY <1>1, FlagWritten
<1> DEFINE a == <<u.id>> \o <<f>>
<1>3. WriteCircle(u) = a
  BY <1>2 DEF WriteCircle
<1>4. a \in Seq(Nat) /\ Len(a) = 2 /\ a[1] = u.id /\ a[2] = f
  BY <1>1, TwoNumbers, Zenon
<1> HIDE DEF a
<1>5. (a \o q)[1] = u.id /\ (a \o q)[2] = f /\ From(a \o q, 3) = q
  <2>1. (\A i \in 1 .. Len(a) : (a \o q)[i] = a[i]) /\ From(a \o q, Len(a) + 1) = q
    BY <1>4, FrontRead
  <2>2. Len(a) + 1 = 3 /\ 1 \in 1 .. Len(a) /\ 2 \in 1 .. Len(a)
    BY <1>4
  <2> QED
    BY <1>4, <2>1, <2>2, Zenon
<1> QED
  BY <1>1, <1>2, <1>3, <1>4, <1>5 DEF ReadCircle

Amounts == [1 .. ResourceTypeCount -> Nat]

\* One number per resource type after the first fields.
LEMMA AmountsFollow ==
  ASSUME NEW a \in Seq(Nat),
         NEW amounts \in Amounts, NEW q \in Seq(Nat)
  PROVE  /\ a \o amounts \in Seq(Nat)
         /\ \A i \in 1 .. Len(a) : ((a \o amounts) \o q)[i] = a[i]
         /\ SubSeq((a \o amounts) \o q, Len(a) + 1, Len(a) + ResourceTypeCount) = amounts
         /\ From((a \o amounts) \o q, Len(a) + ResourceTypeCount + 1) = q
<1> DEFINE b == a \o amounts
           n == Len(a)
           r == ResourceTypeCount
<1>1. n \in Nat /\ r \in Nat \ {0} /\ amounts \in Seq(Nat) /\ Len(amounts) = r
  BY ResourcesAssumption DEF Amounts
<1>2. /\ b \in Seq(Nat) /\ Len(b) = n + r
      /\ \A i \in 1 .. n + r : b[i] = IF i <= n THEN a[i] ELSE amounts[i - n]
  BY <1>1, ConcatProperties
<1>3. SubSeq(b, n + 1, n + r) = SubSeq(amounts, (n + 1) - n, (n + r) - n)
  BY <1>1, SubSeqOfConcat2
<1>4. SubSeq(amounts, 1, r) = amounts
  BY <1>1, SubSeqFull
<1> HIDE DEF n
<1>5. (n + 1) - n = 1 /\ (n + r) - n = r
  BY <1>1
<1> HIDE DEF b
<1>6. /\ \A i \in 1 .. Len(b) : (b \o q)[i] = b[i]
      /\ \A k, m \in 1 .. Len(b) : SubSeq(b \o q, k, m) = SubSeq(b, k, m)
      /\ From(b \o q, Len(b) + 1) = q
  BY <1>2, FrontRead
<1>7. \A i \in 1 .. n : (b \o q)[i] = a[i]
  BY <1>1, <1>2, <1>6
<1>8. SubSeq(b \o q, n + 1, n + r) = amounts
  BY <1>1, <1>2, <1>3, <1>4, <1>5, <1>6
<1>9. From(b \o q, n + r + 1) = q
  BY <1>2, <1>6
<1> QED
  BY <1>2, <1>7, <1>8, <1>9 DEF b, n

PlayerUpdates ==
  [id : Nat, active : BOOLEAN, joinable : BOOLEAN, ungroup : BOOLEAN, goals : Amounts]

\* PlayerUpdate.
LEMMA PlayerReads ==
  ASSUME NEW u \in PlayerUpdates, NEW q \in Seq(Nat)
  PROVE  /\ WritePlayer(u) \in Seq(Nat)
         /\ ReadPlayer(WritePlayer(u) \o q) = [value |-> u, rest |-> q]
<1>1. /\ u.id \in Nat /\ u.goals \in Amounts
      /\ u.active \in BOOLEAN /\ u.joinable \in BOOLEAN /\ u.ungroup \in BOOLEAN
      /\ u = [id |-> u.id, active |-> u.active, joinable |-> u.joinable, ungroup |-> u.ungroup,
              goals |-> u.goals]
  BY DEF PlayerUpdates
<1>2. PICK f \in Nat : WriteFlag(u.active) = <<f>> /\ (f = 1) = u.active
  BY <1>1, FlagWritten
<1>3. PICK g \in Nat : WriteFlag(u.joinable) = <<g>> /\ (g = 1) = u.joinable
  BY <1>1, FlagWritten
<1>4. PICK h \in Nat : WriteFlag(u.ungroup) = <<h>> /\ (h = 1) = u.ungroup
  BY <1>1, FlagWritten
<1> DEFINE two == <<u.id>> \o <<f>>
           three == two \o <<g>>
           a == three \o <<h>>
<1>5. WritePlayer(u) = a \o u.goals
  BY <1>2, <1>3, <1>4 DEF WritePlayer
<1>6. two \in Seq(Nat) /\ Len(two) = 2 /\ two[1] = u.id /\ two[2] = f
  <2>1. u.id \in Nat
    BY <1>1
  <2> QED
    BY <2>1, TwoNumbers, Zenon
<1> HIDE DEF two
<1>7. three \in Seq(Nat) /\ Len(three) = 3 /\ three[1] = u.id /\ three[2] = f /\ three[3] = g
  <2>1. /\ three \in Seq(Nat) /\ Len(three) = Len(two) + 1
        /\ \A i \in 1 .. Len(two) : three[i] = two[i]
        /\ three[Len(two) + 1] = g
    BY <1>6, OneMore
  <2> HIDE DEF three
  <2> QED
    BY <1>6, <2>1
<1> HIDE DEF three
<1>8. a \in Seq(Nat) /\ Len(a) = 4 /\ a[1] = u.id /\ a[2] = f /\ a[3] = g /\ a[4] = h
  <2>1. /\ a \in Seq(Nat) /\ Len(a) = Len(three) + 1
        /\ \A i \in 1 .. Len(three) : a[i] = three[i]
        /\ a[Len(three) + 1] = h
    BY <1>7, OneMore
  <2> HIDE DEF a
  <2> QED
    BY <1>7, <2>1
<1> HIDE DEF a
<1> DEFINE words == (a \o u.goals) \o q
<1>9. /\ a \o u.goals \in Seq(Nat)
      /\ \A i \in 1 .. 4 : words[i] = a[i]
      /\ SubSeq(words, 4 + 1, 4 + ResourceTypeCount) = u.goals
      /\ From(words, 4 + ResourceTypeCount + 1) = q
  <2>1. /\ a \o u.goals \in Seq(Nat)
        /\ \A i \in 1 .. Len(a) : words[i] = a[i]
        /\ SubSeq(words, Len(a) + 1, Len(a) + ResourceTypeCount) = u.goals
        /\ From(words, Len(a) + ResourceTypeCount + 1) = q
    BY <1>1, <1>8, AmountsFollow, Zenon
  <2> QED
    BY <1>8, <2>1
<1>10. 4 + 1 = 5 /\ 4 + ResourceTypeCount + 1 = 5 + ResourceTypeCount
  BY ResourcesAssumption
<1> HIDE DEF words
<1>11. words[1] = u.id /\ words[2] = f /\ words[3] = g /\ words[4] = h
  BY <1>8, <1>9
<1>12. ReadPlayer(words) = [value |-> [id |-> u.id, active |-> f = 1, joinable |-> g = 1,
                                        ungroup |-> h = 1, goals |-> u.goals],
                             rest |-> q]
  BY <1>9, <1>10, <1>11 DEF ReadPlayer
<1>13. ReadPlayer(words) = [value |-> u, rest |-> q]
  BY <1>1, <1>2, <1>3, <1>4, <1>12
<1> QED
  BY <1>5, <1>9, <1>13 DEF words


CountUpdates == [id : Nat, counts : Amounts]

\* IdAndCounts.
LEMMA CountReads ==
  ASSUME NEW u \in CountUpdates, NEW q \in Seq(Nat)
  PROVE  /\ WriteCounts(u) \in Seq(Nat)
         /\ ReadCounts(WriteCounts(u) \o q) = [value |-> u, rest |-> q]
<1>1. u.id \in Nat /\ u.counts \in Amounts /\ u = [id |-> u.id, counts |-> u.counts]
  BY DEF CountUpdates
<1> DEFINE a == <<u.id>>
           words == (a \o u.counts) \o q
<1>2. a \in Seq(Nat) /\ Len(a) = 1 /\ a[1] = u.id
  BY <1>1, OneNumber, Zenon
<1>3. WriteCounts(u) = a \o u.counts
  BY DEF WriteCounts
<1> HIDE DEF a
<1>4. /\ a \o u.counts \in Seq(Nat)
      /\ \A i \in 1 .. Len(a) : words[i] = a[i]
      /\ SubSeq(words, Len(a) + 1, Len(a) + ResourceTypeCount) = u.counts
      /\ From(words, Len(a) + ResourceTypeCount + 1) = q
  BY <1>1, <1>2, AmountsFollow, Zenon
<1> HIDE DEF words
<1>5. /\ words[1] = u.id
      /\ SubSeq(words, 2, 1 + ResourceTypeCount) = u.counts
      /\ From(words, 2 + ResourceTypeCount) = q
  <2>1. Len(a) + 1 = 2 /\ Len(a) + ResourceTypeCount + 1 = 2 + ResourceTypeCount
    BY <1>2, ResourcesAssumption
  <2>2. 1 \in 1 .. Len(a)
    BY <1>2
  <2> QED
    BY <1>2, <1>4, <2>1, <2>2
<1>6. ReadCounts(words) = [value |-> u, rest |-> q]
  BY <1>1, <1>5 DEF ReadCounts
<1> QED
  BY <1>3, <1>4, <1>6 DEF words

Pairs == Nat \X Nat

\* Collision.
LEMMA PairReads ==
  ASSUME NEW u \in Pairs, NEW q \in Seq(Nat)
  PROVE  /\ WriteCollision(u) \in Seq(Nat)
         /\ ReadCollision(WriteCollision(u) \o q) = [value |-> u, rest |-> q]
<1>1. u = <<u[1], u[2]>> /\ u \in Seq(Nat) /\ Len(u) = 2
  <2>1. u = <<u[1], u[2]>> /\ u[1] \in Nat /\ u[2] \in Nat
    BY DEF Pairs
  <2>2. \A n \in Nat : \A z \in [1 .. n -> Nat] : z \in Seq(Nat) /\ Len(z) = n
    OBVIOUS
  <2> DEFINE n == 2
  <2>3. u \in [1 .. n -> Nat] /\ n \in Nat
    BY <2>1
  <2>4. n = 2
    OBVIOUS
  <2> HIDE DEF n
  <2>5. u \in Seq(Nat) /\ Len(u) = n
    BY <2>2, <2>3, Zenon
  <2> QED
    BY <2>1, <2>4, <2>5, Zenon
<1>2. (\A i \in 1 .. Len(u) : (u \o q)[i] = u[i]) /\ From(u \o q, Len(u) + 1) = q
  BY <1>1, FrontRead
<1>3. Len(u) + 1 = 3 /\ 1 \in 1 .. Len(u) /\ 2 \in 1 .. Len(u)
  BY <1>1
<1>4. (u \o q)[1] = u[1] /\ (u \o q)[2] = u[2] /\ From(u \o q, 3) = q
  BY <1>2, <1>3, Zenon
<1>5. ReadCollision(u \o q) = [value |-> <<u[1], u[2]>>, rest |-> q]
  BY <1>4, Zenon DEF ReadCollision
<1> QED
  BY <1>1, <1>5 DEF WriteCollision

\* The ids in a list of members.
LEMMA NumberReads ==
  ASSUME NEW u \in Nat, NEW q \in Seq(Nat)
  PROVE  /\ WriteNumber(u) \in Seq(Nat)
         /\ ReadNumber(WriteNumber(u) \o q) = [value |-> u, rest |-> q]
<1>1. Head(<<u>> \o q) = u /\ Tail(<<u>> \o q) = q
  BY PrefixTaken
<1>2. <<u>> \in Seq(Nat)
  OBVIOUS
<1> QED
  BY <1>1, <1>2, Zenon DEF WriteNumber, ReadNumber

Circles == INSTANCE ListCodec WITH Write <- WriteCircle, Read <- ReadCircle, Pick <- Max

\* A list of groups or mines.
LEMMA CirclesRead ==
  ASSUME NEW list \in Seq(CircleUpdates), NEW rest \in Seq(Nat)
  PROVE  /\ WriteList(list, WriteCircle) \in Seq(Nat)
         /\ ReadList(WriteList(list, WriteCircle) \o rest, ReadCircle)
              = [value |-> list, rest |-> rest]
<1> DEFINE words == WriteList(list, WriteCircle) \o rest
           n == Len(list)
           S == DOMAIN [i \in 1 .. Head(words) |-> i]
<1>1. Circles!ReadsBack(CircleUpdates)
  BY CircleReads DEF Circles!ReadsBack, Circles!Got
<1>2. Circles!PicksOne(n)
  <2>1. n \in Nat
    OBVIOUS
  <2> HIDE DEF n
  <2> QED
    BY <2>1, MaxIsLargest DEF Circles!PicksOne
<1>3. Circles!ListBack(list, rest)
  BY <1>1, <1>2, Circles!ListReadsBack
<1>4. WriteList(list, WriteCircle) = Circles!Packed(list)
  BY Zenon DEF WriteList, Circles!Packed, FlattenSeq, Circles!FlattenSeq
<1>5. WriteList(list, WriteCircle) \in Seq(Nat) /\ Head(words) = n
  BY <1>3, <1>4 DEF Circles!ListBack
<1> HIDE DEF words
<1>6. S = 1 .. n
  BY <1>5
<1>7. ReadList(words, ReadCircle) =
        (CHOOSE it : it = [s \in SUBSET S |->
           IF s = {} THEN Circles!Got(<<>>, Tail(words))
           ELSE [value |-> Append(it[s \ {Max(s)}].value, ReadCircle(it[s \ {Max(s)}].rest).value),
                 rest |-> ReadCircle(it[s \ {Max(s)}].rest).rest]])[S]
  BY Zenon DEF ReadList, FoldLeft, MapThenFoldSet, Circles!Got
<1> HIDE DEF S
<1>8. ReadList(words, ReadCircle) = Circles!Unpacked(n, Tail(words))
  BY <1>6, <1>7, Zenon DEF Circles!Unpacked
<1>9. Circles!Unpacked(n, Tail(words)) = Circles!Got(list, rest)
  BY <1>3, <1>4, Zenon DEF Circles!ListBack, words
<1> QED
  BY <1>5, <1>8, <1>9 DEF Circles!Got, words

PlayerList == INSTANCE ListCodec WITH Write <- WritePlayer, Read <- ReadPlayer, Pick <- Max

\* The list of players.
LEMMA PlayersRead ==
  ASSUME NEW list \in Seq(PlayerUpdates), NEW rest \in Seq(Nat)
  PROVE  /\ WriteList(list, WritePlayer) \in Seq(Nat)
         /\ ReadList(WriteList(list, WritePlayer) \o rest, ReadPlayer)
              = [value |-> list, rest |-> rest]
<1> DEFINE words == WriteList(list, WritePlayer) \o rest
           n == Len(list)
           S == DOMAIN [i \in 1 .. Head(words) |-> i]
<1>1. PlayerList!ReadsBack(PlayerUpdates)
  BY PlayerReads DEF PlayerList!ReadsBack, PlayerList!Got
<1>2. PlayerList!PicksOne(n)
  <2>1. n \in Nat
    OBVIOUS
  <2> HIDE DEF n
  <2> QED
    BY <2>1, MaxIsLargest DEF PlayerList!PicksOne
<1>3. PlayerList!ListBack(list, rest)
  BY <1>1, <1>2, PlayerList!ListReadsBack
<1>4. WriteList(list, WritePlayer) = PlayerList!Packed(list)
  BY Zenon DEF WriteList, PlayerList!Packed, FlattenSeq, PlayerList!FlattenSeq
<1>5. WriteList(list, WritePlayer) \in Seq(Nat) /\ Head(words) = n
  BY <1>3, <1>4 DEF PlayerList!ListBack
<1> HIDE DEF words
<1>6. S = 1 .. n
  BY <1>5
<1>7. ReadList(words, ReadPlayer) =
        (CHOOSE it : it = [s \in SUBSET S |->
           IF s = {} THEN PlayerList!Got(<<>>, Tail(words))
           ELSE [value |-> Append(it[s \ {Max(s)}].value, ReadPlayer(it[s \ {Max(s)}].rest).value),
                 rest |-> ReadPlayer(it[s \ {Max(s)}].rest).rest]])[S]
  BY Zenon DEF ReadList, FoldLeft, MapThenFoldSet, PlayerList!Got
<1> HIDE DEF S
<1>8. ReadList(words, ReadPlayer) = PlayerList!Unpacked(n, Tail(words))
  BY <1>6, <1>7, Zenon DEF PlayerList!Unpacked
<1>9. PlayerList!Unpacked(n, Tail(words)) = PlayerList!Got(list, rest)
  BY <1>3, <1>4, Zenon DEF PlayerList!ListBack, words
<1> QED
  BY <1>5, <1>8, <1>9 DEF PlayerList!Got, words

CountList == INSTANCE ListCodec WITH Write <- WriteCounts, Read <- ReadCounts, Pick <- Max

\* ResourceControllerUpdate.
LEMMA CountsRead ==
  ASSUME NEW list \in Seq(CountUpdates), NEW rest \in Seq(Nat)
  PROVE  /\ WriteList(list, WriteCounts) \in Seq(Nat)
         /\ ReadList(WriteList(list, WriteCounts) \o rest, ReadCounts)
              = [value |-> list, rest |-> rest]
<1> DEFINE words == WriteList(list, WriteCounts) \o rest
           n == Len(list)
           S == DOMAIN [i \in 1 .. Head(words) |-> i]
<1>1. CountList!ReadsBack(CountUpdates)
  BY CountReads DEF CountList!ReadsBack, CountList!Got
<1>2. CountList!PicksOne(n)
  <2>1. n \in Nat
    OBVIOUS
  <2> HIDE DEF n
  <2> QED
    BY <2>1, MaxIsLargest DEF CountList!PicksOne
<1>3. CountList!ListBack(list, rest)
  BY <1>1, <1>2, CountList!ListReadsBack
<1>4. WriteList(list, WriteCounts) = CountList!Packed(list)
  BY Zenon DEF WriteList, CountList!Packed, FlattenSeq, CountList!FlattenSeq
<1>5. WriteList(list, WriteCounts) \in Seq(Nat) /\ Head(words) = n
  BY <1>3, <1>4 DEF CountList!ListBack
<1> HIDE DEF words
<1>6. S = 1 .. n
  BY <1>5
<1>7. ReadList(words, ReadCounts) =
        (CHOOSE it : it = [s \in SUBSET S |->
           IF s = {} THEN CountList!Got(<<>>, Tail(words))
           ELSE [value |-> Append(it[s \ {Max(s)}].value, ReadCounts(it[s \ {Max(s)}].rest).value),
                 rest |-> ReadCounts(it[s \ {Max(s)}].rest).rest]])[S]
  BY Zenon DEF ReadList, FoldLeft, MapThenFoldSet, CountList!Got
<1> HIDE DEF S
<1>8. ReadList(words, ReadCounts) = CountList!Unpacked(n, Tail(words))
  BY <1>6, <1>7, Zenon DEF CountList!Unpacked
<1>9. CountList!Unpacked(n, Tail(words)) = CountList!Got(list, rest)
  BY <1>3, <1>4, Zenon DEF CountList!ListBack, words
<1> QED
  BY <1>5, <1>8, <1>9 DEF CountList!Got, words

PairList == INSTANCE ListCodec WITH Write <- WriteCollision, Read <- ReadCollision, Pick <- Max

\* The list of collisions.
LEMMA PairsRead ==
  ASSUME NEW list \in Seq(Pairs), NEW rest \in Seq(Nat)
  PROVE  /\ WriteList(list, WriteCollision) \in Seq(Nat)
         /\ ReadList(WriteList(list, WriteCollision) \o rest, ReadCollision)
              = [value |-> list, rest |-> rest]
<1> DEFINE words == WriteList(list, WriteCollision) \o rest
           n == Len(list)
           S == DOMAIN [i \in 1 .. Head(words) |-> i]
<1>1. PairList!ReadsBack(Pairs)
  BY PairReads DEF PairList!ReadsBack, PairList!Got
<1>2. PairList!PicksOne(n)
  <2>1. n \in Nat
    OBVIOUS
  <2> HIDE DEF n
  <2> QED
    BY <2>1, MaxIsLargest DEF PairList!PicksOne
<1>3. PairList!ListBack(list, rest)
  BY <1>1, <1>2, PairList!ListReadsBack
<1>4. WriteList(list, WriteCollision) = PairList!Packed(list)
  BY Zenon DEF WriteList, PairList!Packed, FlattenSeq, PairList!FlattenSeq
<1>5. WriteList(list, WriteCollision) \in Seq(Nat) /\ Head(words) = n
  BY <1>3, <1>4 DEF PairList!ListBack
<1> HIDE DEF words
<1>6. S = 1 .. n
  BY <1>5
<1>7. ReadList(words, ReadCollision) =
        (CHOOSE it : it = [s \in SUBSET S |->
           IF s = {} THEN PairList!Got(<<>>, Tail(words))
           ELSE [value |-> Append(it[s \ {Max(s)}].value, ReadCollision(it[s \ {Max(s)}].rest).value),
                 rest |-> ReadCollision(it[s \ {Max(s)}].rest).rest]])[S]
  BY Zenon DEF ReadList, FoldLeft, MapThenFoldSet, PairList!Got
<1> HIDE DEF S
<1>8. ReadList(words, ReadCollision) = PairList!Unpacked(n, Tail(words))
  BY <1>6, <1>7, Zenon DEF PairList!Unpacked
<1>9. PairList!Unpacked(n, Tail(words)) = PairList!Got(list, rest)
  BY <1>3, <1>4, Zenon DEF PairList!ListBack, words
<1> QED
  BY <1>5, <1>8, <1>9 DEF PairList!Got, words

NumberList == INSTANCE ListCodec WITH Write <- WriteNumber, Read <- ReadNumber, Pick <- Max

\* The list of a group's members.
LEMMA NumbersRead ==
  ASSUME NEW list \in Seq(Nat), NEW rest \in Seq(Nat)
  PROVE  /\ WriteList(list, WriteNumber) \in Seq(Nat)
         /\ ReadList(WriteList(list, WriteNumber) \o rest, ReadNumber)
              = [value |-> list, rest |-> rest]
<1> DEFINE words == WriteList(list, WriteNumber) \o rest
           n == Len(list)
           S == DOMAIN [i \in 1 .. Head(words) |-> i]
<1>1. NumberList!ReadsBack(Nat)
  BY NumberReads DEF NumberList!ReadsBack, NumberList!Got
<1>2. NumberList!PicksOne(n)
  <2>1. n \in Nat
    OBVIOUS
  <2> HIDE DEF n
  <2> QED
    BY <2>1, MaxIsLargest DEF NumberList!PicksOne
<1>3. NumberList!ListBack(list, rest)
  BY <1>1, <1>2, NumberList!ListReadsBack
<1>4. WriteList(list, WriteNumber) = NumberList!Packed(list)
  BY Zenon DEF WriteList, NumberList!Packed, FlattenSeq, NumberList!FlattenSeq
<1>5. WriteList(list, WriteNumber) \in Seq(Nat) /\ Head(words) = n
  BY <1>3, <1>4 DEF NumberList!ListBack
<1> HIDE DEF words
<1>6. S = 1 .. n
  BY <1>5
<1>7. ReadList(words, ReadNumber) =
        (CHOOSE it : it = [s \in SUBSET S |->
           IF s = {} THEN NumberList!Got(<<>>, Tail(words))
           ELSE [value |-> Append(it[s \ {Max(s)}].value, ReadNumber(it[s \ {Max(s)}].rest).value),
                 rest |-> ReadNumber(it[s \ {Max(s)}].rest).rest]])[S]
  BY Zenon DEF ReadList, FoldLeft, MapThenFoldSet, NumberList!Got
<1> HIDE DEF S
<1>8. ReadList(words, ReadNumber) = NumberList!Unpacked(n, Tail(words))
  BY <1>6, <1>7, Zenon DEF NumberList!Unpacked
<1>9. NumberList!Unpacked(n, Tail(words)) = NumberList!Got(list, rest)
  BY <1>3, <1>4, Zenon DEF NumberList!ListBack, words
<1> QED
  BY <1>5, <1>8, <1>9 DEF NumberList!Got, words

MemberUpdates == [id : Nat, players : Seq(Nat)]

\* GroupIdAndPlayerIds, a list in a list.
LEMMA MemberReads ==
  ASSUME NEW u \in MemberUpdates, NEW q \in Seq(Nat)
  PROVE  /\ WriteMembers(u) \in Seq(Nat)
         /\ ReadMembers(WriteMembers(u) \o q) = [value |-> u, rest |-> q]
<1>1. u.id \in Nat /\ u.players \in Seq(Nat) /\ u = [id |-> u.id, players |-> u.players]
  BY DEF MemberUpdates
<1> DEFINE list == WriteList(u.players, WriteNumber)
           words == (<<u.id>> \o list) \o q
<1>2. list \in Seq(Nat) /\ ReadList(list \o q, ReadNumber) = [value |-> u.players, rest |-> q]
  BY <1>1, NumbersRead
<1>3. WriteMembers(u) = <<u.id>> \o list
  BY DEF WriteMembers
<1> HIDE DEF list
<1>4. <<u.id>> \in Seq(Nat) /\ <<u.id>> \o list \in Seq(Nat) /\ list \o q \in Seq(Nat)
  BY <1>1, <1>2, ConcatProperties
<1>5. words = <<u.id>> \o (list \o q)
  BY <1>2, <1>4, Regrouped
<1> HIDE DEF words
<1>6. Head(words) = u.id /\ Tail(words) = list \o q
  <2> DEFINE x == u.id
             left == list \o q
  <2>1. x \in Nat /\ left \in Seq(Nat) /\ words = <<x>> \o left
    BY <1>1, <1>4, <1>5
  <2> HIDE DEF x, left
  <2>2. Head(<<x>> \o left) = x /\ Tail(<<x>> \o left) = left
    BY <2>1, PrefixTaken
  <2>3. Head(words) = x /\ Tail(words) = left
    BY <2>1, <2>2
  <2> QED
    BY <2>3, Zenon DEF x, left
<1>7. ReadMembers(words) = [value |-> u, rest |-> q]
  <2> DEFINE players == ReadList(Tail(words), ReadNumber)
  <2>1. players = [value |-> u.players, rest |-> q]
    BY <1>2, <1>6, Zenon
  <2>2. ReadMembers(words) = [value |-> [id |-> Head(words), players |-> players.value],
                               rest |-> players.rest]
    BY Zenon DEF ReadMembers
  <2> HIDE DEF players
  <2> QED
    BY <1>1, <1>6, <2>1, <2>2
<1> QED
  BY <1>3, <1>4, <1>7 DEF words

MemberList == INSTANCE ListCodec WITH Write <- WriteMembers, Read <- ReadMembers, Pick <- Max

\* GroupControllerUpdate.
LEMMA MembersRead ==
  ASSUME NEW list \in Seq(MemberUpdates), NEW rest \in Seq(Nat)
  PROVE  /\ WriteList(list, WriteMembers) \in Seq(Nat)
         /\ ReadList(WriteList(list, WriteMembers) \o rest, ReadMembers)
              = [value |-> list, rest |-> rest]
<1> DEFINE words == WriteList(list, WriteMembers) \o rest
           n == Len(list)
           S == DOMAIN [i \in 1 .. Head(words) |-> i]
<1>1. MemberList!ReadsBack(MemberUpdates)
  BY MemberReads DEF MemberList!ReadsBack, MemberList!Got
<1>2. MemberList!PicksOne(n)
  <2>1. n \in Nat
    OBVIOUS
  <2> HIDE DEF n
  <2> QED
    BY <2>1, MaxIsLargest DEF MemberList!PicksOne
<1>3. MemberList!ListBack(list, rest)
  BY <1>1, <1>2, MemberList!ListReadsBack
<1>4. WriteList(list, WriteMembers) = MemberList!Packed(list)
  BY Zenon DEF WriteList, MemberList!Packed, FlattenSeq, MemberList!FlattenSeq
<1>5. WriteList(list, WriteMembers) \in Seq(Nat) /\ Head(words) = n
  BY <1>3, <1>4 DEF MemberList!ListBack
<1> HIDE DEF words
<1>6. S = 1 .. n
  BY <1>5
<1>7. ReadList(words, ReadMembers) =
        (CHOOSE it : it = [s \in SUBSET S |->
           IF s = {} THEN MemberList!Got(<<>>, Tail(words))
           ELSE [value |-> Append(it[s \ {Max(s)}].value, ReadMembers(it[s \ {Max(s)}].rest).value),
                 rest |-> ReadMembers(it[s \ {Max(s)}].rest).rest]])[S]
  BY Zenon DEF ReadList, FoldLeft, MapThenFoldSet, MemberList!Got
<1> HIDE DEF S
<1>8. ReadList(words, ReadMembers) = MemberList!Unpacked(n, Tail(words))
  BY <1>6, <1>7, Zenon DEF MemberList!Unpacked
<1>9. MemberList!Unpacked(n, Tail(words)) = MemberList!Got(list, rest)
  BY <1>3, <1>4, Zenon DEF MemberList!ListBack, words
<1> QED
  BY <1>5, <1>8, <1>9 DEF MemberList!Got, words

Grouped(a, b, c) == (a \o b) \o c = a \o (b \o c)

LEMMA AllGrouped == \A a, b, c \in Seq(Nat) : Grouped(a, b, c)
BY Regrouped DEF Grouped

FiveInARow(a, b, c, d, e, q) ==
  /\ (((a \o b) \o c) \o d) \o e \in Seq(Nat)
  /\ ((((a \o b) \o c) \o d) \o e) \o q = a \o (b \o (c \o (d \o (e \o q))))
  /\ e \o q \in Seq(Nat)
  /\ d \o (e \o q) \in Seq(Nat)
  /\ c \o (d \o (e \o q)) \in Seq(Nat)
  /\ b \o (c \o (d \o (e \o q))) \in Seq(Nat)

\* Five lists and the rest, taken off one after the other.
LEMMA AllInARow == \A a, b, c, d, e, q \in Seq(Nat) : FiveInARow(a, b, c, d, e, q)
<1> TAKE a, b, c, d, e, q \in Seq(Nat)
<1>1. \A x, y \in Seq(Nat) : x \o y \in Seq(Nat)
  OBVIOUS
<1> DEFINE ab == a \o b
           abc == ab \o c
           abcd == abc \o d
           eq == e \o q
           deq == d \o eq
           cdeq == c \o deq
<1>2. ab \in Seq(Nat) /\ eq \in Seq(Nat)
  BY <1>1, Zenon
<1>3. abc \in Seq(Nat) /\ deq \in Seq(Nat)
  BY <1>1, <1>2, Zenon
<1>4. abcd \in Seq(Nat) /\ cdeq \in Seq(Nat)
  BY <1>1, <1>3, Zenon
<1>5. abcd \o e \in Seq(Nat) /\ b \o cdeq \in Seq(Nat)
  BY <1>1, <1>4, Zenon
<1> HIDE DEF ab, abc, abcd, eq, deq, cdeq
<1>6. Grouped(abcd, e, q) /\ Grouped(abc, d, eq) /\ Grouped(ab, c, deq) /\ Grouped(a, b, cdeq)
  BY <1>2, <1>3, <1>4, AllGrouped, Zenon
<1>7. (abcd \o e) \o q = abcd \o eq
  BY <1>6, Zenon DEF Grouped, eq
<1>8. abcd \o eq = abc \o deq
  BY <1>6, Zenon DEF Grouped, abcd, deq
<1>9. abc \o deq = ab \o cdeq
  BY <1>6, Zenon DEF Grouped, abc, cdeq
<1>10. ab \o cdeq = a \o (b \o cdeq)
  BY <1>6, Zenon DEF Grouped, ab
<1>11. (abcd \o e) \o q = a \o (b \o cdeq)
  BY <1>7, <1>8, <1>9, <1>10, Zenon
<1> QED
  BY <1>2, <1>3, <1>4, <1>5, <1>11, Zenon DEF FiveInARow, ab, abc, abcd, eq, deq, cdeq

ObjectStates ==
  [groups : Seq(CircleUpdates), mines : Seq(CircleUpdates), players : Seq(PlayerUpdates),
   members : Seq(MemberUpdates), counts : Seq(CountUpdates)]

ObjectBack(o, q) ==
  /\ WriteObject(o) \in Seq(Nat)
  /\ ReadObject(WriteObject(o) \o q) = [value |-> o, rest |-> q]

\* GameStateObject's operators << and >>: the five lists, one after the other.
LEMMA ObjectReads == ASSUME NEW o \in ObjectStates, NEW q \in Seq(Nat) PROVE ObjectBack(o, q)
<1>1. /\ o.groups \in Seq(CircleUpdates) /\ o.mines \in Seq(CircleUpdates)
      /\ o.players \in Seq(PlayerUpdates) /\ o.members \in Seq(MemberUpdates)
      /\ o.counts \in Seq(CountUpdates)
      /\ o = [groups |-> o.groups, mines |-> o.mines, players |-> o.players,
              members |-> o.members, counts |-> o.counts]
  BY DEF ObjectStates
<1> DEFINE a == WriteList(o.groups, WriteCircle)
           b == WriteList(o.mines, WriteCircle)
           c == WriteList(o.players, WritePlayer)
           d == WriteList(o.members, WriteMembers)
           e == WriteList(o.counts, WriteCounts)
           afterMembers == e \o q
           afterPlayers == d \o afterMembers
           afterMines == c \o afterPlayers
           afterGroups == b \o afterMines
           words == ((((a \o b) \o c) \o d) \o e) \o q
<1>2. a \in Seq(Nat) /\ \A r \in Seq(Nat) : ReadList(a \o r, ReadCircle) = [value |-> o.groups, rest |-> r]
  BY <1>1, CirclesRead
<1>3. b \in Seq(Nat) /\ \A r \in Seq(Nat) : ReadList(b \o r, ReadCircle) = [value |-> o.mines, rest |-> r]
  BY <1>1, CirclesRead
<1>4. c \in Seq(Nat) /\ \A r \in Seq(Nat) : ReadList(c \o r, ReadPlayer) = [value |-> o.players, rest |-> r]
  BY <1>1, PlayersRead
<1>5. d \in Seq(Nat) /\ \A r \in Seq(Nat) : ReadList(d \o r, ReadMembers) = [value |-> o.members, rest |-> r]
  BY <1>1, MembersRead
<1>6. e \in Seq(Nat) /\ \A r \in Seq(Nat) : ReadList(e \o r, ReadCounts) = [value |-> o.counts, rest |-> r]
  BY <1>1, CountsRead
<1>7. WriteObject(o) = (((a \o b) \o c) \o d) \o e
  BY Zenon DEF WriteObject, WriteGroups, WriteResources
<1> HIDE DEF a, b, c, d, e
<1>8. /\ (((a \o b) \o c) \o d) \o e \in Seq(Nat)
      /\ words = a \o afterGroups
      /\ afterMembers \in Seq(Nat) /\ afterPlayers \in Seq(Nat)
      /\ afterMines \in Seq(Nat) /\ afterGroups \in Seq(Nat)
  <2>1. FiveInARow(a, b, c, d, e, q)
    BY <1>2, <1>3, <1>4, <1>5, <1>6, AllInARow, Zenon
  <2> QED
    BY <2>1, Zenon DEF FiveInARow
<1> DEFINE groups == ReadList(words, ReadCircle)
           mines == ReadList(groups.rest, ReadCircle)
           players == ReadList(mines.rest, ReadPlayer)
           members == ReadGroups(players.rest)
           counts == ReadResources(members.rest)
<1>9. groups = [value |-> o.groups, rest |-> afterGroups]
  BY <1>2, <1>8, Zenon
<1>10. mines = [value |-> o.mines, rest |-> afterMines]
  <2>1. groups.rest = b \o afterMines
    BY <1>9
  <2> QED
    BY <1>3, <1>8, <2>1, Zenon
<1>11. players = [value |-> o.players, rest |-> afterPlayers]
  <2>1. mines.rest = c \o afterPlayers
    BY <1>10
  <2> QED
    BY <1>4, <1>8, <2>1, Zenon
<1>12. members = [value |-> o.members, rest |-> afterMembers]
  <2>1. players.rest = d \o afterMembers
    BY <1>11
  <2> QED
    BY <1>5, <1>8, <2>1, Zenon DEF ReadGroups
<1>13. counts = [value |-> o.counts, rest |-> q]
  <2>1. members.rest = e \o q
    BY <1>12
  <2> QED
    BY <1>6, <2>1, Zenon DEF ReadResources
<1>14. ReadObject(words) =
         [value |-> [groups |-> groups.value, mines |-> mines.value, players |-> players.value,
                     members |-> members.value, counts |-> counts.value],
          rest |-> counts.rest]
  BY Zenon DEF ReadObject
<1>15. ReadObject(words) = [value |-> o, rest |-> q]
  <2> HIDE DEF groups, mines, players, members, counts
  <2> QED
    BY <1>1, <1>9, <1>10, <1>11, <1>12, <1>13, <1>14
<1> QED
  BY <1>7, <1>8, <1>15, Zenon DEF ObjectBack

EventBack(list, q) ==
  /\ WriteEvent(list) \in Seq(Nat)
  /\ ReadEvent(WriteEvent(list) \o q) = [value |-> list, rest |-> q]

\* GameStateEvent.
LEMMA EventReads == ASSUME NEW list \in Seq(Pairs), NEW q \in Seq(Nat) PROVE EventBack(list, q)
BY PairsRead DEF EventBack, WriteEvent, ReadEvent

Cores == [tick : Nat, status : {"not_started", "playing", "game_over"}, winner : Nat]

\* GameStateCore; the status is its place in the enumeration.
LEMMA CoreReads ==
  ASSUME NEW core \in Cores
  PROVE  WriteCore(core) \in Seq(Nat) /\ ReadCore(WriteCore(core)).value = core
<1>1. /\ core.tick \in Nat /\ core.status \in {"not_started", "playing", "game_over"}
      /\ core.winner \in Nat
      /\ core = [tick |-> core.tick, status |-> core.status, winner |-> core.winner]
  BY DEF Cores
<1> DEFINE i == CHOOSE j \in 1 .. 3 : GameStatuses[j] = core.status
<1>2. GameStatuses[1] = "not_started" /\ GameStatuses[2] = "playing" /\ GameStatuses[3] = "game_over"
  BY DEF GameStatuses
<1>3. i \in 1 .. 3 /\ GameStatuses[i] = core.status
  <2>1. \E j \in 1 .. 3 : GameStatuses[j] = core.status
    BY <1>1, <1>2
  <2> QED
    BY <2>1
<1>4. WriteCore(core) = <<core.tick, i - 1, core.winner>>
  BY DEF WriteCore
<1> HIDE DEF i
<1>5. i - 1 \in Nat /\ (i - 1) + 1 = i
  BY <1>3
<1> DEFINE words == <<core.tick, i - 1, core.winner>>
<1>6. words \in Seq(Nat)
  BY <1>1, <1>5
<1>7. words[1] = core.tick /\ words[2] = i - 1 /\ words[3] = core.winner
  OBVIOUS
<1> HIDE DEF words
<1>8. ReadCore(words).value =
        [tick |-> words[1], status |-> GameStatuses[words[2] + 1], winner |-> words[3]]
  BY DEF ReadCore
<1>9. ReadCore(words).value = core
  <2>1. words[2] + 1 = i
    BY <1>5, <1>7
  <2>2. GameStatuses[words[2] + 1] = core.status
    BY <1>3, <2>1
  <2> QED
    BY <1>1, <1>7, <1>8, <2>2
<1> QED
  BY <1>4, <1>6, <1>9, Zenon DEF words

GameStates == [object : ObjectStates, event : Seq(Pairs), core : Cores]

\* GameState's operators << and >>.
LEMMA StateReads ==
  ASSUME NEW state \in GameStates
  PROVE  /\ WriteGameState(state) \in Seq(Nat)
         /\ ReadGameState(WriteGameState(state)) = state
<1>1. /\ state.object \in ObjectStates /\ state.event \in Seq(Pairs) /\ state.core \in Cores
      /\ state = [object |-> state.object, event |-> state.event, core |-> state.core]
  BY DEF GameStates
<1> DEFINE a == WriteObject(state.object)
           b == WriteEvent(state.event)
           c == WriteCore(state.core)
           words == (a \o b) \o c
           object == ReadObject(words)
           event == ReadEvent(object.rest)
           core == ReadCore(event.rest)
<1>2. /\ a \in Seq(Nat)
      /\ \A r \in Seq(Nat) : ReadObject(a \o r) = [value |-> state.object, rest |-> r]
  <2> DEFINE o == state.object
  <2>1. o \in ObjectStates
    BY <1>1
  <2> HIDE DEF o
  <2>2. \A r \in Seq(Nat) : ObjectBack(o, r)
    BY <2>1, ObjectReads, Zenon
  <2>3. <<>> \in Seq(Nat)
    OBVIOUS
  <2> QED
    BY <2>2, <2>3, Zenon DEF ObjectBack, o
<1>3. /\ b \in Seq(Nat)
      /\ \A r \in Seq(Nat) : ReadEvent(b \o r) = [value |-> state.event, rest |-> r]
  <2> DEFINE list == state.event
  <2>1. list \in Seq(Pairs)
    BY <1>1
  <2> HIDE DEF list
  <2>2. \A r \in Seq(Nat) : EventBack(list, r)
    BY <2>1, EventReads, Zenon
  <2>3. <<>> \in Seq(Nat)
    OBVIOUS
  <2> QED
    BY <2>2, <2>3, Zenon DEF EventBack, list
<1>4. c \in Seq(Nat) /\ ReadCore(c).value = state.core
  BY <1>1, CoreReads
<1>5. WriteGameState(state) = words
  BY Zenon DEF WriteGameState
<1> HIDE DEF a, b, c
<1>6. \A x, y \in Seq(Nat) : x \o y \in Seq(Nat)
  OBVIOUS
<1>7. b \o c \in Seq(Nat) /\ a \o b \in Seq(Nat)
  BY <1>2, <1>3, <1>4, <1>6, Zenon
<1>8. words \in Seq(Nat)
  BY <1>4, <1>6, <1>7, Zenon
<1>9. words = a \o (b \o c)
  BY <1>2, <1>3, <1>4, Regrouped, Zenon
<1> HIDE DEF words
<1>10. object = [value |-> state.object, rest |-> b \o c]
  BY <1>2, <1>7, <1>9, Zenon
<1>11. event = [value |-> state.event, rest |-> c]
  <2>1. object.rest = b \o c
    BY <1>10
  <2> QED
    BY <1>3, <1>4, <2>1, Zenon
<1>12. core.value = state.core
  <2>1. event.rest = c
    BY <1>11
  <2> QED
    BY <1>4, <2>1, Zenon
<1>13. ReadGameState(words) = [object |-> object.value, event |-> event.value, core |-> core.value]
  BY Zenon DEF ReadGameState
<1>14. ReadGameState(words) = state
  <2> HIDE DEF object, event, core
  <2> QED
    BY <1>1, <1>10, <1>11, <1>12, <1>13
<1> QED
  BY <1>5, <1>8, <1>14, Zenon

(***************************************************************************)
(* What the server publishes.                                              *)
(***************************************************************************)
\* SetToSeq is one of SetToSeqs.
LEMMA ListsAll ==
  ASSUME NEW S, IsFiniteSet(S)
  PROVE  \E n \in Nat : /\ SetToSeq(S) \in [1 .. n -> S]
                        /\ \A x \in S : \E i \in 1 .. n : SetToSeq(S)[i] = x
<1> DEFINE D == 1 .. Cardinality(S)
<1>1. \E f \in [D -> S] : IsInjective(f)
  <2>1. Bijection(D, S) # {}
    BY FS_CardinalityType DEF ExistsBijection
  <2> QED
    BY <2>1 DEF Bijection, Injection
<1>2. SetToSeq(S) \in [D -> S] /\ IsInjective(SetToSeq(S))
  BY <1>1, Zenon DEF SetToSeq
<1>3. SetToSeq(S) \in SetToSeqs(S)
  BY <1>2 DEF SetToSeqs, IsInjective
<1> QED
  BY <1>3, SeqsOf

\* Ids are numbers, and the lists have one entry for each id.
LEMMA IdsAreNumbers ==
  /\ Players \subseteq Nat /\ GroupIds \subseteq Nat /\ Keys \subseteq Nat /\ MineIds \subseteq Nat
  /\ Holders \subseteq Nat
  /\ \A i \in 1 .. MaxPlayerCount :
       i - 1 \in Players /\ OffsetValue + i - 1 \in GroupIds
  /\ \A i \in 1 .. MaxMineCount : 2 * OffsetValue + i - 1 \in MineIds
  /\ \A p \in Players : p + 1 \in 1 .. MaxPlayerCount /\ (p + 1) - 1 = p
  /\ MaxPlayerCount \in Nat /\ MaxMineCount \in Nat
  /\ IsFiniteSet(Players) /\ IsFiniteSet(Keys) /\ IsFiniteSet(Holders)
<1>1. IsFiniteSet(Players)
  BY CountsAssumption, FS_Interval DEF Players
<1>2. IsFiniteSet(Keys)
  <2> DEFINE a == OffsetValue
             b == OffsetValue + MaxPlayerCount - 1
  <2>1. a \in Int /\ b \in Int /\ GroupIds = a .. b
    BY CountsAssumption DEF GroupIds
  <2> HIDE DEF a, b
  <2>2. IsFiniteSet(GroupIds)
    BY <2>1, FS_Interval
  <2> QED
    BY <2>2, FS_AddElement DEF Keys
<1>3. IsFiniteSet(Holders)
  BY HolderFacts
<1>4. \A i \in 1 .. MaxMineCount : 2 * OffsetValue + i - 1 \in MineIds
  BY CountsAssumption, ResourcesAssumption DEF MineIds
<1>5. MineIds \subseteq Nat
  BY CountsAssumption, ResourcesAssumption DEF MineIds
<1>6. Players \subseteq Nat /\ GroupIds \subseteq Nat /\ Keys \subseteq Nat
  BY CountsAssumption DEF Players, GroupIds, Keys, DefaultId
<1> QED
  BY <1>1, <1>2, <1>3, <1>4, <1>5, <1>6, CountsAssumption, ResourcesAssumption
     DEF Players, GroupIds, Holders

\* A goal is a number of each type, since there are two types or more.
LEMMA GoalAmounts == \A t \in ResourceTypes : Goal(t) \in Amounts
<1> DEFINE r == ResourceTypeCount
           q == TotalRequirements \div ResourceTypeCount
           main == q * 2
<1>1. r \in Nat /\ r > 1 /\ TotalRequirements \in Nat
  BY ResourcesAssumption
<1>2. q \in Nat /\ r * q <= TotalRequirements
  BY <1>1
<1> HIDE DEF q, r
<1>3. 2 * q <= r * q
  BY <1>1, <1>2
<1>4. main \in Nat /\ TotalRequirements - main \in Nat
  <2>1. r * q \in Nat
    BY <1>1, <1>2
  <2> QED
    BY <1>1, <1>2, <1>3, <2>1
<1> HIDE DEF main
<1>5. (TotalRequirements - main) \div (r - 1) \in Nat
  <2>1. \A x, y \in Nat : y > 0 => x \div y \in Nat
    OBVIOUS
  <2>2. r - 1 \in Nat /\ r - 1 > 0
    BY <1>1
  <2> QED
    BY <1>4, <2>1, <2>2
<1> QED
  BY <1>4, <1>5 DEF Goal, Amounts, ResourceTypes, main, q, r

LEMMA BodiesArePairs == Bodies \subseteq Pairs
BY IdsAreNumbers DEF Bodies, Pairs

MemberEntries ==
  {[id |-> k, players |-> SetToSeq(m_groupToPlayers[k])] :
     k \in {k \in Keys : m_groupToPlayers[k] # {}}}

CountEntries == {[id |-> h, counts |-> m_resourceCounts[h]] : h \in HoldersListed}

\* The groups as GroupController::getUpdate lists them.
LEMMA MembersListed ==
  ASSUME ObjectIInv
  PROVE  /\ IsFiniteSet(MemberEntries) /\ MemberEntries \subseteq MemberUpdates
         /\ \A k \in Keys : Range(SetToSeq(m_groupToPlayers[k])) = m_groupToPlayers[k]
<1>1. ASSUME NEW k \in Keys
      PROVE  /\ SetToSeq(m_groupToPlayers[k]) \in Seq(Nat)
             /\ Range(SetToSeq(m_groupToPlayers[k])) = m_groupToPlayers[k]
  <2>1. m_groupToPlayers[k] \in SUBSET Players
    BY DEF ObjectIInv, IInv, TypeOK
  <2>2. IsFiniteSet(m_groupToPlayers[k])
    BY <2>1, IdsAreNumbers, FS_Subset
  <2> DEFINE S == m_groupToPlayers[k]
  <2> HIDE DEF S
  <2>3. PICK n \in Nat : /\ SetToSeq(S) \in [1 .. n -> S]
                         /\ \A x \in S : \E i \in 1 .. n : SetToSeq(S)[i] = x
    BY <2>2, ListsAll DEF S
  <2> DEFINE list == SetToSeq(S)
  <2>4. S \subseteq Nat
    BY <2>1, IdsAreNumbers DEF S
  <2> HIDE DEF list
  <2>5. list \in [1 .. n -> S] /\ \A x \in S : \E i \in 1 .. n : list[i] = x
    BY <2>3 DEF list
  <2>6. list \in Seq(Nat)
    <3>1. list \in [1 .. n -> Nat]
      BY <2>4, <2>5
    <3> QED
      BY <3>1
  <2>7. Range(list) = S
    BY <2>5 DEF Range
  <2> QED
    BY <2>6, <2>7 DEF list, S
<1> DEFINE T == {k \in Keys : m_groupToPlayers[k] # {}}
<1>2. IsFiniteSet(T)
  BY IdsAreNumbers, FS_Subset
<1>3. IsFiniteSet(MemberEntries)
  <2> DEFINE f == [k \in T |-> [id |-> k, players |-> SetToSeq(m_groupToPlayers[k])]]
  <2>1. f \in Surjection(T, MemberEntries)
    BY DEF Surjection, MemberEntries
  <2> HIDE DEF f, T
  <2> QED
    BY <1>2, <2>1, FS_Surjection
<1>4. MemberEntries \subseteq MemberUpdates
  BY <1>1, IdsAreNumbers DEF MemberEntries, MemberUpdates
<1> QED
  BY <1>1, <1>3, <1>4

\* The counts as ResourceController::getUpdate lists them.
LEMMA CountsListed ==
  ASSUME ObjectIInv
  PROVE  IsFiniteSet(CountEntries) /\ CountEntries \subseteq CountUpdates
<1>1. HoldersListed \subseteq Holders
  BY DEF HoldersListed, Holders
<1>2. IsFiniteSet(HoldersListed)
  BY <1>1, IdsAreNumbers, FS_Subset
<1>3. IsFiniteSet(CountEntries)
  <2> DEFINE f == [h \in HoldersListed |-> [id |-> h, counts |-> m_resourceCounts[h]]]
  <2>1. f \in Surjection(HoldersListed, CountEntries)
    BY DEF Surjection, CountEntries
  <2> HIDE DEF f
  <2> QED
    BY <1>2, <2>1, FS_Surjection
<1>4. \A h \in Holders : m_resourceCounts[h] \in Amounts
  BY CountsFacts DEF Held, Amounts, ResourceTypes
<1>5. CountEntries \subseteq CountUpdates
  BY <1>1, <1>4, IdsAreNumbers DEF CountEntries, CountUpdates
<1> QED
  BY <1>3, <1>5

\* Whatever the server publishes can be written.
LEMMA ObjectTyped ==
  ASSUME ObjectIInv
  PROVE  GameStateObject \in ObjectStates
<1>1. \A S : \A n \in Nat : \A list \in [1 .. n -> S] : list \in Seq(S)
  OBVIOUS
<1>2. /\ groupActive \in [GroupIds -> BOOLEAN] /\ playerActive \in [Players -> BOOLEAN]
      /\ joinable \in [Players -> BOOLEAN] /\ ungroup \in [Players -> BOOLEAN]
  BY DEF ObjectIInv, IInv, TypeOK
<1>3. \A p \in Players : goals[p] \in Amounts
  BY GoalAmounts DEF ObjectIInv, ServerStateOK
<1>4. [i \in 1 .. MaxPlayerCount |-> GroupUpdate(OffsetValue + i - 1)]
        \in [1 .. MaxPlayerCount -> CircleUpdates]
  BY <1>2, IdsAreNumbers DEF GroupUpdate, CircleUpdates
<1>5. [i \in 1 .. MaxMineCount |-> MineUpdate(2 * OffsetValue + i - 1)]
        \in [1 .. MaxMineCount -> CircleUpdates]
  BY IdsAreNumbers DEF MineUpdate, CircleUpdates
<1>6. [i \in 1 .. MaxPlayerCount |-> PlayerUpdate(i - 1)] \in [1 .. MaxPlayerCount -> PlayerUpdates]
  BY <1>2, <1>3, IdsAreNumbers DEF PlayerUpdate, PlayerUpdates
<1>7. SetToSeq(MemberEntries) \in Seq(MemberUpdates)
  <2>1. PICK n \in Nat : SetToSeq(MemberEntries) \in [1 .. n -> MemberEntries]
    BY MembersListed, ListsAll
  <2>2. SetToSeq(MemberEntries) \in [1 .. n -> MemberUpdates]
    BY <2>1, MembersListed
  <2> QED
    BY <1>1, <2>2, Zenon
<1>8. SetToSeq(CountEntries) \in Seq(CountUpdates)
  <2>1. PICK n \in Nat : SetToSeq(CountEntries) \in [1 .. n -> CountEntries]
    BY CountsListed, ListsAll
  <2>2. SetToSeq(CountEntries) \in [1 .. n -> CountUpdates]
    BY <2>1, CountsListed
  <2> QED
    BY <1>1, <2>2, Zenon
<1> DEFINE groupList == [i \in 1 .. MaxPlayerCount |-> GroupUpdate(OffsetValue + i - 1)]
           mineList == [i \in 1 .. MaxMineCount |-> MineUpdate(2 * OffsetValue + i - 1)]
           playerList == [i \in 1 .. MaxPlayerCount |-> PlayerUpdate(i - 1)]
           memberList == SetToSeq(MemberEntries)
           countList == SetToSeq(CountEntries)
<1>9. GameStateObject = [groups |-> groupList, mines |-> mineList, players |-> playerList,
                         members |-> memberList, counts |-> countList]
  BY Zenon DEF GameStateObject, MemberEntries, CountEntries
<1>10. /\ groupList \in Seq(CircleUpdates) /\ mineList \in Seq(CircleUpdates)
       /\ playerList \in Seq(PlayerUpdates)
  BY <1>1, <1>4, <1>5, <1>6, IdsAreNumbers, Zenon
<1> HIDE DEF groupList, mineList, playerList, memberList, countList
<1> QED
  BY <1>7, <1>8, <1>9, <1>10 DEF ObjectStates, memberList, countList

LEMMA SameObject ==
  ASSUME UNCHANGED <<vars, m_resourceCounts, goals>>
  PROVE  GameStateObject' = GameStateObject
<1>1. /\ UNCHANGED <<m_groupToPlayers, playerActive, joinable, ungroup, groupActive>>
      /\ UNCHANGED <<m_resourceCounts, goals>>
  BY DEF vars, flags
<1>2. HoldersListed' = HoldersListed
  BY <1>1, Zenon DEF HoldersListed
<1> QED
  BY <1>1, <1>2, Zenon DEF GameStateObject, GroupUpdate, MineUpdate, PlayerUpdate

\* What is read of the packet that a step publishes.
LEMMA Publishes ==
  ASSUME ObjectIInv, ObjectIInv', collisions \in Seq(Bodies), PostUpdate
  PROVE  /\ packet' \in Seq(Nat)
         /\ ReadGameState(packet') =
              [object |-> GameStateObject', event |-> collisions, core |-> GameStateCore']
<1> DEFINE object == GameStateObject
           core == GameStateCore'
           state == [object |-> object, event |-> collisions, core |-> core]
<1>1. object \in ObjectStates /\ object = GameStateObject'
  <2>1. UNCHANGED <<vars, m_resourceCounts, goals>>
    BY DEF PostUpdate
  <2> QED
    BY <2>1, ObjectTyped, SameObject
<1>2. core \in Cores
  <2>1. status' \in {"playing", "game_over"} /\ winner' \in Players
    BY DEF ObjectIInv, ServerStateOK
  <2> QED
    BY <2>1, IdsAreNumbers DEF GameStateCore, Cores
<1>3. packet' = WriteGameState(state)
  BY Zenon DEF PostUpdate
<1>4. collisions \in Seq(Pairs)
  BY BodiesArePairs
<1> HIDE DEF object, core
<1>5. state \in GameStates
  BY <1>1, <1>2, <1>4 DEF GameStates
<1> HIDE DEF state
<1>6. WriteGameState(state) \in Seq(Nat) /\ ReadGameState(WriteGameState(state)) = state
  BY <1>5, StateReads
<1> QED
  BY <1>1, <1>3, <1>6, Zenon DEF state, core

(***************************************************************************)
(* Between the inputs of one step and those of the next groups close and   *)
(* merge, and none becomes joinable: a collision that was handled once     *)
(* changes nothing when it comes again.                                    *)
(***************************************************************************)

\* No group becomes joinable.
NothingOpens == \A g \in GroupIds : IsJoinable(g)' => IsJoinable(g)

\* Without inputs an update only closes groups.
LEMMA UpdateOpensNothing ==
  ASSUME IInv, NEW toggledUngroup, Update({}, toggledUngroup)
  PROVE  NothingOpens
<1>1. PICK candidates \in SUBSET Players :
        \E leavers \in SUBSET candidates : \E newGroup :
          /\ MoveOut(leavers, newGroup)
          /\ ResetFlags(candidates, Toggle(joinable, {}), Toggle(ungroup, toggledUngroup))
  BY UpdateMoves
<1>2. ASSUME NEW g \in GroupIds, NEW p \in m_groupToPlayers'[g], joinable'[p]
      PROVE  p \in m_groupToPlayers[g] /\ joinable[p]
  <2>1. IInv'
    BY UpdateInv
  <2>2. g \in Keys /\ p \in Players
    BY <2>1, IdFacts DEF IInv, TypeOK
  <2>3. joinable[p] /\ p \notin candidates
    BY <1>1, <1>2, <2>2 DEF ResetFlags, Toggle
  <2>4. PICK leavers \in SUBSET candidates : \E newGroup : MoveOut(leavers, newGroup)
    BY <1>1
  <2>5. g \in Keys
    BY IdFacts
  <2> QED
    BY <1>2, <2>2, <2>3, <2>4, <2>5 DEF MoveOut
<1> QED
  BY <1>2 DEF NothingOpens, IsJoinable

\* A merge empties one of two open groups, so the two do not merge again.
LEMMA JoinOpensNothing ==
  ASSUME IInv, NEW a \in Active, NEW b \in Active \ {a}, JoinGroups(a, b)
  PROVE  NothingOpens /\ ~ (IsJoinable(a)' /\ IsJoinable(b)')
<1>1. a \in GroupIds /\ b \in GroupIds /\ a \in Keys /\ b \in Keys /\ a # b
  BY IdFacts DEF Active
<1>2. UNCHANGED joinable
  BY DEF JoinGroups, flags
<1>3. m_groupToPlayers \in [Keys -> SUBSET Players] /\ GroupIds \subseteq Keys
  BY IdFacts DEF IInv, TypeOK
<1>4. CASE IsJoinable(a) /\ IsJoinable(b)
  <2>1. PICK from \in {a, b}, to \in {a, b} :
           /\ from # to
           /\ m_groupToPlayers' =
                [m_groupToPlayers EXCEPT ![to] = m_groupToPlayers[to] \cup m_groupToPlayers[from],
                                         ![from] = {}]
    BY <1>1, <1>4 DEF JoinGroups
  <2>2. m_groupToPlayers'[from] = {}
    BY <1>1, <1>3, <2>1
  <2>3. IsJoinable(from) /\ IsJoinable(to)
    BY <1>4
  <2>4. \A g \in GroupIds : g \notin {from, to} => m_groupToPlayers'[g] = m_groupToPlayers[g]
    BY <1>1, <1>3, <2>1
  <2>5. ~ IsJoinable(from)'
    BY <2>2 DEF IsJoinable
  <2>6. NothingOpens
    BY <1>2, <2>1, <2>3, <2>4, <2>5 DEF NothingOpens, IsJoinable
  <2> QED
    BY <2>1, <2>5, <2>6
<1>5. CASE ~ (IsJoinable(a) /\ IsJoinable(b))
  <2>1. UNCHANGED m_groupToPlayers
    BY <1>5 DEF JoinGroups
  <2> QED
    BY <1>2, <1>5, <2>1 DEF NothingOpens, IsJoinable
<1> QED
  BY <1>4, <1>5

\* A player that leaves opens nothing.
LEMMA RemoveOpensNothing ==
  ASSUME IInv, NEW p \in Players, RemovePlayer(p)
  PROVE  NothingOpens
<1>1. UNCHANGED joinable
  BY DEF RemovePlayer, flags
<1>2. \A g \in GroupIds : m_groupToPlayers'[g] \subseteq m_groupToPlayers[g]
  BY IdFacts DEF RemovePlayer, IInv, TypeOK
<1> QED
  BY <1>1, <1>2 DEF NothingOpens, IsJoinable

\* A new player is in a group as one that is not joinable.
LEMMA CreateOpensNothing ==
  ASSUME IInv, NewcomersClosed, CreatePlayerWithGroup
  PROVE  NothingOpens
<1>1. UNCHANGED joinable
  BY DEF CreatePlayerWithGroup, flags
<1>2. CASE UNCHANGED m_groupToPlayers
  BY <1>1, <1>2 DEF NothingOpens, IsJoinable
<1>3. CASE ~ UNCHANGED m_groupToPlayers
  <2> DEFINE player == nextPlayerIndex
             group == OffsetValue + nextGroupIndex
  <2>1. /\ nextPlayerIndex < MaxPlayerCount
        /\ m_groupToPlayers' = [m_groupToPlayers EXCEPT ![group] = @ \cup {player}]
    BY <1>3, CountsAssumption DEF CreatePlayerWithGroup, IInv, TypeOK
  <2>2. player \in Players /\ player >= nextPlayerIndex
    BY <2>1, CountsAssumption, IdFacts DEF IInv, TypeOK
  <2>3. ~ joinable[player]
    BY <2>2 DEF NewcomersClosed
  <2> HIDE DEF player, group
  <2>4. \A g \in GroupIds : m_groupToPlayers'[g] \subseteq m_groupToPlayers[g] \cup {player}
    BY <2>1, IdFacts DEF IInv, TypeOK
  <2> QED
    BY <1>1, <2>3, <2>4 DEF NothingOpens, IsJoinable
<1> QED
  BY <1>2, <1>3

\* Only a player that was created toggles its flag.
LEMMA KeepsNewcomersClosed ==
  ASSUME ObjectIInv, NewcomersClosed, [ObjectNext]_objectVars
  PROVE  NewcomersClosed'
<1>0. IInv /\ joinable \in [Players -> BOOLEAN] /\ nextPlayerIndex \in Nat
  BY CountsAssumption DEF ObjectIInv, IInv, TypeOK
<1>1. ASSUME NEW toggledJoinable \in SUBSET Commanded, NEW toggledUngroup \in SUBSET Commanded,
             Update(toggledJoinable, toggledUngroup)
      PROVE  NewcomersClosed'
  <2>1. UNCHANGED nextPlayerIndex
    BY <1>1 DEF Update, counters
  <2>2. PICK candidates :
          ResetFlags(candidates, Toggle(joinable, toggledJoinable), Toggle(ungroup, toggledUngroup))
    BY <1>0, <1>1, UpdateMoves
  <2>3. \A p \in Players : p >= nextPlayerIndex => p \notin toggledJoinable
    <3>1. \A p \in Players : p \in Nat
      BY IdFacts
    <3> QED
      BY <1>0, <1>1, <3>1 DEF Commanded
  <2> QED
    BY <2>1, <2>2, <2>3 DEF NewcomersClosed, ResetFlags, Toggle
<1>2. CASE UNCHANGED joinable /\ nextPlayerIndex' >= nextPlayerIndex /\ nextPlayerIndex' \in Nat
  <2>1. \A p \in Players : p \in Nat
    BY IdFacts
  <2> QED
    BY <1>0, <1>2, <2>1 DEF NewcomersClosed
<1>3. CASE CreatePlayerWithGroup
  <2>1. UNCHANGED joinable /\ nextPlayerIndex' = nextPlayerIndex + 1
    BY <1>3 DEF CreatePlayerWithGroup, flags
  <2> QED
    BY <1>0, <1>2, <2>1
<1>4. CASE UNCHANGED <<joinable, nextPlayerIndex>>
  BY <1>0, <1>2, <1>4
<1>5. [Next]_vars
  BY StepImplementsGroups
<1> QED
  BY <1>1, <1>3, <1>4, <1>5
     DEF Next, JoinGroups, RemovePlayer, Terminated, vars, flags, counters

(***************************************************************************)
(* What a client makes of the lists it is sent.                            *)
(***************************************************************************)
\* GroupController::applyUpdate at the client makes the server's two maps.
LEMMA AppliesGroups ==
  ASSUME ObjectIInv, ApplyGroups(GameStateObject.members)
  PROVE  clientGroups' = m_groupToPlayers /\ clientPlayerToGroup' = m_playerToGroup
<1> DEFINE list == SetToSeq(MemberEntries)
<1>1. GameStateObject.members = list
  BY DEF GameStateObject, MemberEntries
<1>2. PICK n \in Nat : /\ list \in [1 .. n -> MemberEntries]
                       /\ \A e \in MemberEntries : \E i \in 1 .. n : list[i] = e
  BY MembersListed, ListsAll
<1>3. /\ clientGroups' = [k \in Keys |-> UNION {Range(list[i].players) : i \in Listed(list, k)}]
      /\ clientPlayerToGroup' =
           [p \in Players |->
              IF \E i \in DOMAIN list : p \in Range(list[i].players)
              THEN list[CHOOSE i \in DOMAIN list : p \in Range(list[i].players)].id ELSE Absent]
  BY <1>1, Zenon DEF ApplyGroups
<1> HIDE DEF list
<1>4. DOMAIN list = 1 .. n
  BY <1>2
<1>5. ASSUME NEW i \in 1 .. n
      PROVE  /\ list[i].id \in Keys
             /\ Range(list[i].players) = m_groupToPlayers[list[i].id]
  <2>1. PICK k \in Keys : list[i] = [id |-> k, players |-> SetToSeq(m_groupToPlayers[k])]
    BY <1>2 DEF MemberEntries
  <2>2. Range(SetToSeq(m_groupToPlayers[k])) = m_groupToPlayers[k]
    BY MembersListed
  <2> QED
    BY <2>1, <2>2
<1>6. ASSUME NEW k \in Keys, m_groupToPlayers[k] # {}
      PROVE  \E i \in 1 .. n : list[i].id = k
  <2>1. [id |-> k, players |-> SetToSeq(m_groupToPlayers[k])] \in MemberEntries
    BY <1>6 DEF MemberEntries
  <2> QED
    BY <1>2, <2>1
<1>7. /\ m_groupToPlayers \in [Keys -> SUBSET Players]
      /\ m_playerToGroup \in [Players -> Keys \cup {Absent}]
      /\ MembershipConsistent
  BY DEF ObjectIInv, IInv, TypeOK
<1>8. ASSUME NEW k \in Keys
      PROVE  UNION {Range(list[i].players) : i \in Listed(list, k)} = m_groupToPlayers[k]
  <2>1. Listed(list, k) = {i \in 1 .. n : list[i].id = k}
    BY <1>4 DEF Listed
  <2>2. \A i \in Listed(list, k) : Range(list[i].players) = m_groupToPlayers[k]
    BY <1>5, <2>1
  <2>3. m_groupToPlayers[k] # {} => Listed(list, k) # {}
    BY <1>6, <2>1
  <2> QED
    BY <2>2, <2>3
<1>9. clientGroups' = m_groupToPlayers
  BY <1>3, <1>7, <1>8
<1>10. ASSUME NEW p \in Players
       PROVE  clientPlayerToGroup'[p] = m_playerToGroup[p]
  <2>1. CASE \E i \in 1 .. n : p \in Range(list[i].players)
    <3> DEFINE at == CHOOSE i \in DOMAIN list : p \in Range(list[i].players)
    <3>1. at \in 1 .. n /\ p \in Range(list[at].players)
      BY <1>4, <2>1
    <3>2. clientPlayerToGroup'[p] = list[at].id
      BY <1>3, <1>4, <2>1
    <3> HIDE DEF at
    <3>3. list[at].id \in Keys /\ p \in m_groupToPlayers[list[at].id]
      BY <1>5, <3>1
    <3> QED
      BY <1>7, <3>2, <3>3 DEF MembershipConsistent
  <2>2. CASE ~ \E i \in 1 .. n : p \in Range(list[i].players)
    <3>1. clientPlayerToGroup'[p] = Absent
      BY <1>3, <1>4, <2>2
    <3>2. ASSUME m_playerToGroup[p] # Absent
          PROVE  FALSE
      <4>1. PICK k \in Keys : k = m_playerToGroup[p]
        BY <1>7, <3>2
      <4>2. p \in m_groupToPlayers[k]
        BY <1>7, <4>1 DEF MembershipConsistent
      <4>3. PICK i \in 1 .. n : list[i].id = k
        BY <1>6, <4>2
      <4> QED
        BY <1>5, <2>2, <4>2, <4>3
    <3> QED
      BY <3>1, <3>2
  <2> QED
    BY <2>1, <2>2
<1>11. clientPlayerToGroup' = m_playerToGroup
  <2>1. clientPlayerToGroup' = [p \in Players |-> clientPlayerToGroup'[p]]
    BY <1>3
  <2> QED
    BY <1>7, <1>10, <2>1
<1> QED
  BY <1>9, <1>11

\* ResourceController::applyUpdate makes the server's counts.
LEMMA AppliesCounts ==
  ASSUME ObjectIInv, ApplyCounts(GameStateObject.counts)
  PROVE  clientCounts' = m_resourceCounts
<1> DEFINE list == SetToSeq(CountEntries)
<1>1. GameStateObject.counts = list
  BY DEF GameStateObject, CountEntries
<1>2. PICK n \in Nat : /\ list \in [1 .. n -> CountEntries]
                       /\ \A e \in CountEntries : \E i \in 1 .. n : list[i] = e
  BY CountsListed, ListsAll
<1>3. clientCounts' =
        [h \in Holders |-> IF Listed(list, h) = {} THEN NoCounts[h]
                           ELSE list[CHOOSE i \in Listed(list, h) : TRUE].counts]
  BY <1>1 DEF ApplyCounts
<1> HIDE DEF list
<1>4. \A h : Listed(list, h) = {i \in 1 .. n : list[i].id = h}
  BY <1>2 DEF Listed
<1>5. \A i \in 1 .. n : list[i].counts = m_resourceCounts[list[i].id]
  BY <1>2 DEF CountEntries
<1>6. \A h \in HoldersListed : \E i \in 1 .. n : list[i].id = h
  <2>1. ASSUME NEW h \in HoldersListed
        PROVE  \E i \in 1 .. n : list[i].id = h
    <3>1. [id |-> h, counts |-> m_resourceCounts[h]] \in CountEntries
      BY DEF CountEntries
    <3> QED
      BY <1>2, <3>1
  <2> QED
    BY <2>1
<1>7. ASSUME NEW h \in Holders
      PROVE  clientCounts'[h] = m_resourceCounts[h]
  <2>1. CASE Listed(list, h) = {}
    <3>1. h \in Players /\ m_resourceCounts[h] = NoCounts[h]
      <4>1. h \notin HoldersListed
        BY <1>4, <1>6, <2>1
      <4> QED
        BY <4>1 DEF HoldersListed, Holders
    <3> QED
      BY <1>3, <2>1, <3>1
  <2>2. CASE Listed(list, h) # {}
    <3> DEFINE at == CHOOSE i \in Listed(list, h) : TRUE
    <3>1. at \in Listed(list, h)
      BY <2>2
    <3>2. clientCounts'[h] = list[at].counts
      BY <1>3, <2>2
    <3> HIDE DEF at
    <3> QED
      BY <1>4, <1>5, <3>1, <3>2
  <2> QED
    BY <2>1, <2>2
<1>8. m_resourceCounts = [h \in Holders |-> m_resourceCounts[h]]
  BY DEF ObjectIInv, ServerStateOK, Counts
<1>9. clientCounts' = [h \in Holders |-> clientCounts'[h]]
  BY <1>3
<1> QED
  BY <1>7, <1>8, <1>9

LEMMA AppliesPlayers ==
  ASSUME ObjectIInv, ApplyPlayers(GameStateObject.players)
  PROVE  clientJoinable' = joinable
<1>1. ASSUME NEW p \in Players
      PROVE  GameStateObject.players[p + 1].joinable = joinable[p]
  <2> DEFINE list == [i \in 1 .. MaxPlayerCount |-> PlayerUpdate(i - 1)]
  <2>1. GameStateObject.players = list
    BY DEF GameStateObject
  <2>2. p + 1 \in 1 .. MaxPlayerCount /\ (p + 1) - 1 = p
    BY IdsAreNumbers
  <2>3. list[p + 1] = PlayerUpdate(p)
    BY <2>2
  <2> HIDE DEF list
  <2> QED
    BY <2>1, <2>3 DEF PlayerUpdate
<1>2. joinable = [p \in Players |-> joinable[p]]
  BY DEF ObjectIInv, IInv, TypeOK
<1>3. clientJoinable' = [p \in Players |-> GameStateObject.players[p + 1].joinable]
  BY DEF ApplyPlayers
<1> QED
  BY <1>1, <1>2, <1>3

(***************************************************************************)
(* Every action keeps the client's invariant.                              *)
(***************************************************************************)
\* What ObjectTypeOK says of the client.
ClientTyped ==
  /\ clientGroups \in [Keys -> SUBSET Players]
  /\ clientPlayerToGroup \in [Players -> Keys \cup {Absent}]
  /\ clientJoinable \in [Players -> BOOLEAN]
  /\ clientCounts \in Counts
  /\ clientCore.winner \in Players

LEMMA NoCountsType == NoCounts \in Counts
<1>1. 0 \in 0 .. MaxMineCount * MineResourceCount
  <2>1. MaxMineCount * MineResourceCount \in Nat
    BY ResourcesAssumption
  <2> QED
    BY <2>1
<1> QED
  BY <1>1 DEF NoCounts, Counts

LEMMA GroupsAreNoMines == GroupIds \cap MineIds = {}
BY CountsAssumption, ResourcesAssumption DEF GroupIds, MineIds

LEMMA ClientInitInv == ObjectInit => ClientIInv
<1> SUFFICES ASSUME ObjectInit PROVE ClientIInv
  OBVIOUS
<1>1. ObjectIInv
  BY ObjectInitInv
<1>2. phase = "idle" /\ collisions = <<>> /\ packet = <<>>
  BY DEF ObjectInit
<1>3. ClientTyped
  BY NoCountsType, IdFacts DEF ObjectInit, ClientTyped, DefaultId
<1>4. ObjectTypeOK
  BY <1>1, <1>2, <1>3 DEF ObjectIInv, ObjectTypeOK, ClientTyped
<1>5. CollisionsSettled /\ NewcomersClosed
  BY <1>2 DEF CollisionsSettled, Settled, NewcomersClosed, ObjectInit, Init
<1>6. ClientShowsGroups
  BY DEF ClientShowsGroups, SameGroups, ObjectInit, Init
<1>7. ClientConserves
  BY DEF ClientConserves, ObjectInit
<1>8. ClientCountsAhead
  <2>1. /\ \A h \in Holders, t \in ResourceTypes : clientCounts[h][t] = 0
        /\ \A p \in Players, t \in ResourceTypes : m_resourceCounts[p][t] = 0
    BY HolderFacts DEF ObjectInit, NoCounts, LoadedCounts
  <2>2. \A m \in MineIds, t \in ResourceTypes : m_resourceCounts[m][t] \in Nat
    BY <1>1, CountsFacts, HolderFacts DEF Held
  <2>3. Players \subseteq Holders /\ MineIds \subseteq Holders
    BY HolderFacts
  <2> QED
    BY <2>1, <2>2, <2>3 DEF ClientCountsAhead, CountsAhead
<1>9. PublishedHolds /\ PublishedSettled /\ ReplayIsStable
  BY <1>2 DEF PublishedHolds, PublishedSettled, ReplayIsStable
<1> QED
  BY <1>1, <1>4, <1>5, <1>6, <1>7, <1>8, <1>9 DEF ClientIInv

\* Between the updates and the publication nothing is said of the client but its type.
LEMMA EventsClientInv ==
  ASSUME ClientIInv, ObjectIInv', NewcomersClosed', ClientTyped',
         phase' = "events", updates' > 0, UNCHANGED packet,
         collisions' \in Seq(Bodies), Settled(collisions)'
  PROVE  ClientIInv'
<1>1. ObjectTypeOK'
  BY DEF ObjectTypeOK, ObjectIInv, ClientTyped, ClientIInv
<1>2. CollisionsSettled'
  BY DEF CollisionsSettled
<1>3. PublishedHolds' /\ PublishedSettled' /\ ReplayIsStable'
  BY DEF PublishedHolds, PublishedSettled, ReplayIsStable
<1>4. ClientShowsGroups' /\ ClientConserves' /\ ClientCountsAhead'
  BY DEF ClientShowsGroups, ClientConserves, ClientCountsAhead
<1> QED
  BY <1>1, <1>2, <1>3, <1>4 DEF ClientIInv

LEMMA ClientFacts ==
  ASSUME ClientIInv
  PROVE  /\ ObjectIInv /\ IInv /\ ClientTyped /\ collisions \in Seq(Bodies) /\ Settled(collisions)
         /\ NewcomersClosed
         /\ UNCHANGED clientVars => ClientTyped'
         /\ ForgetShown => ClientTyped'
<1>1. ObjectIInv /\ IInv /\ collisions \in Seq(Bodies) /\ Settled(collisions) /\ NewcomersClosed
  BY DEF ClientIInv, ObjectIInv, ObjectTypeOK, CollisionsSettled
<1>2. ClientTyped
  BY DEF ClientIInv, ObjectTypeOK, ClientTyped
<1>3. UNCHANGED clientVars => ClientTyped'
  BY <1>2 DEF ClientTyped, clientVars
<1>4. ForgetShown => ClientTyped'
  BY <1>2, NoCountsType DEF ClientTyped, ForgetShown
<1> QED
  BY <1>1, <1>2, <1>3, <1>4

LEMMA UpdateClientInv ==
  ASSUME ClientIInv, ObjectIInv', NewcomersClosed',
         NEW toggledJoinable \in SUBSET Commanded, NEW toggledUngroup \in SUBSET Commanded,
         UpdateObjects(toggledJoinable, toggledUngroup)
  PROVE  ClientIInv'
<1>1. /\ phase \in {"idle", "events"} /\ phase' = "events" /\ updates' = updates + 1
      /\ updates > 0 => toggledJoinable = {}
      /\ Update(toggledJoinable, toggledUngroup) /\ ForgetShown /\ UNCHANGED <<packet, collisions>>
  BY DEF UpdateObjects
<1>2. updates \in Nat /\ updates' > 0
  BY <1>1, ResourcesAssumption DEF ClientIInv, ObjectIInv, ServerStateOK
<1>3. CASE phase = "idle"
  <2>1. collisions' = <<>>
    BY <1>1, <1>3 DEF ClientIInv, CollisionsSettled
  <2>2. Settled(collisions)'
    BY <2>1 DEF Settled
  <2> QED
    BY <1>1, <1>2, <2>2, ClientFacts, EventsClientInv
<1>4. CASE phase = "events"
  <2>1. toggledJoinable = {}
    BY <1>1, <1>4 DEF ClientIInv, CollisionsSettled
  <2>2. NothingOpens
    BY <1>1, <2>1, ClientFacts, UpdateOpensNothing
  <2>3. Settled(collisions)'
    BY <1>1, <2>2, ClientFacts DEF Settled, NothingOpens
  <2> QED
    BY <1>1, <1>2, <2>3, ClientFacts, EventsClientInv
<1> QED
  BY <1>1, <1>3, <1>4

\* A collision more is in the list.
LEMMA CollideClientInv ==
  ASSUME ClientIInv, ObjectIInv', NewcomersClosed', CanCollide, NothingOpens,
         NEW x, NEW y, <<x, y>> \in Bodies, collisions' = Append(collisions, <<x, y>>),
         x \in GroupIds /\ y \in GroupIds => ~ (IsJoinable(x)' /\ IsJoinable(y)'),
         UNCHANGED <<phase, updates, packet, clientVars>>
  PROVE  ClientIInv'
<1>1. collisions \in Seq(Bodies) /\ Settled(collisions)
  BY ClientFacts
<1> DEFINE n == Len(collisions)
<1>2. /\ n \in Nat /\ collisions' \in Seq(Bodies) /\ DOMAIN (collisions') = 1 .. n + 1
      /\ \A i \in 1 .. n : collisions'[i] = collisions[i]
      /\ collisions'[n + 1] = <<x, y>> /\ DOMAIN collisions = 1 .. n
  BY <1>1
<1> HIDE DEF n
<1>3. ASSUME NEW i \in 1 .. n + 1, NEW a \in GroupIds, NEW b \in GroupIds, collisions'[i] = <<a, b>>
      PROVE  ~ (IsJoinable(a)' /\ IsJoinable(b)')
  <2>1. CASE i = n + 1
    <3>1. a = x /\ b = y
      BY <1>2, <1>3, <2>1
    <3> QED
      BY <3>1
  <2>2. CASE i \in 1 .. n
    <3>1. ~ (IsJoinable(a) /\ IsJoinable(b))
      BY <1>1, <1>2, <1>3, <2>2 DEF Settled
    <3> QED
      BY <3>1 DEF NothingOpens
  <2> QED
    BY <1>2, <2>1, <2>2
<1>4. Settled(collisions)'
  BY <1>2, <1>3 DEF Settled
<1>5. phase' = "events" /\ updates' > 0
  BY DEF CanCollide, ClientIInv, CollisionsSettled
<1> QED
  BY <1>2, <1>4, <1>5, ClientFacts, EventsClientInv

\* The actions between the updates and the publication.
LEMMA EventsActionsClientInv ==
  ASSUME ClientIInv, ObjectIInv', NewcomersClosed'
  PROVE  /\ \A a \in Active : \A b \in Active \ {a} : CollideGroups(a, b) => ClientIInv'
         /\ \A g \in Active, m \in MineIds : CollideWithMine(g, m) => ClientIInv'
         /\ ConnectClient => ClientIInv'
         /\ \A p \in Named : DisconnectClient(p) => ClientIInv'
<1>0. IInv /\ NewcomersClosed /\ collisions \in Seq(Bodies) /\ Settled(collisions)
  BY ClientFacts
<1>1. ASSUME NEW a \in Active, NEW b \in Active \ {a}, CollideGroups(a, b)
      PROVE  ClientIInv'
  <2>1. /\ CanCollide /\ JoinGroups(a, b) /\ collisions' = Append(collisions, <<a, b>>)
        /\ UNCHANGED <<phase, updates, packet, clientVars>>
    BY <1>1 DEF CollideGroups
  <2>2. NothingOpens /\ ~ (IsJoinable(a)' /\ IsJoinable(b)')
    BY <1>0, <2>1, JoinOpensNothing
  <2>3. <<a, b>> \in Bodies
    BY DEF Bodies, Active
  <2> QED
    BY <2>1, <2>2, <2>3, CollideClientInv
<1>2. ASSUME NEW g \in Active, NEW m \in MineIds, CollideWithMine(g, m)
      PROVE  ClientIInv'
  <2>1. /\ CanCollide /\ UNCHANGED vars /\ collisions' = Append(collisions, <<g, m>>)
        /\ UNCHANGED <<phase, updates, packet, clientVars>>
    BY <1>2 DEF CollideWithMine
  <2>2. NothingOpens
    BY <2>1 DEF NothingOpens, IsJoinable, vars, flags
  <2>3. <<g, m>> \in Bodies /\ m \notin GroupIds
    BY GroupsAreNoMines DEF Bodies, Active
  <2> QED
    BY <2>1, <2>2, <2>3, CollideClientInv
<1>3. ASSUME NothingOpens, phase = "events", UNCHANGED <<stepVars, clientVars>>
      PROVE  ClientIInv'
  <2>1. UNCHANGED <<phase, updates, packet, collisions>>
    BY <1>3 DEF stepVars
  <2>2. Settled(collisions)'
    BY <1>0, <1>3, <2>1 DEF Settled, NothingOpens
  <2>3. phase' = "events" /\ updates' > 0
    BY <1>3, <2>1 DEF ClientIInv, CollisionsSettled
  <2> QED
    BY <1>0, <1>3, <2>1, <2>2, <2>3, ClientFacts, EventsClientInv
<1>4. CASE ConnectClient
  <2>1. NothingOpens
    BY <1>0, <1>4, CreateOpensNothing DEF ConnectClient
  <2> QED
    BY <1>3, <1>4, <2>1 DEF ConnectClient
<1>5. ASSUME NEW p \in Named, DisconnectClient(p)
      PROVE  ClientIInv'
  <2>1. p \in Players /\ RemovePlayer(p)
    BY <1>5, IdFacts DEF DisconnectClient, Named
  <2>2. NothingOpens
    BY <1>0, <2>1, RemoveOpensNothing
  <2> QED
    BY <1>3, <1>5, <2>2 DEF DisconnectClient
<1> QED
  BY <1>1, <1>2, <1>4, <1>5

LEMMA PostUpdateClientInv ==
  ASSUME ClientIInv, ObjectIInv', NewcomersClosed', PostUpdate
  PROVE  ClientIInv'
<1>1. /\ phase' = "show" /\ collisions' = <<>> /\ UNCHANGED <<vars, clientVars>>
  BY DEF PostUpdate
<1>2. collisions \in Seq(Bodies) /\ Settled(collisions) /\ ObjectIInv /\ ClientTyped'
  BY <1>1, ClientFacts
<1>3. /\ packet' \in Seq(Nat)
      /\ ReadGameState(packet') =
           [object |-> GameStateObject', event |-> collisions, core |-> GameStateCore']
  BY <1>2, Publishes
<1>4. ObjectTypeOK'
  BY <1>1, <1>2, <1>3 DEF ObjectTypeOK, ObjectIInv, ClientTyped
<1>5. CollisionsSettled'
  BY <1>1 DEF CollisionsSettled, Settled
<1>6. PublishedHolds'
  <2> DEFINE read == ReadGameState(packet')
  <2>1. read.object = GameStateObject' /\ read.core = GameStateCore'
    BY <1>3
  <2> QED
    BY <2>1 DEF PublishedHolds
<1>7. PublishedSettled'
  <2>1. ReadGameState(packet').event = collisions
    BY <1>3
  <2>2. UNCHANGED <<m_groupToPlayers, joinable>>
    BY <1>1 DEF vars, flags
  <2> QED
    BY <1>2, <2>1, <2>2 DEF PublishedSettled, Settled, IsJoinable
<1>8. ReplayIsStable' /\ ClientShowsGroups' /\ ClientConserves' /\ ClientCountsAhead'
  BY <1>1 DEF ReplayIsStable, ClientShowsGroups, ClientConserves, ClientCountsAhead
<1> QED
  BY <1>4, <1>5, <1>6, <1>7, <1>8 DEF ClientIInv

\* A client that applies a state has what the server had when it was published.
LEMMA ShowClientInv ==
  ASSUME ClientIInv, ObjectIInv', NewcomersClosed', ShowGameState
  PROVE  ClientIInv'
<1> DEFINE state == ReadGameState(packet)
<1>1. /\ phase = "show" /\ packet' = <<>>
      /\ UNCHANGED <<vars, m_resourceCounts, goals, updates, status, winner, collisions>>
      /\ clientCore' = state.core
      /\ \/ /\ state.core.status = "game_over"
            /\ phase' = "idle"
            /\ UNCHANGED <<clientGroups, clientPlayerToGroup, clientJoinable, clientCounts,
                           clientEvents>>
         \/ /\ state.core.status # "game_over"
            /\ ApplyPlayers(state.object.players)
            /\ ApplyGroups(state.object.members)
            /\ ApplyCounts(state.object.counts)
            /\ clientEvents' = state.event
            /\ phase' = IF state.event = <<>> THEN "idle" ELSE "replay"
  BY Zenon DEF ShowGameState
<1>2. ObjectIInv /\ ClientTyped /\ collisions = <<>>
  BY <1>1, ClientFacts DEF ClientIInv, CollisionsSettled
<1>3. /\ state.object = GameStateObject /\ state.core = GameStateCore
      /\ state.event \in Seq(Bodies) /\ Settled(state.event)
  BY <1>1 DEF ClientIInv, PublishedHolds, PublishedSettled
<1> HIDE DEF state
<1>4. /\ state.core.status = status /\ state.core.winner = winner
      /\ status \in {"playing", "game_over"} /\ winner \in Players
  BY <1>2, <1>3 DEF GameStateCore, ObjectIInv, ServerStateOK
<1>5. phase' \in {"idle", "replay"} /\ clientCore'.status = status' /\ clientCore'.winner \in Players
  BY <1>1, <1>4
<1>6. CollisionsSettled' /\ PublishedHolds' /\ PublishedSettled'
  <2>1. collisions' = <<>>
    BY <1>1, <1>2
  <2> QED
    BY <1>5, <2>1 DEF CollisionsSettled, Settled, PublishedHolds, PublishedSettled
<1>7. ASSUME ClientTyped'
      PROVE  ObjectTypeOK'
  <2>1. collisions' \in Seq(Bodies) /\ packet' \in Seq(Nat)
    BY <1>1, <1>2
  <2> QED
    BY <1>7, <2>1 DEF ObjectTypeOK, ObjectIInv, ClientTyped
<1>8. CASE status = "game_over"
  <2>1. /\ phase' = "idle" /\ status' = "game_over"
        /\ UNCHANGED <<clientGroups, clientPlayerToGroup, clientJoinable, clientCounts>>
    BY <1>1, <1>4, <1>8
  <2>2. ClientTyped'
    BY <1>2, <1>5, <2>1 DEF ClientTyped
  <2>3. ClientShowsGroups' /\ ClientConserves' /\ ClientCountsAhead' /\ ReplayIsStable'
    BY <1>5, <2>1 DEF ClientShowsGroups, ClientConserves, ClientCountsAhead, ReplayIsStable
  <2> QED
    BY <1>6, <1>7, <2>2, <2>3 DEF ClientIInv
<1>9. CASE status = "playing"
  <2>1. /\ ApplyPlayers(GameStateObject.players)
        /\ ApplyGroups(GameStateObject.members)
        /\ ApplyCounts(GameStateObject.counts)
        /\ clientEvents' = state.event
        /\ phase' = IF state.event = <<>> THEN "idle" ELSE "replay"
    BY <1>1, <1>3, <1>4, <1>9
  <2>2. /\ clientGroups' = m_groupToPlayers /\ clientPlayerToGroup' = m_playerToGroup
        /\ clientJoinable' = joinable /\ clientCounts' = m_resourceCounts
    BY <1>2, <2>1, AppliesGroups, AppliesPlayers, AppliesCounts
  <2>3. UNCHANGED <<m_groupToPlayers, m_playerToGroup, joinable, m_resourceCounts, status>>
    BY <1>1 DEF vars, flags
  <2>4. ClientTyped'
    BY <1>2, <1>5, <2>2 DEF ClientTyped, ObjectIInv, IInv, TypeOK, ServerStateOK
  <2>5. SameGroups' /\ clientJoinable' = joinable'
    BY <2>2, <2>3 DEF SameGroups
  <2>6. CountsAhead'
    <3>1. \A h \in Holders, t \in ResourceTypes : m_resourceCounts[h][t] \in Nat
      BY <1>2, CountsFacts DEF Held
    <3> QED
      BY <2>2, <2>3, <3>1, HolderFacts DEF CountsAhead
  <2>7. ClientConserves'
    BY <1>2, <2>2 DEF ClientConserves, ObjectIInv, ResourcesConserved
  <2>8. ReplayIsStable'
    <3>1. status' = "playing" /\ clientCore'.status = "playing"
      BY <1>5, <1>9, <2>3
    <3>2. phase' = "replay" => clientEvents' # <<>>
      BY <2>1
    <3>3. clientEvents' \in Seq(Bodies) /\ Settled(clientEvents)'
      BY <1>3, <2>1, <2>3 DEF Settled, IsJoinable
    <3> QED
      BY <2>5, <2>6, <3>1, <3>2, <3>3 DEF ReplayIsStable
  <2>9. ClientShowsGroups' /\ ClientCountsAhead'
    BY <2>5, <2>6 DEF ClientShowsGroups, ClientCountsAhead
  <2> QED
    BY <1>6, <1>7, <2>4, <2>7, <2>8, <2>9 DEF ClientIInv
<1> QED
  BY <1>4, <1>8, <1>9

\* What handing out a mine's units does to a client's copy of the counts.
LEMMA ReplayServes ==
  ASSUME ClientIInv, phase = "replay", NEW g \in GroupIds, NEW m \in MineIds,
         NEW members \in SetToSeqs(clientGroups[g]),
         clientCounts' = Transfer(clientCounts, m, members), UNCHANGED m_resourceCounts
  PROVE  /\ clientCounts' \in Stocked /\ CountsAhead'
         /\ \A t \in ResourceTypes : Total(clientCounts', t) = Total(LoadedCounts, t)
<1>1. /\ clientCounts \in Counts /\ CountsAhead
      /\ \A t \in ResourceTypes : Total(clientCounts, t) = Total(LoadedCounts, t)
  BY DEF ClientIInv, ReplayIsStable, ClientConserves, ObjectTypeOK
<1>2. \A t \in ResourceTypes : Total(LoadedCounts, t) <= Stock
  BY LoadedFacts
<1>3. clientCounts \in Held
  <2>1. 0 .. MaxMineCount * MineResourceCount \subseteq Nat
    OBVIOUS
  <2> QED
    BY <1>1, <2>1 DEF Counts, Held
<1>4. clientCounts \in Stocked
  BY <1>1, <1>2, <1>3 DEF Stocked
<1>5. clientGroups[g] \subseteq Players /\ IsFiniteSet(clientGroups[g])
  <2>1. clientGroups[g] \subseteq Players
    BY IdFacts DEF ClientIInv, ObjectTypeOK
  <2> QED
    BY <2>1, IdsAreNumbers, FS_Subset
<1>6. PICK n \in Nat : /\ members \in [1 .. n -> clientGroups[g]]
                       /\ \A i, j \in 1 .. n : i # j => members[i] # members[j]
  BY <1>5, SeqsOf
<1>7. members \in [1 .. n -> Players]
  BY <1>5, <1>6
<1>8. TurnsTaken(clientCounts, clientCounts', m, members, n)
  <2>1. PICK c \in Stocked : c = clientCounts
    BY <1>4
  <2>2. TurnsTaken(c, Transfer(c, m, members), m, members, n)
    BY <1>6, <1>7, TransferTurns
  <2> QED
    BY <2>1, <2>2
<1>9. clientCounts' \in Held /\ \A t \in ResourceTypes : Total(clientCounts', t) = Total(LoadedCounts, t)
  BY <1>1, <1>8 DEF TurnsTaken
<1>10. clientCounts' \in Stocked
  BY <1>2, <1>9 DEF Stocked
<1>11. ObjectIInv
  BY DEF ClientIInv
<1>12. \A h \in Holders, t \in ResourceTypes :
         clientCounts[h][t] \in Nat /\ clientCounts'[h][t] \in Nat /\ m_resourceCounts[h][t] \in Nat
  BY <1>3, <1>9, <1>11, CountsFacts DEF Held
<1>13. ASSUME NEW p \in Players, NEW t \in ResourceTypes
       PROVE  clientCounts'[p][t] >= clientCounts[p][t]
  <2>1. p \in Holders /\ p # m
    BY HolderFacts
  <2>2. clientCounts'[p][t] = clientCounts[p][t] \/ clientCounts'[p][t] = clientCounts[p][t] + 1
    BY <1>8, <2>1 DEF TurnsTaken
  <2> QED
    BY <1>12, <2>1, <2>2
<1>14. ASSUME NEW h \in MineIds, NEW t \in ResourceTypes
       PROVE  clientCounts'[h][t] <= clientCounts[h][t]
  <2>1. h \in Holders /\ m \in Holders /\ MineType(m) \in ResourceTypes
    BY HolderFacts, MineHasType
  <2>2. \A i \in 1 .. n : members[i] # h
    BY <1>7, HolderFacts
  <2>3. CASE h = m /\ t = MineType(m)
    <3>1. clientCounts'[m][MineType(m)] =
            IF clientCounts[m][MineType(m)] > n THEN clientCounts[m][MineType(m)] - n ELSE 0
      BY <1>8 DEF TurnsTaken
    <3>2. clientCounts[m][MineType(m)] \in Nat
      BY <1>12, <2>1
    <3> QED
      BY <2>3, <3>1, <3>2
  <2>4. CASE ~ (h = m /\ t = MineType(m))
    <3>1. clientCounts'[h][t] = clientCounts[h][t]
      BY <1>8, <2>1, <2>2, <2>4 DEF TurnsTaken
    <3> QED
      BY <1>12, <2>1, <3>1
  <2> QED
    BY <2>3, <2>4
<1>15. CountsAhead'
  <2>1. \A p \in Players, t \in ResourceTypes : clientCounts'[p][t] >= m_resourceCounts[p][t]
    BY <1>1, <1>12, <1>13, HolderFacts DEF CountsAhead
  <2>2. \A h \in MineIds, t \in ResourceTypes : clientCounts'[h][t] <= m_resourceCounts[h][t]
    BY <1>1, <1>12, <1>14, HolderFacts DEF CountsAhead
  <2> QED
    BY <2>1, <2>2 DEF CountsAhead
<1> QED
  BY <1>9, <1>10, <1>15

\* A collision that is replayed finds its groups merged, and moves units only.
LEMMA ReplayClientInv ==
  ASSUME ClientIInv, ObjectIInv', NewcomersClosed', ReplayCollision
  PROVE  ClientIInv'
<1>1. /\ phase = "replay" /\ clientEvents' = Tail(clientEvents)
      /\ phase' = IF clientEvents' = <<>> THEN "idle" ELSE "replay"
      /\ UNCHANGED <<vars, m_resourceCounts, goals, updates, status, winner, collisions, packet,
                     clientJoinable, clientCore>>
  BY Zenon DEF ReplayCollision
<1>2. /\ ClientTyped /\ collisions = <<>> /\ packet \in Seq(Nat) /\ ClientConserves
      /\ status = "playing" /\ clientCore.status = "playing"
      /\ SameGroups /\ clientJoinable = joinable /\ CountsAhead
      /\ clientEvents \in Seq(Bodies) /\ clientEvents # <<>> /\ Settled(clientEvents)
  BY <1>1, ClientFacts DEF ClientIInv, ReplayIsStable, ObjectTypeOK, CollisionsSettled
<1>3. /\ UNCHANGED <<clientGroups, clientPlayerToGroup>>
      /\ \/ UNCHANGED clientCounts
         \/ \E g \in GroupIds, m \in MineIds : \E members \in SetToSeqs(clientGroups[g]) :
              clientCounts' = Transfer(clientCounts, m, members)
  <2>1. PICK a, b \in GroupIds \cup MineIds :
          /\ Head(clientEvents) = <<a, b>>
          /\ \/ /\ a \in GroupIds /\ b \in GroupIds /\ Client!JoinGroups(a, b)
                /\ UNCHANGED clientCounts
             \/ \E g \in GroupIds \cap {a, b}, m \in MineIds \cap {a, b} :
                  /\ \E members \in SetToSeqs(clientGroups[g]) :
                       clientCounts' = Transfer(clientCounts, m, members)
                  /\ UNCHANGED <<clientGroups, clientPlayerToGroup>>
    BY Zenon DEF ReplayCollision
  <2>2. CASE a \in GroupIds /\ b \in GroupIds /\ Client!JoinGroups(a, b) /\ UNCHANGED clientCounts
    <3>1. 1 \in DOMAIN clientEvents /\ clientEvents[1] = <<a, b>>
      BY <1>2, <2>1
    <3>2. ~ (IsJoinable(a) /\ IsJoinable(b))
      BY <1>2, <2>2, <3>1 DEF Settled
    <3>3. ~ (Client!IsJoinable(a) /\ Client!IsJoinable(b))
      BY <1>2, <3>2 DEF Client!IsJoinable, IsJoinable, SameGroups
    <3>4. UNCHANGED <<clientGroups, clientPlayerToGroup>>
      BY <2>2, <3>3 DEF Client!JoinGroups
    <3> QED
      BY <2>2, <3>4
  <2> QED
    BY <2>1, <2>2
<1>4. /\ clientCounts' \in Counts /\ CountsAhead'
      /\ \A t \in ResourceTypes : Total(clientCounts', t) = Total(LoadedCounts, t)
  <2>1. CASE UNCHANGED clientCounts
    <3>1. UNCHANGED m_resourceCounts
      BY <1>1
    <3> QED
      BY <1>1, <1>2, <2>1, <3>1 DEF ClientTyped, CountsAhead, ClientConserves
  <2>2. CASE \E g \in GroupIds, m \in MineIds : \E members \in SetToSeqs(clientGroups[g]) :
               clientCounts' = Transfer(clientCounts, m, members)
    <3>1. clientCounts' \in Stocked /\ CountsAhead'
          /\ \A t \in ResourceTypes : Total(clientCounts', t) = Total(LoadedCounts, t)
      BY <1>1, <2>2, ReplayServes
    <3> QED
      BY <3>1, StockedType
  <2> QED
    BY <1>3, <2>1, <2>2
<1>5. UNCHANGED <<m_groupToPlayers, m_playerToGroup, joinable>>
  BY <1>1 DEF vars, flags
<1>6. SameGroups' /\ clientJoinable' = joinable' /\ ClientTyped'
  BY <1>1, <1>2, <1>3, <1>4, <1>5 DEF SameGroups, ClientTyped
<1>7. clientEvents' \in Seq(Bodies) /\ Settled(clientEvents)'
  <2>1. /\ Tail(clientEvents) \in Seq(Bodies)
        /\ \A i \in DOMAIN Tail(clientEvents) :
             i + 1 \in DOMAIN clientEvents /\ Tail(clientEvents)[i] = clientEvents[i + 1]
    BY <1>2
  <2>2. \A i \in DOMAIN Tail(clientEvents) : \A a, b \in GroupIds :
          Tail(clientEvents)[i] = <<a, b>> => ~ (IsJoinable(a) /\ IsJoinable(b))
    BY <1>2, <2>1 DEF Settled
  <2> QED
    BY <1>1, <1>5, <2>1, <2>2 DEF Settled, IsJoinable
<1>8. ObjectTypeOK'
  BY <1>1, <1>2, <1>6 DEF ObjectTypeOK, ObjectIInv, ClientTyped
<1>9. phase' \in {"idle", "replay"} /\ collisions' = <<>>
  BY <1>1, <1>2
<1>10. CollisionsSettled' /\ PublishedHolds' /\ PublishedSettled'
  BY <1>9 DEF CollisionsSettled, Settled, PublishedHolds, PublishedSettled
<1>11. ReplayIsStable'
  BY <1>1, <1>2, <1>4, <1>6, <1>7 DEF ReplayIsStable
<1>12. ClientShowsGroups' /\ ClientCountsAhead' /\ ClientConserves'
  BY <1>4, <1>6 DEF ClientShowsGroups, ClientCountsAhead, ClientConserves
<1> QED
  BY <1>8, <1>10, <1>11, <1>12 DEF ClientIInv

LEMMA ClientStutterInv ==
  ASSUME ClientIInv, ObjectIInv', NewcomersClosed', UNCHANGED objectVars
  PROVE  ClientIInv'
<1>1. /\ UNCHANGED <<vars, m_resourceCounts, goals, phase, updates, status, winner, collisions, packet>>
      /\ UNCHANGED <<clientGroups, clientPlayerToGroup, clientJoinable, clientCounts, clientCore,
                     clientEvents>>
  BY DEF objectVars, stepVars, clientVars
<1>2. UNCHANGED <<m_groupToPlayers, m_playerToGroup, joinable>>
  BY <1>1 DEF vars, flags
<1>3. GameStateObject' = GameStateObject
  BY <1>1, SameObject
<1>4. GameStateCore' = GameStateCore
  BY <1>1 DEF GameStateCore
<1>5. ObjectTypeOK'
  BY <1>1 DEF ClientIInv, ObjectTypeOK, ObjectIInv
<1>6. CollisionsSettled'
  BY <1>1, <1>2 DEF ClientIInv, CollisionsSettled, Settled, IsJoinable
<1>7. PublishedHolds'
  BY <1>1, <1>3, <1>4 DEF ClientIInv, PublishedHolds
<1>8. PublishedSettled'
  BY <1>1, <1>2 DEF ClientIInv, PublishedSettled, Settled, IsJoinable
<1>9. ReplayIsStable'
  BY <1>1, <1>2 DEF ClientIInv, ReplayIsStable, Settled, IsJoinable, SameGroups, CountsAhead
<1>10. ClientShowsGroups' /\ ClientConserves' /\ ClientCountsAhead'
  BY <1>1, <1>2
     DEF ClientIInv, ClientShowsGroups, SameGroups, ClientConserves, ClientCountsAhead, CountsAhead
<1> QED
  BY <1>5, <1>6, <1>7, <1>8, <1>9, <1>10 DEF ClientIInv

LEMMA ClientNextInv == ClientIInv /\ [ObjectNext]_objectVars => ClientIInv'
<1> SUFFICES ASSUME ClientIInv, [ObjectNext]_objectVars PROVE ClientIInv'
  OBVIOUS
<1>1. ObjectIInv' /\ NewcomersClosed'
  BY ClientFacts, ObjectNextInv, KeepsNewcomersClosed
<1>2. ASSUME NEW toggledJoinable \in SUBSET Commanded, NEW toggledUngroup \in SUBSET Commanded,
             UpdateObjects(toggledJoinable, toggledUngroup)
      PROVE  ClientIInv'
  BY <1>1, <1>2, UpdateClientInv
<1>3. CASE PostUpdate
  BY <1>1, <1>3, PostUpdateClientInv
<1>4. CASE ShowGameState
  BY <1>1, <1>4, ShowClientInv
<1>5. CASE ReplayCollision
  BY <1>1, <1>5, ReplayClientInv
<1>6. CASE UNCHANGED objectVars
  BY <1>1, <1>6, ClientStutterInv
<1> QED
  BY <1>1, <1>2, <1>3, <1>4, <1>5, <1>6, EventsActionsClientInv DEF ObjectNext, Stopped

\* What a step that publishes has to do.
PublishedWhole ==
  phase = "events" /\ phase' = "show" =>
    ReadGameState(packet') =
      [object |-> GameStateObject', event |-> collisions, core |-> GameStateCore']

LEMMA StepPublishesWhole == ClientIInv /\ [ObjectNext]_objectVars => PublishedWhole
<1> SUFFICES ASSUME ClientIInv, [ObjectNext]_objectVars, phase = "events", phase' = "show"
             PROVE  ReadGameState(packet') =
                      [object |-> GameStateObject', event |-> collisions, core |-> GameStateCore']
  BY DEF PublishedWhole
<1>1. collisions \in Seq(Bodies) /\ ObjectIInv /\ ObjectIInv'
  BY ClientFacts, ObjectNextInv
<1>2. PostUpdate
  <2>1. phase' # phase /\ phase' # "events" /\ phase' # "idle" /\ phase' # "replay"
    OBVIOUS
  <2> QED
    BY <2>1, Zenon DEF ObjectNext, UpdateObjects, CollideGroups, CollideWithMine, ConnectClient,
                       DisconnectClient, ShowGameState, ReplayCollision, Stopped, objectVars, stepVars
<1> QED
  BY <1>1, <1>2, Publishes

-----------------------------------------------------------------------------
(***************************************************************************)
(* The theorems.                                                           *)
(***************************************************************************)

\* ObjectIInv is an invariant of the updates, collisions, connections, departures and
\* publications of the server, and of what a client makes of them.
THEOREM ObjectInvariance == ObjectSpec => []ObjectIInv
<1> QED
  BY ObjectInitInv, ObjectNextInv, PTL DEF ObjectSpec

\* Collisions with mines neither make nor lose a unit, for any number of players,
\* mines and units (ResourceController::transferResources, add, subtract).
THEOREM UnitsConserved == ObjectSpec => []ResourcesConserved
<1>1. ObjectIInv => ResourcesConserved
  BY DEF ObjectIInv
<1> QED
  BY <1>1, ObjectInvariance, PTL

\* The game ends with the step in which an active player has reached its goal, and
\* with one of these as the winner (ServerGameController::postUpdate).
THEOREM EndsRight == ObjectSpec => []EndsWhenWon
<1>1. ObjectIInv => EndsWhenWon
  BY DEF ObjectIInv
<1> QED
  BY <1>1, ObjectInvariance, PTL

\* Whatever the order of a group's vector, a bump gives each member one unit of the
\* mine's type, and only an emptied mine leaves one without.
THEOREM BumpsAreFair == ObjectSpec => OneUnitEach
<1>1. ObjectIInv /\ [ObjectNext]_objectVars => FairStep
  BY StepFair
<1> QED
  BY <1>1, ObjectInvariance, PTL DEF ObjectSpec, OneUnitEach, FairStep

\* Seen through the group maps, the server with its resources does what
\* GroupController allows, so all of GroupController_proofs holds of it.
THEOREM ImplementsGroups == ObjectSpec => Spec
<1>1. ObjectInit => Init
  BY DEF ObjectInit
<1> QED
  BY <1>1, StepImplementsGroups, PTL DEF ObjectSpec, Spec

\* So counting units, ending the game and showing it to clients never disturb the groups.
THEOREM GroupsSafeWithResources ==
  ObjectSpec => /\ [](MembershipConsistent /\ ActiveIffGrouped /\ OnlyCapacityFailure)
                /\ LeaveAloneOrMergeWhole
BY ImplementsGroups, Partition, ActiveAgrees, RegroupNeverFails, GroupChanges, PTL

\* ClientIInv is an invariant of the server, its publications and a client that
\* applies them and replays their collisions.
THEOREM ClientInvariance == ObjectSpec => []ClientIInv
<1> QED
  BY ClientInitInv, ClientNextInv, PTL DEF ObjectSpec

\* Every variable has its type: whatever is published is numbers, and no sequence of
\* replayed collisions takes a client's counts out of their range.
THEOREM ObjectTypes == ObjectSpec => []ObjectTypeOK
<1>1. ClientIInv => ObjectTypeOK
  BY DEF ClientIInv
<1> QED
  BY <1>1, ClientInvariance, PTL

\* The operators << and >> of GameState and of all its parts are inverse to each
\* other, for every number of players, mines, resource types and units.
THEOREM StatesArriveWhole == ObjectSpec => PacketReadsBack
<1>1. ClientIInv /\ [ObjectNext]_objectVars => PublishedWhole
  BY StepPublishesWhole
<1> QED
  BY <1>1, ClientInvariance, PTL DEF ObjectSpec, PacketReadsBack, PublishedWhole

\* A client that has applied a state and replayed its collisions shows the server's
\* groups: the joinGroups of the replay merges nothing, because groups become
\* joinable only with inputs, before the collisions of a step.
THEOREM ClientFollows == ObjectSpec => []ClientShowsGroups
<1>1. ClientIInv => ClientShowsGroups
  BY DEF ClientIInv
<1> QED
  BY <1>1, ClientInvariance, PTL

\* Replaying collisions with mines moves units of the client's copy twice, and neither
\* makes nor loses any.
THEOREM ReplayConserves == ObjectSpec => []ClientConserves
<1>1. ClientIInv => ClientConserves
  BY DEF ClientIInv
<1> QED
  BY <1>1, ClientInvariance, PTL

\* After a replay a client's players have no less, and its mines no more, than the
\* server's.
THEOREM ReplayRunsAhead == ObjectSpec => []ClientCountsAhead
<1>1. ClientIInv => ClientCountsAhead
  BY DEF ClientIInv
<1> QED
  BY <1>1, ClientInvariance, PTL

=============================================================================
