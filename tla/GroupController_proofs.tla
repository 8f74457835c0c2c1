------------------------ MODULE GroupController_proofs ------------------------
(***************************************************************************)
(* Proofs, for every number of players, of what MCGroupController checks   *)
(* for three.                                                              *)
(***************************************************************************)
EXTENDS GroupController, FiniteSetTheorems, TLAPS

(***************************************************************************)
(* The ids of the model.                                                   *)
(***************************************************************************)
LEMMA IdFacts ==
  /\ Players \subseteq Nat
  /\ DefaultId \in Keys
  /\ DefaultId \in Players
  /\ DefaultId \notin GroupIds
  /\ GroupIds \subseteq Keys
  /\ Absent \notin Keys
  /\ \A i \in Nat : i < MaxPlayerCount => i \in Players /\ OffsetValue + i \in GroupIds
BY CountsAssumption DEF Players, Keys, GroupIds, DefaultId, Absent

(***************************************************************************)
(* Every action keeps the types of the state.                              *)
(***************************************************************************)
LEMMA UpdateType ==
  ASSUME TypeOK, NEW toggledJoinable, NEW toggledUngroup,
         Update(toggledJoinable, toggledUngroup)
  PROVE  TypeOK'
<1> DEFINE open == Toggle(joinable, toggledJoinable)
           wantsOut == Toggle(ungroup, toggledUngroup)
           candidates == Candidates(wantsOut)
<1>1. open \in [Players -> BOOLEAN] /\ wantsOut \in [Players -> BOOLEAN]
  BY DEF Toggle, TypeOK
<1>2. candidates \subseteq Players
  BY DEF Candidates
<1> HIDE DEF open, wantsOut, candidates
<1>3. PICK staying \in StayingChoices(candidates) :
        LET leavers == candidates \ staying IN
        \/ /\ \E newGroup \in Injection(leavers, EmptyGroups) : MoveOut(leavers, newGroup)
           /\ ResetFlags(candidates, open, wantsOut)
           /\ RefreshGroups
           /\ UNCHANGED failure
        \/ /\ failure' = "no_empty_group"
           /\ UNCHANGED <<m_groupToPlayers, entries, m_playerToGroup, groupActive, flags>>
  BY Zenon DEF Update, open, wantsOut, candidates
<1>4. UNCHANGED <<counters, playerActive>>
  BY DEF Update
<1> DEFINE leavers == candidates \ staying
<1>5. CASE /\ failure' = "no_empty_group"
           /\ UNCHANGED <<m_groupToPlayers, entries, m_playerToGroup, groupActive, flags>>
  BY <1>4, <1>5 DEF TypeOK, counters, flags
<1>6. CASE /\ \E newGroup \in Injection(leavers, EmptyGroups) : MoveOut(leavers, newGroup)
           /\ ResetFlags(candidates, open, wantsOut)
           /\ RefreshGroups
           /\ UNCHANGED failure
  <2>1. PICK newGroup \in Injection(leavers, EmptyGroups) : MoveOut(leavers, newGroup)
    BY <1>6
  <2>2. newGroup \in [leavers -> EmptyGroups] /\ EmptyGroups \subseteq Keys
    BY DEF Injection, EmptyGroups, TypeOK
  <2>3. m_groupToPlayers' \in [Keys -> SUBSET Players]
    BY <2>1, <1>2 DEF MoveOut, TypeOK
  <2>4. m_playerToGroup' \in [Players -> Keys \cup {Absent}]
    BY <2>1, <2>2 DEF MoveOut, TypeOK
  <2>5. joinable' \in [Players -> BOOLEAN] /\ ungroup' \in [Players -> BOOLEAN]
    BY <1>1, <1>6 DEF ResetFlags
  <2>6. groupActive' \in [GroupIds -> BOOLEAN] /\ entries' \in SUBSET Keys
    BY <1>6, IdFacts DEF RefreshGroups, TypeOK
  <2> QED
    BY <1>4, <1>6, <2>3, <2>4, <2>5, <2>6 DEF TypeOK, counters
<1> QED
  BY <1>3, <1>5, <1>6

LEMMA CreatePlayerWithGroupType ==
  ASSUME TypeOK, CreatePlayerWithGroup, CountersAgree
  PROVE  TypeOK'
<1>1. nextPlayerIndex \in 0 .. MaxPlayerCount /\ nextGroupIndex = nextPlayerIndex
  BY CountsAssumption DEF CreatePlayerWithGroup, CountersAgree, TypeOK
<1>2. UNCHANGED <<groupActive, joinable, ungroup>>
  BY DEF CreatePlayerWithGroup, flags
<1>3. CASE nextPlayerIndex >= MaxPlayerCount
  BY <1>1, <1>2, <1>3, CountsAssumption DEF CreatePlayerWithGroup, TypeOK
<1>4. CASE nextPlayerIndex < MaxPlayerCount
  <2>1. nextPlayerIndex \in Players /\ OffsetValue + nextGroupIndex \in GroupIds
    BY <1>1, <1>4, CountsAssumption DEF Players, GroupIds
  <2>2. OffsetValue + nextGroupIndex \in Keys
    BY <2>1 DEF Keys
  <2>3. /\ failure' = failure
        /\ nextPlayerIndex' = nextPlayerIndex + 1
        /\ nextGroupIndex' = nextGroupIndex + 1
        /\ playerActive' = [playerActive EXCEPT ![nextPlayerIndex] = TRUE]
        /\ m_groupToPlayers' = [m_groupToPlayers EXCEPT
             ![OffsetValue + nextGroupIndex] = @ \cup {nextPlayerIndex}]
        /\ entries' = entries \cup {OffsetValue + nextGroupIndex}
        /\ m_playerToGroup' = [m_playerToGroup EXCEPT
             ![nextPlayerIndex] = OffsetValue + nextGroupIndex]
    BY <1>1, <1>4, CountsAssumption DEF CreatePlayerWithGroup
  <2> QED
    BY <1>1, <1>2, <1>4, <2>1, <2>2, <2>3, CountsAssumption DEF TypeOK
<1> QED
  BY <1>1, <1>3, <1>4, CountsAssumption

LEMMA JoinGroupsType ==
  ASSUME TypeOK, NEW a \in GroupIds, NEW b \in GroupIds, JoinGroups(a, b)
  PROVE  TypeOK'
<1>1. UNCHANGED <<entries, counters, playerActive, flags, groupActive, failure>>
  BY DEF JoinGroups
<1>2. CASE UNCHANGED <<m_groupToPlayers, m_playerToGroup>>
  BY <1>1, <1>2 DEF TypeOK, counters, flags
<1>3. CASE ~UNCHANGED <<m_groupToPlayers, m_playerToGroup>>
  <2>1. PICK from \in {a, b}, to \in {a, b} :
          /\ m_groupToPlayers' =
               [m_groupToPlayers EXCEPT
                  ![to] = m_groupToPlayers[to] \cup m_groupToPlayers[from], ![from] = {}]
          /\ m_playerToGroup' =
               [p \in Players |->
                  IF p \in m_groupToPlayers[to] \cup m_groupToPlayers[from]
                  THEN to ELSE m_playerToGroup[p]]
    BY <1>3 DEF JoinGroups
  <2>2. from \in Keys /\ to \in Keys
    BY IdFacts
  <2> QED
    BY <1>1, <2>1, <2>2 DEF TypeOK, counters, flags
<1> QED
  BY <1>2, <1>3

LEMMA RemovePlayerType ==
  ASSUME TypeOK, NEW p \in Players, RemovePlayer(p)
  PROVE  TypeOK'
<1> DEFINE group == IF m_playerToGroup[p] = Absent THEN DefaultId ELSE m_playerToGroup[p]
<1>1. group \in Keys
  BY IdFacts DEF TypeOK
<1>2. /\ m_groupToPlayers' = [m_groupToPlayers EXCEPT ![group] = @ \ {p}]
      /\ entries' = entries \cup {group}
      /\ m_playerToGroup' = [m_playerToGroup EXCEPT ![p] = Absent]
      /\ playerActive' = [playerActive EXCEPT ![p] = FALSE]
      /\ UNCHANGED <<counters, flags, groupActive, failure>>
  BY DEF RemovePlayer
<1> HIDE DEF group
<1> QED
  BY <1>1, <1>2 DEF TypeOK, counters, flags

(***************************************************************************)
(* Pigeonhole: regroup never runs out of empty groups.  Every occupied     *)
(* group keeps a member that does not leave, so leavers and occupied       *)
(* groups together are no more than the players in the game, who are no    *)
(* more than the players ever created, who are no more than the groups     *)
(* that have entries.                                                      *)
(***************************************************************************)
LEMMA StayerInEveryGroup ==
  ASSUME NEW candidates \in SUBSET Players,
         NEW staying \in StayingChoices(candidates),
         NEW k \in entries, m_groupToPlayers[k] # {}
  PROVE  \E p \in m_groupToPlayers[k] : p \notin candidates \ staying
<1>1. CASE m_groupToPlayers[k] \subseteq candidates
  BY <1>1 DEF StayingChoices
<1>2. CASE ~(m_groupToPlayers[k] \subseteq candidates)
  BY <1>2
<1> QED
  BY <1>1, <1>2

LEMMA EnoughEmptyGroups ==
  ASSUME TypeOK, MembershipConsistent, EntriesCover, CountersAgree, failure = "none",
         NEW wantsOut, NEW staying \in StayingChoices(Candidates(wantsOut))
  PROVE  Cardinality(Candidates(wantsOut) \ staying) <= Cardinality(EmptyGroups)
<1> DEFINE leavers == Candidates(wantsOut) \ staying
           filled == {k \in entries : m_groupToPlayers[k] # {}}
           present == {p \in Players : m_playerToGroup[p] # Absent}
           created == OffsetValue .. OffsetValue + nextGroupIndex - 1
           stayer == [k \in filled |-> CHOOSE p \in m_groupToPlayers[k] : p \notin leavers]
           stayers == {stayer[k] : k \in filled}
<1>1. /\ IsFiniteSet(Players) /\ IsFiniteSet(Keys)
      /\ Candidates(wantsOut) \in SUBSET Players
  <2>1. IsFiniteSet(Players) /\ IsFiniteSet(GroupIds)
    BY FS_Interval, CountsAssumption DEF Players, GroupIds
  <2>2. IsFiniteSet(Keys)
    BY <2>1, FS_AddElement DEF Keys
  <2> QED
    BY <2>1, <2>2 DEF Candidates
<1>2. \A k \in filled : stayer[k] \in m_groupToPlayers[k] /\ stayer[k] \notin leavers
  BY <1>1, StayerInEveryGroup
<1>3. leavers \subseteq present /\ stayers \subseteq present /\ leavers \cap stayers = {}
  <2>1. entries \subseteq Keys /\ Absent \notin Keys
    BY IdFacts DEF TypeOK
  <2>2. leavers \subseteq present
    BY <2>1 DEF Candidates, MembershipConsistent
  <2>3. \A k \in filled : stayer[k] \in Players /\ m_playerToGroup[stayer[k]] = k
    BY <1>2, <2>1 DEF TypeOK, MembershipConsistent
  <2>4. stayers \subseteq present
    <3>1. \A k \in filled : stayer[k] \in present
      BY <2>1, <2>3
    <3> HIDE DEF stayer, present, filled
    <3> QED
      BY <3>1
  <2>5. \A p \in stayers : p \notin leavers
    BY <1>2
  <2> HIDE DEF leavers, stayers, present
  <2> QED
    BY <2>2, <2>4, <2>5
<1>4. Cardinality(stayers) = Cardinality(filled) /\ IsFiniteSet(filled) /\ IsFiniteSet(stayers)
  <2>1. IsFiniteSet(filled)
    BY <1>1, FS_Subset DEF TypeOK
  <2>2. \A k \in filled : k \in Keys /\ stayer[k] \in Players /\ m_playerToGroup[stayer[k]] = k
    BY <1>2 DEF TypeOK, MembershipConsistent
  <2>3. stayer \in [filled -> stayers] /\ DOMAIN stayer = filled
    OBVIOUS
  <2>4. \A p \in stayers : \E k \in filled : stayer[k] = p
    OBVIOUS
  <2>5. \A k, l \in filled : stayer[k] = stayer[l] => k = l
    BY <2>2
  <2> HIDE DEF stayer, stayers, filled
  <2>6. stayer \in Bijection(filled, stayers)
    BY <2>3, <2>4, <2>5 DEF Bijection, Injection, Surjection, IsInjective
  <2> QED
    BY <2>1, <2>6, FS_Bijection DEF ExistsBijection
<1>5. Cardinality(leavers) + Cardinality(filled) <= Cardinality(present)
  <2>1. IsFiniteSet(present) /\ IsFiniteSet(leavers)
    BY <1>1, <1>3, FS_Subset
  <2>2. Cardinality(leavers \cup stayers) = Cardinality(leavers) + Cardinality(stayers)
    <3>1. Cardinality(leavers \cap stayers) = 0
      BY <1>3, FS_EmptySet
    <3>2. Cardinality(leavers \cup stayers) =
            Cardinality(leavers) + Cardinality(stayers) - Cardinality(leavers \cap stayers)
      BY <1>4, <2>1, FS_Union
    <3> QED
      BY <1>4, <2>1, <3>1, <3>2, FS_CardinalityType
  <2>3. Cardinality(leavers \cup stayers) <= Cardinality(present)
    BY <1>3, <2>1, FS_Subset
  <2> QED
    BY <1>4, <2>2, <2>3
<1>6. Cardinality(present) <= nextGroupIndex
  <2>1. present \subseteq 0 .. nextGroupIndex - 1
    BY CountsAssumption DEF CountersAgree, TypeOK, Players
  <2>2. /\ IsFiniteSet(0 .. nextGroupIndex - 1)
        /\ Cardinality(0 .. nextGroupIndex - 1) = nextGroupIndex
    BY FS_Interval, CountsAssumption DEF TypeOK
  <2> QED
    BY <2>1, <2>2, FS_Subset
<1>7. nextGroupIndex <= Cardinality(entries)
  <2>1. created \subseteq entries
    BY CountsAssumption DEF EntriesCover, CountersAgree, TypeOK, GroupIds
  <2>2. Cardinality(created) = nextGroupIndex
    BY FS_Interval, CountsAssumption DEF TypeOK
  <2>3. IsFiniteSet(entries)
    BY <1>1, FS_Subset DEF TypeOK
  <2> QED
    BY <2>1, <2>2, <2>3, FS_Subset
<1>8. Cardinality(entries) = Cardinality(filled) + Cardinality(EmptyGroups)
  <2>1. IsFiniteSet(EmptyGroups)
    BY <1>1, FS_Subset DEF TypeOK, EmptyGroups
  <2>2. entries = filled \cup EmptyGroups /\ filled \cap EmptyGroups = {}
    BY DEF EmptyGroups
  <2>3. Cardinality(filled \cap EmptyGroups) = 0
    BY <2>2, FS_EmptySet
  <2>4. Cardinality(filled \cup EmptyGroups) =
          Cardinality(filled) + Cardinality(EmptyGroups) - Cardinality(filled \cap EmptyGroups)
    BY <1>4, <2>1, FS_Union
  <2>5. Cardinality(filled) \in Nat /\ Cardinality(EmptyGroups) \in Nat
    BY <1>4, <2>1, FS_CardinalityType
  <2>6. Cardinality(entries) = Cardinality(filled \cup EmptyGroups)
    BY <2>2
  <2> HIDE DEF filled
  <2> QED
    BY <2>3, <2>4, <2>5, <2>6
<1>9. /\ Cardinality(leavers) \in Nat /\ Cardinality(filled) \in Nat
      /\ Cardinality(present) \in Nat /\ Cardinality(EmptyGroups) \in Nat
      /\ nextGroupIndex \in Nat
  <2>1. IsFiniteSet(present) /\ IsFiniteSet(leavers) /\ IsFiniteSet(EmptyGroups)
    BY <1>1, <1>3, FS_Subset DEF TypeOK, EmptyGroups
  <2> QED
    BY <1>4, <2>1, FS_CardinalityType DEF TypeOK
<1> HIDE DEF leavers, filled, present
<1>10. Cardinality(leavers) <= Cardinality(EmptyGroups)
  BY <1>5, <1>6, <1>7, <1>8, <1>9
<1> QED
  BY <1>10 DEF leavers

(***************************************************************************)
(* Every action keeps the inductive invariant.                             *)
(***************************************************************************)
LEMMA InitInv == Init => IInv
<1> SUFFICES ASSUME Init PROVE IInv
  OBVIOUS
<1>1. TypeOK
  BY CountsAssumption DEF Init, TypeOK
<1>2. MembershipConsistent /\ ActiveIffGrouped
  BY IdFacts DEF Init, MembershipConsistent, ActiveIffGrouped
<1>3. EntriesCover /\ CountersAgree /\ OnlyCapacityFailure
  BY CountsAssumption DEF Init, EntriesCover, CountersAgree, OnlyCapacityFailure, GroupIds
<1> QED
  BY <1>1, <1>2, <1>3 DEF IInv

\* What an update does to the groups: there is always room for the leavers.
LEMMA UpdateMoves ==
  ASSUME IInv, NEW toggledJoinable, NEW toggledUngroup,
         Update(toggledJoinable, toggledUngroup)
  PROVE  \E candidates \in SUBSET Players : \E staying \in StayingChoices(candidates) :
           LET leavers == candidates \ staying IN
           /\ \E newGroup \in Injection(leavers, EmptyGroups) : MoveOut(leavers, newGroup)
           /\ ResetFlags(candidates, Toggle(joinable, toggledJoinable),
                         Toggle(ungroup, toggledUngroup))
           /\ RefreshGroups
           /\ UNCHANGED failure
           /\ leavers \subseteq {p \in Players : m_playerToGroup[p] # Absent}
<1> USE DEF IInv
<1> DEFINE wantsOut == Toggle(ungroup, toggledUngroup)
           candidates == Candidates(wantsOut)
<1>1. PICK staying \in StayingChoices(candidates) :
        LET leavers == candidates \ staying IN
        \/ /\ \E newGroup \in Injection(leavers, EmptyGroups) : MoveOut(leavers, newGroup)
           /\ ResetFlags(candidates, Toggle(joinable, toggledJoinable), wantsOut)
           /\ RefreshGroups
           /\ UNCHANGED failure
        \/ Cardinality(leavers) > Cardinality(EmptyGroups)
  BY Zenon DEF Update
<1> DEFINE leavers == candidates \ staying
<1>2. /\ Cardinality(leavers) <= Cardinality(EmptyGroups)
      /\ Cardinality(leavers) \in Nat /\ Cardinality(EmptyGroups) \in Nat
  <2>1. Cardinality(leavers) <= Cardinality(EmptyGroups)
    BY EnoughEmptyGroups DEF Update
  <2>2. IsFiniteSet(Players) /\ IsFiniteSet(GroupIds) /\ IsFiniteSet(Keys)
    <3>1. IsFiniteSet(Players) /\ IsFiniteSet(GroupIds)
      BY FS_Interval, CountsAssumption DEF Players, GroupIds
    <3> QED
      BY <3>1, FS_AddElement DEF Keys
  <2>3. leavers \in SUBSET Players /\ EmptyGroups \in SUBSET Keys
    BY DEF Candidates, EmptyGroups, TypeOK
  <2> HIDE DEF leavers
  <2> QED
    BY <2>1, <2>2, <2>3, FS_Subset, FS_CardinalityType
<1>3. ~(Cardinality(leavers) > Cardinality(EmptyGroups))
  <2> HIDE DEF leavers
  <2> QED
    BY <1>2
<1>4. leavers \subseteq {p \in Players : m_playerToGroup[p] # Absent}
  <2> SUFFICES ASSUME NEW p \in candidates
               PROVE  p \in Players /\ m_playerToGroup[p] # Absent
    OBVIOUS
  <2>1. PICK k \in entries : p \in m_groupToPlayers[k]
    BY DEF Candidates
  <2>2. p \in Players /\ k \in Keys
    BY DEF Candidates, TypeOK
  <2> QED
    BY <2>1, <2>2, IdFacts DEF MembershipConsistent
<1>5. candidates \in SUBSET Players
  BY DEF Candidates
<1> QED
  BY <1>1, <1>3, <1>4, <1>5, Zenon

LEMMA UpdateInv ==
  ASSUME IInv, NEW toggledJoinable, NEW toggledUngroup,
         Update(toggledJoinable, toggledUngroup)
  PROVE  IInv'
<1> USE DEF IInv
<1>1. TypeOK'
  BY UpdateType
<1>2. PICK leavers :
        /\ \E newGroup \in Injection(leavers, EmptyGroups) : MoveOut(leavers, newGroup)
        /\ RefreshGroups
        /\ UNCHANGED failure
        /\ leavers \subseteq {p \in Players : m_playerToGroup[p] # Absent}
  BY UpdateMoves, Zenon
<1>3. failure = "none" /\ UNCHANGED <<counters, playerActive>>
  BY DEF Update
<1>5. RefreshGroups /\ UNCHANGED failure
  BY <1>2
<1>6. PICK newGroup \in Injection(leavers, EmptyGroups) : MoveOut(leavers, newGroup)
  BY <1>2
<1>7. /\ newGroup \in [leavers -> EmptyGroups]
      /\ EmptyGroups \subseteq Keys
      /\ EmptyGroups \subseteq entries
      /\ leavers \subseteq {p \in Players : m_playerToGroup[p] # Absent}
  BY <1>2 DEF Injection, EmptyGroups, TypeOK
<1>8. MembershipConsistent'
  BY <1>6, <1>7, IdFacts DEF MoveOut, MembershipConsistent, TypeOK
<1>9. ActiveIffGrouped'
  BY <1>3, <1>6, <1>7, IdFacts DEF MoveOut, ActiveIffGrouped
<1>10. EntriesCover'
  <2>1. entries' = entries \cup GroupIds
    BY <1>5 DEF RefreshGroups
  <2>2. \A k \in Keys : m_groupToPlayers'[k] # {} => k \in entries'
    <3> SUFFICES ASSUME NEW k \in Keys, NEW p \in m_groupToPlayers'[k]
                 PROVE  k \in entries'
      OBVIOUS
    <3>1. CASE p \in leavers /\ newGroup[p] = k
      BY <3>1, <1>7, <2>1
    <3>2. CASE p \in m_groupToPlayers[k]
      BY <3>2, <2>1 DEF EntriesCover
    <3> QED
      BY <3>1, <3>2, <1>6 DEF MoveOut
  <2> QED
    BY <2>1, <2>2 DEF EntriesCover
<1>11. CountersAgree' /\ OnlyCapacityFailure'
  BY <1>3, <1>5, <1>6, <1>7 DEF MoveOut, CountersAgree, OnlyCapacityFailure, counters
<1> QED
  BY <1>1, <1>8, <1>9, <1>10, <1>11

LEMMA CreatePlayerWithGroupInv ==
  ASSUME IInv, CreatePlayerWithGroup
  PROVE  IInv'
<1> USE DEF IInv
<1>1. TypeOK'
  BY CreatePlayerWithGroupType
<1>2. /\ failure = "none" /\ nextGroupIndex = nextPlayerIndex
      /\ nextPlayerIndex \in 0 .. MaxPlayerCount
      /\ UNCHANGED <<groupActive, joinable, ungroup>>
  BY CountsAssumption DEF CreatePlayerWithGroup, CountersAgree, TypeOK, flags
<1>3. CASE nextPlayerIndex >= MaxPlayerCount
  <2>1. /\ failure' = "max_players" /\ nextPlayerIndex' = nextPlayerIndex + 1
        /\ UNCHANGED <<m_groupToPlayers, entries, m_playerToGroup, nextGroupIndex, playerActive>>
    BY <1>3 DEF CreatePlayerWithGroup
  <2>2. MembershipConsistent' /\ ActiveIffGrouped' /\ OnlyCapacityFailure'
    BY <2>1 DEF MembershipConsistent, ActiveIffGrouped, OnlyCapacityFailure
  <2>3. EntriesCover'
    BY <1>2, <2>1 DEF EntriesCover
  <2>4. CountersAgree'
    BY <1>2, <2>1, IdFacts DEF CountersAgree
  <2> QED
    BY <1>1, <2>2, <2>3, <2>4
<1>4. CASE nextPlayerIndex < MaxPlayerCount
  <2> DEFINE player == nextPlayerIndex
             group == OffsetValue + nextGroupIndex
  <2>1. player \in Players /\ group \in GroupIds /\ group \in Keys
    BY <1>2, <1>4, CountsAssumption DEF Players, GroupIds, Keys
  <2>2. /\ failure' = failure
        /\ nextPlayerIndex' = nextPlayerIndex + 1
        /\ nextGroupIndex' = nextGroupIndex + 1
        /\ playerActive' = [playerActive EXCEPT ![player] = TRUE]
        /\ m_groupToPlayers' = [m_groupToPlayers EXCEPT ![group] = @ \cup {player}]
        /\ entries' = entries \cup {group}
        /\ m_playerToGroup' = [m_playerToGroup EXCEPT ![player] = group]
    BY <1>2, <1>4, CountsAssumption DEF CreatePlayerWithGroup
  <2>3. m_playerToGroup[player] = Absent
    BY <1>2, <2>1, IdFacts DEF CountersAgree
  <2>4. MembershipConsistent'
    BY <2>1, <2>2, <2>3, IdFacts DEF MembershipConsistent, TypeOK
  <2>5. ActiveIffGrouped'
    BY <2>1, <2>2, IdFacts DEF ActiveIffGrouped, TypeOK
  <2>6. EntriesCover'
    <3>1. \A k \in Keys : m_groupToPlayers'[k] # {} => k \in entries'
      BY <2>1, <2>2 DEF EntriesCover, TypeOK
    <3>2. \A g \in GroupIds : g < OffsetValue + nextGroupIndex' => g \in entries'
      BY <1>2, <2>2, CountsAssumption DEF EntriesCover, GroupIds
    <3>3. (\E g \in GroupIds : groupActive'[g]) => GroupIds \subseteq entries'
      BY <1>2, <2>2 DEF EntriesCover
    <3> QED
      BY <3>1, <3>2, <3>3 DEF EntriesCover
  <2>7. CountersAgree' /\ OnlyCapacityFailure'
    BY <1>2, <1>4, <2>1, <2>2, IdFacts, CountsAssumption
    DEF CountersAgree, OnlyCapacityFailure, TypeOK
  <2> QED
    BY <1>1, <2>4, <2>5, <2>6, <2>7
<1> QED
  BY <1>2, <1>3, <1>4, CountsAssumption

LEMMA JoinGroupsInv ==
  ASSUME IInv, NEW a \in Active, NEW b \in Active \ {a}, JoinGroups(a, b)
  PROVE  IInv'
<1> USE DEF IInv
<1>1. a \in GroupIds /\ b \in GroupIds /\ a # b /\ GroupIds \subseteq entries
  BY DEF Active, EntriesCover
<1>2. TypeOK'
  BY <1>1, JoinGroupsType
<1>3. UNCHANGED <<entries, nextGroupIndex, nextPlayerIndex, playerActive, groupActive, failure>>
  BY DEF JoinGroups, counters
<1>4. CASE UNCHANGED <<m_groupToPlayers, m_playerToGroup>>
  BY <1>2, <1>3, <1>4
  DEF MembershipConsistent, ActiveIffGrouped, EntriesCover, CountersAgree, OnlyCapacityFailure
<1>5. CASE ~UNCHANGED <<m_groupToPlayers, m_playerToGroup>>
  <2>1. PICK from \in {a, b}, to \in {a, b} :
          /\ from # to
          /\ m_groupToPlayers' =
               [m_groupToPlayers EXCEPT
                  ![to] = m_groupToPlayers[to] \cup m_groupToPlayers[from], ![from] = {}]
          /\ m_playerToGroup' =
               [p \in Players |->
                  IF p \in m_groupToPlayers[to] \cup m_groupToPlayers[from]
                  THEN to ELSE m_playerToGroup[p]]
    BY <1>1, <1>5 DEF JoinGroups
  <2> DEFINE merged == m_groupToPlayers[to] \cup m_groupToPlayers[from]
  <2>2. from \in Keys /\ to \in Keys /\ from \in entries /\ to \in entries
    BY <1>1, IdFacts
  <2>3. /\ m_groupToPlayers'[to] = merged
        /\ m_groupToPlayers'[from] = {}
        /\ \A k \in Keys \ {from, to} : m_groupToPlayers'[k] = m_groupToPlayers[k]
    <3> HIDE DEF merged
    <3>1. m_groupToPlayers' = [m_groupToPlayers EXCEPT ![to] = merged, ![from] = {}]
      BY <2>1 DEF merged
    <3> QED
      BY <2>1, <2>2, <3>1 DEF TypeOK
  <2>4. \A p \in Players : p \in merged <=> m_playerToGroup[p] \in {from, to}
    BY <2>2 DEF MembershipConsistent
  <2>5. MembershipConsistent'
    <3>1. \A p \in Players :
            m_playerToGroup'[p] = IF p \in merged THEN to ELSE m_playerToGroup[p]
      BY <2>1
    <3> HIDE DEF merged
    <3>2. ASSUME NEW p \in Players, NEW k \in Keys
          PROVE  p \in m_groupToPlayers'[k] <=> m_playerToGroup'[p] = k
      <4>1. CASE k = to
        <5>1. m_groupToPlayers'[k] = merged
          BY <2>3, <4>1
        <5>2. m_playerToGroup'[p] = to <=> p \in merged
          BY <2>4, <3>1
        <5> QED
          BY <4>1, <5>1, <5>2
      <4>2. CASE k = from
        <5>1. m_groupToPlayers'[k] = {}
          BY <2>3, <4>2
        <5>2. m_playerToGroup'[p] # from
          BY <2>1, <2>4, <3>1
        <5> QED
          BY <4>2, <5>1, <5>2
      <4>3. CASE k \notin {from, to}
        BY <2>2, <2>3, <2>4, <3>1, <4>3 DEF MembershipConsistent
      <4> QED
        BY <4>1, <4>2, <4>3
    <3> QED
      BY <3>2 DEF MembershipConsistent
  <2>6. ActiveIffGrouped' /\ CountersAgree'
    BY <1>3, <2>1, <2>2, <2>4, IdFacts DEF ActiveIffGrouped, CountersAgree
  <2>7. EntriesCover'
    BY <1>1, <1>3, <2>2, <2>3 DEF EntriesCover
  <2>8. OnlyCapacityFailure'
    BY <1>3 DEF OnlyCapacityFailure
  <2> QED
    BY <1>2, <2>5, <2>6, <2>7, <2>8
<1> QED
  BY <1>4, <1>5

LEMMA RemovePlayerInv ==
  ASSUME IInv, NEW p \in Players, RemovePlayer(p)
  PROVE  IInv'
<1> USE DEF IInv
<1>1. TypeOK'
  BY RemovePlayerType
<1> DEFINE group == IF m_playerToGroup[p] = Absent THEN DefaultId ELSE m_playerToGroup[p]
<1>2. group \in Keys
  BY IdFacts DEF TypeOK
<1>3. \A k \in Keys : p \in m_groupToPlayers[k] => k = group
  BY IdFacts DEF MembershipConsistent
<1>4. /\ m_groupToPlayers' = [m_groupToPlayers EXCEPT ![group] = @ \ {p}]
      /\ entries' = entries \cup {group}
      /\ m_playerToGroup' = [m_playerToGroup EXCEPT ![p] = Absent]
      /\ playerActive' = [playerActive EXCEPT ![p] = FALSE]
      /\ UNCHANGED <<nextGroupIndex, nextPlayerIndex, groupActive, failure>>
  BY DEF RemovePlayer, counters
<1> HIDE DEF group
<1>5. MembershipConsistent'
  BY <1>2, <1>3, <1>4, IdFacts DEF MembershipConsistent, TypeOK
<1>6. ActiveIffGrouped'
  BY <1>4 DEF ActiveIffGrouped, TypeOK
<1>7. EntriesCover'
  BY <1>2, <1>4 DEF EntriesCover, TypeOK
<1>8. CountersAgree' /\ OnlyCapacityFailure'
  BY <1>4 DEF CountersAgree, OnlyCapacityFailure, TypeOK
<1> QED
  BY <1>1, <1>5, <1>6, <1>7, <1>8

LEMMA StutterInv == IInv /\ UNCHANGED vars => IInv'
BY DEF IInv, vars, TypeOK, MembershipConsistent, ActiveIffGrouped, EntriesCover, CountersAgree,
       OnlyCapacityFailure

LEMMA NextInv == IInv /\ [Next]_vars => IInv'
<1> SUFFICES ASSUME IInv, [Next]_vars PROVE IInv'
  OBVIOUS
<1>1. ASSUME NEW toggledJoinable \in SUBSET Commanded, NEW toggledUngroup \in SUBSET Commanded,
             Update(toggledJoinable, toggledUngroup)
      PROVE  IInv'
  BY <1>1, UpdateInv
<1>2. CASE CreatePlayerWithGroup
  BY <1>2, CreatePlayerWithGroupInv
<1>3. ASSUME NEW a \in Active, NEW b \in Active \ {a}, JoinGroups(a, b)
      PROVE  IInv'
  BY <1>3, JoinGroupsInv
<1>4. ASSUME NEW p \in Named, RemovePlayer(p)
      PROVE  IInv'
  BY <1>4, IdFacts, RemovePlayerInv DEF Named
<1>5. CASE Terminated
  BY <1>5, StutterInv DEF Terminated
<1>6. CASE UNCHANGED vars
  BY <1>6, StutterInv
<1> QED
  BY <1>1, <1>2, <1>3, <1>4, <1>5, <1>6 DEF Next

(***************************************************************************)
(* How a step may change a player's group.                                 *)
(***************************************************************************)

\* The body of LeaveAloneOrMergeWhole, for one player.
Moves(p) ==
  LET old == m_playerToGroup[p]
      new == m_playerToGroup'[p]
  IN old # Absent /\ new # Absent /\ old # new
     => LeftAlone(p, old, new) \/ MergedWhole(old, new)

LEMMA UpdateLeavesAlone ==
  ASSUME IInv, NEW toggledJoinable, NEW toggledUngroup,
         Update(toggledJoinable, toggledUngroup),
         NEW p \in Players, m_playerToGroup[p] # Absent,
         m_playerToGroup'[p] # m_playerToGroup[p]
  PROVE  LeftAlone(p, m_playerToGroup[p], m_playerToGroup'[p])
<1> USE DEF IInv
<1> DEFINE old == m_playerToGroup[p]
           new == m_playerToGroup'[p]
<1>0. PICK candidates \in SUBSET Players : \E staying \in StayingChoices(candidates) :
        LET leavers == candidates \ staying IN
        /\ \E newGroup \in Injection(leavers, EmptyGroups) : MoveOut(leavers, newGroup)
        /\ ResetFlags(candidates, Toggle(joinable, toggledJoinable),
                      Toggle(ungroup, toggledUngroup))
  BY UpdateMoves, Zenon
<1>1. PICK staying \in StayingChoices(candidates) :
        LET leavers == candidates \ staying IN
        /\ \E newGroup \in Injection(leavers, EmptyGroups) : MoveOut(leavers, newGroup)
        /\ ResetFlags(candidates, Toggle(joinable, toggledJoinable),
                      Toggle(ungroup, toggledUngroup))
  BY <1>0
<1> DEFINE leavers == candidates \ staying
<1>2. PICK newGroup \in Injection(leavers, EmptyGroups) : MoveOut(leavers, newGroup)
  BY <1>1
<1>3. /\ newGroup \in [leavers -> EmptyGroups]
      /\ \A q, r \in leavers : newGroup[q] = newGroup[r] => q = r
  BY DEF Injection, IsInjective
<1>4. p \in leavers /\ new = newGroup[p]
  BY <1>2 DEF MoveOut
<1>5. new \in Keys /\ m_groupToPlayers[new] = {}
  BY <1>3, <1>4 DEF EmptyGroups, TypeOK
<1>6. m_groupToPlayers'[new] = {p}
  <2>1. m_groupToPlayers'[new] = {q \in leavers : newGroup[q] = new}
    BY <1>2, <1>5 DEF MoveOut
  <2> QED
    BY <1>3, <1>4, <2>1
<1>7. m_groupToPlayers'[old] # {}
  <2>1. old \in Keys /\ p \in m_groupToPlayers[old] /\ old \in entries
    BY DEF TypeOK, MembershipConsistent, EntriesCover
  <2>2. PICK q \in m_groupToPlayers[old] : q \notin leavers
    BY <2>1, StayerInEveryGroup
  <2>3. q \in m_groupToPlayers'[old]
    BY <1>2, <2>1, <2>2 DEF MoveOut
  <2> QED
    BY <2>3
<1>8. ~ungroup'[p] /\ ~joinable'[p]
  BY <1>1, <1>4 DEF ResetFlags
<1> QED
  BY <1>5, <1>6, <1>7, <1>8 DEF LeftAlone

LEMMA JoinGroupsMergesWhole ==
  ASSUME IInv, NEW a \in Active, NEW b \in Active \ {a}, JoinGroups(a, b),
         NEW p \in Players, m_playerToGroup'[p] # m_playerToGroup[p]
  PROVE  MergedWhole(m_playerToGroup[p], m_playerToGroup'[p])
<1> USE DEF IInv
<1> DEFINE from == IF Size(a) > Size(b) THEN b ELSE a
           to == IF Size(a) > Size(b) THEN a ELSE b
           merged == m_groupToPlayers[to] \cup m_groupToPlayers[from]
<1>1. /\ IsJoinable(a) /\ IsJoinable(b)
      /\ m_groupToPlayers' = [m_groupToPlayers EXCEPT ![to] = merged, ![from] = {}]
      /\ m_playerToGroup' =
           [q \in Players |-> IF q \in merged THEN to ELSE m_playerToGroup[q]]
  BY DEF JoinGroups
<1>2. Size(from) <= Size(to)
  <2>1. IsFiniteSet(Players)
    BY FS_Interval, CountsAssumption DEF Players
  <2>2. m_groupToPlayers[a] \subseteq Players /\ m_groupToPlayers[b] \subseteq Players
    BY IdFacts DEF Active, TypeOK
  <2>3. Size(a) \in Nat /\ Size(b) \in Nat
    BY <2>1, <2>2, FS_Subset, FS_CardinalityType DEF Size
  <2> QED
    BY <2>3
<1>3. from \in {a, b} /\ to \in {a, b} /\ from # to /\ from \in Keys /\ to \in Keys
  BY IdFacts DEF Active
<1> HIDE DEF from, to
<1>4. m_playerToGroup'[p] = to /\ m_playerToGroup[p] = from
  BY <1>1, <1>3 DEF MembershipConsistent
<1>5. m_groupToPlayers'[to] = merged /\ m_groupToPlayers'[from] = {}
  <2> HIDE DEF merged
  <2> QED
    BY <1>1, <1>3 DEF TypeOK
<1>6. IsJoinable(from) /\ IsJoinable(to)
  BY <1>1, <1>3
<1> QED
  BY <1>2, <1>4, <1>5, <1>6 DEF MergedWhole

LEMMA NextMoves == IInv /\ [Next]_vars => \A p \in Players : Moves(p)
<1> SUFFICES ASSUME IInv, [Next]_vars, NEW p \in Players,
                    m_playerToGroup[p] # Absent, m_playerToGroup'[p] # Absent,
                    m_playerToGroup'[p] # m_playerToGroup[p]
             PROVE  LeftAlone(p, m_playerToGroup[p], m_playerToGroup'[p])
                    \/ MergedWhole(m_playerToGroup[p], m_playerToGroup'[p])
  BY DEF Moves
<1>1. ASSUME NEW toggledJoinable \in SUBSET Commanded, NEW toggledUngroup \in SUBSET Commanded,
             Update(toggledJoinable, toggledUngroup)
      PROVE  LeftAlone(p, m_playerToGroup[p], m_playerToGroup'[p])
  BY <1>1, UpdateLeavesAlone
<1>2. ASSUME CreatePlayerWithGroup
      PROVE  FALSE
  <2>1. m_playerToGroup[nextPlayerIndex] = Absent \/ nextPlayerIndex \notin Players
    BY CountsAssumption DEF IInv, CountersAgree, TypeOK, Players
  <2> QED
    BY <1>2, <2>1 DEF CreatePlayerWithGroup, IInv, TypeOK
<1>3. ASSUME NEW a \in Active, NEW b \in Active \ {a}, JoinGroups(a, b)
      PROVE  MergedWhole(m_playerToGroup[p], m_playerToGroup'[p])
  BY <1>3, JoinGroupsMergesWhole
<1>4. ASSUME NEW q \in Named, RemovePlayer(q)
      PROVE  FALSE
  BY <1>4 DEF RemovePlayer, IInv, TypeOK
<1>5. CASE UNCHANGED vars
  BY <1>5 DEF vars
<1> QED
  BY <1>1, <1>2, <1>3, <1>4, <1>5 DEF Next, Terminated

(***************************************************************************)
(* The theorems.                                                           *)
(***************************************************************************)

\* The inductive invariant holds in every reachable state.
THEOREM Invariance == Spec => []IInv
BY InitInv, NextInv, PTL DEF Spec

\* Every variable keeps its type.
THEOREM TypeCorrect == Spec => []TypeOK
<1>1. IInv => TypeOK
  BY DEF IInv
<1> QED
  BY Invariance, <1>1, PTL

\* The two maps of GroupController always describe one partition.
THEOREM Partition == Spec => []MembershipConsistent
<1>1. IInv => MembershipConsistent
  BY DEF IInv
<1> QED
  BY Invariance, <1>1, PTL

\* A player is active exactly while it is in a group.
THEOREM ActiveAgrees == Spec => []ActiveIffGrouped
<1>1. IInv => ActiveIffGrouped
  BY DEF IInv
<1> QED
  BY Invariance, <1>1, PTL

\* For any number of players regroup finds an empty group for everyone who
\* leaves, so the comment at GroupController.cpp:133 is right.
THEOREM RegroupNeverFails == Spec => []OnlyCapacityFailure
<1>1. IInv => OnlyCapacityFailure
  BY DEF IInv
<1> QED
  BY Invariance, <1>1, PTL

\* A player in a group changes groups only by leaving to be alone in an empty
\* group, or with its whole group, by mutual consent and into a larger one.
THEOREM GroupChanges == Spec => LeaveAloneOrMergeWhole
<1>1. IInv /\ [Next]_vars
      => [\A p \in Players :
            LET old == m_playerToGroup[p]
                new == m_playerToGroup'[p]
            IN old # Absent /\ new # Absent /\ old # new
               => LeftAlone(p, old, new) \/ MergedWhole(old, new)]_vars
  BY NextMoves DEF Moves
<1> QED
  BY Invariance, <1>1, PTL DEF Spec, LeaveAloneOrMergeWhole
=============================================================================
