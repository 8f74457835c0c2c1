--------------------------- MODULE GroupController ---------------------------
(***************************************************************************)
(* The server's record of who plays and who is allied with whom: the group *)
(* maps of GroupController, the flags of PlayerController, and the few     *)
(* lines of GameObjectController that drive both.  One action per call     *)
(* that reaches them: a computeGameState update, a collision event, a      *)
(* client-connected event, a client-disconnected event.                    *)
(*                                                                         *)
(* A vector of members is abstracted to the set of its elements.  The only *)
(* thing the code takes from its order is who stays behind when all of a   *)
(* group's members want to leave (the last one), which is left open here,  *)
(* as is the order in which the unordered_map yields the empty groups.     *)
(***************************************************************************)
EXTENDS Integers, FiniteSets, Functions

CONSTANTS
  MaxPlayerCount,  \* players, and groups, that GameObjectStore allocates
  OffsetValue      \* OFFSET_VALUE: ids of the i-th type start at i * OFFSET_VALUE

ASSUME CountsAssumption ==
  /\ MaxPlayerCount \in Nat \ {0}
  /\ OffsetValue \in Nat
  /\ MaxPlayerCount < OffsetValue  \* else IdFactory throws in GameObjectStore

Players == 0 .. MaxPlayerCount - 1
GroupIds == OffsetValue .. OffsetValue + MaxPlayerCount - 1

\* What operator[] of an unordered_map<uint32_t, uint32_t> answers for a missing key.
DefaultId == 0

\* The keys m_groupToPlayers may ever hold: the groups, and the default id.
Keys == GroupIds \cup {DefaultId}

Absent == -1  \* no entry in m_playerToGroup

VARIABLES
  m_groupToPlayers,  \* members of every key; empty for a key without an entry
  entries,           \* the keys that m_groupToPlayers has entries for
  m_playerToGroup,   \* group of every player, or Absent
  nextGroupIndex,
  nextPlayerIndex,
  playerActive,      \* Player::isActive
  joinable,          \* Player::m_joinable
  ungroup,           \* Player::m_ungroup
  groupActive,       \* Group::isActive, and its rigid body's
  failure            \* the uncaught exception that ended the process, or "none"

vars == <<m_groupToPlayers, entries, m_playerToGroup, nextGroupIndex, nextPlayerIndex,
          playerActive, joinable, ungroup, groupActive, failure>>

flags == <<joinable, ungroup>>
counters == <<nextGroupIndex, nextPlayerIndex>>

TypeOK ==
  /\ m_groupToPlayers \in [Keys -> SUBSET Players]
  /\ entries \in SUBSET Keys
  /\ m_playerToGroup \in [Players -> Keys \cup {Absent}]
  /\ nextGroupIndex \in 0 .. MaxPlayerCount + 1
  /\ nextPlayerIndex \in 0 .. MaxPlayerCount + 1
  /\ playerActive \in [Players -> BOOLEAN]
  /\ joinable \in [Players -> BOOLEAN]
  /\ ungroup \in [Players -> BOOLEAN]
  /\ groupActive \in [GroupIds -> BOOLEAN]
  /\ failure \in {"none", "max_players", "max_groups", "no_empty_group"}

Init ==
  /\ m_groupToPlayers = [k \in Keys |-> {}]
  /\ entries = {}
  /\ m_playerToGroup = [p \in Players |-> Absent]
  /\ nextGroupIndex = 0
  /\ nextPlayerIndex = 0
  /\ playerActive = [p \in Players |-> FALSE]
  /\ joinable = [p \in Players |-> FALSE]
  /\ ungroup = [p \in Players |-> FALSE]
  /\ groupActive = [g \in GroupIds |-> FALSE]
  /\ failure = "none"

(***************************************************************************)
(* What the members of a group, taken together, look like.                 *)
(***************************************************************************)
IsJoinable(g) == \E p \in m_groupToPlayers[g] : joinable[p]

Size(g) == Cardinality(m_groupToPlayers[g])

EmptyGroups == {k \in entries : m_groupToPlayers[k] = {}}

Alone(p) == m_playerToGroup[p] \in Keys /\ m_groupToPlayers[m_playerToGroup[p]] = {p}

-----------------------------------------------------------------------------
(***************************************************************************)
(* GameObjectController::update: the collected reliable inputs toggle      *)
(* flags, then every player that asked out of a group of two or more is    *)
(* moved to an empty group, then each group's active flag is recomputed.   *)
(***************************************************************************)
Toggle(flag, toggled) ==
  [p \in Players |-> IF p \in toggled THEN ~flag[p] ELSE flag[p]]

\* Mutant: a group of two counts as too small to leave.
CandidatesOfThree(wantsOut) ==
  {p \in Players : wantsOut[p] /\ \E k \in entries : p \in m_groupToPlayers[k]
                                                     /\ Cardinality(m_groupToPlayers[k]) > 2}

\* The players the first loop of regroup lists, given their ungroup flags.
Candidates(wantsOut) ==
  {p \in Players : wantsOut[p] /\ \E k \in entries : p \in m_groupToPlayers[k]
                                                     /\ m_groupToPlayers[k] # {p}}

\* Mutant: the second size check of regroup is missing, and nobody stays.
StayingChoicesNobody(candidates) == {{}}

\* Of a group whose members are all candidates the last one is alone by the
\* time its turn comes, and stays.
StayingChoices(candidates) ==
  {staying \in SUBSET candidates :
     \A k \in entries :
       IF m_groupToPlayers[k] # {} /\ m_groupToPlayers[k] \subseteq candidates
       THEN \E p \in m_groupToPlayers[k] : m_groupToPlayers[k] \cap staying = {p}
       ELSE m_groupToPlayers[k] \cap staying = {}}

\* Mutant: pop_back() is missing, and all leavers go to the same empty group.
MoveOutTogether(leavers, newGroup) ==
  LET target == newGroup[CHOOSE p \in leavers : TRUE]
  IN /\ m_groupToPlayers' =
          [k \in Keys |-> {p \in leavers : target = k} \cup (m_groupToPlayers[k] \ leavers)]
     /\ m_playerToGroup' =
          [p \in Players |-> IF p \in leavers THEN target ELSE m_playerToGroup[p]]

\* Mutant: the leaver's entry in m_playerToGroup is not updated.
MoveOutStaleIndex(leavers, newGroup) ==
  /\ m_groupToPlayers' =
       [k \in Keys |-> {p \in leavers : newGroup[p] = k}
                       \cup (m_groupToPlayers[k] \ leavers)]
  /\ UNCHANGED m_playerToGroup

\* Each leaver goes to an empty group of its own (empty_group_ids.back(), pop_back()).
MoveOut(leavers, newGroup) ==
  /\ m_groupToPlayers' =
       [k \in Keys |-> {p \in leavers : newGroup[p] = k}
                       \cup (m_groupToPlayers[k] \ leavers)]
  /\ m_playerToGroup' =
       [p \in Players |-> IF p \in leavers THEN newGroup[p] ELSE m_playerToGroup[p]]

ResetFlags(candidates, open, wantsOut) ==
  /\ joinable' = [p \in Players |-> open[p] /\ p \notin candidates]
  /\ ungroup' = [p \in Players |-> wantsOut[p] /\ p \notin candidates]

\* Mutant: refreshGroup looks a group up with find and makes no entry.
RefreshGroupsByFind ==
  /\ UNCHANGED entries
  /\ groupActive' =
       [g \in GroupIds |-> \E p \in m_groupToPlayers'[g] : playerActive[p]]

\* Mutant: refreshGroup activates a group but never deactivates one.
RefreshGroupsActivateOnly ==
  /\ entries' = entries \cup GroupIds
  /\ groupActive' =
       [g \in GroupIds |-> groupActive[g] \/ \E p \in m_groupToPlayers'[g] : playerActive[p]]

\* refreshGroup looks every allocated group up, which makes an entry for each.
RefreshGroups ==
  /\ entries' = entries \cup GroupIds
  /\ groupActive' =
       [g \in GroupIds |-> \E p \in m_groupToPlayers'[g] : playerActive[p]]

Update(toggledJoinable, toggledUngroup) ==
  /\ failure = "none"
  /\ LET open == Toggle(joinable, toggledJoinable)
         wantsOut == Toggle(ungroup, toggledUngroup)
         candidates == Candidates(wantsOut)
     IN \E staying \in StayingChoices(candidates) :
          LET leavers == candidates \ staying IN
          \/ /\ Cardinality(leavers) <= Cardinality(EmptyGroups)
             /\ \E newGroup \in Injection(leavers, EmptyGroups) : MoveOut(leavers, newGroup)
             /\ ResetFlags(candidates, open, wantsOut)
             /\ RefreshGroups
             /\ UNCHANGED failure
          \/ /\ Cardinality(leavers) > Cardinality(EmptyGroups)
             /\ failure' = "no_empty_group"  \* what it had changed by then is lost
             /\ UNCHANGED <<m_groupToPlayers, entries, m_playerToGroup, groupActive, flags>>
  /\ UNCHANGED <<counters, playerActive>>

\* Mutant: the bounds of createPlayer and createGroup are off by one.
CreatePlayerWithGroupOffByOne ==
  /\ failure = "none"
  /\ nextPlayerIndex' = nextPlayerIndex + 1
  /\ nextGroupIndex' = nextGroupIndex + 1
  /\ LET player == nextPlayerIndex
         group == OffsetValue + nextGroupIndex
     IN IF nextPlayerIndex > MaxPlayerCount
        THEN /\ failure' = "max_players"
             /\ UNCHANGED <<m_groupToPlayers, entries, m_playerToGroup, playerActive>>
        ELSE /\ m_groupToPlayers' = [m_groupToPlayers EXCEPT ![group] = @ \cup {player}]
             /\ entries' = entries \cup {group}
             /\ m_playerToGroup' = [m_playerToGroup EXCEPT ![player] = group]
             /\ playerActive' = [playerActive EXCEPT ![player] = TRUE]
             /\ UNCHANGED failure
  /\ UNCHANGED <<groupActive, flags>>

(***************************************************************************)
(* GameObjectController::createPlayerWithGroup: the next player, put into  *)
(* the next group, whoever may be in that group by now.                    *)
(***************************************************************************)
CreatePlayerWithGroup ==
  /\ failure = "none"
  /\ nextPlayerIndex' = nextPlayerIndex + 1
  /\ IF nextPlayerIndex >= MaxPlayerCount
     THEN /\ failure' = "max_players"
          /\ UNCHANGED <<m_groupToPlayers, entries, m_playerToGroup, nextGroupIndex, playerActive>>
     ELSE LET player == nextPlayerIndex
              group == OffsetValue + nextGroupIndex
          IN /\ playerActive' = [playerActive EXCEPT ![player] = TRUE]
             /\ nextGroupIndex' = nextGroupIndex + 1
             /\ IF nextGroupIndex >= MaxPlayerCount
                THEN /\ failure' = "max_groups"
                     /\ UNCHANGED <<m_groupToPlayers, entries, m_playerToGroup>>
                ELSE /\ m_groupToPlayers' = [m_groupToPlayers EXCEPT ![group] = @ \cup {player}]
                     /\ entries' = entries \cup {group}
                     /\ m_playerToGroup' = [m_playerToGroup EXCEPT ![player] = group]
                     /\ UNCHANGED failure
  /\ UNCHANGED <<groupActive, flags>>

(***************************************************************************)
(* GroupController::joinGroups, on a collision event between groups: the   *)
(* smaller one's members all move, and of two equals the first one's do.   *)
(***************************************************************************)
JoinGroups(a, b) ==
  /\ failure = "none"
  /\ IF IsJoinable(a) /\ IsJoinable(b)
     THEN LET from == IF Size(a) > Size(b) THEN b ELSE a
              to == IF Size(a) > Size(b) THEN a ELSE b
              merged == m_groupToPlayers[to] \cup m_groupToPlayers[from]
          IN /\ m_groupToPlayers' = [m_groupToPlayers EXCEPT ![to] = merged, ![from] = {}]
             /\ m_playerToGroup' =
                  [p \in Players |-> IF p \in merged THEN to ELSE m_playerToGroup[p]]
     ELSE UNCHANGED <<m_groupToPlayers, m_playerToGroup>>
  /\ UNCHANGED <<entries, counters, playerActive, flags, groupActive, failure>>

\* Mutant: PlayerController's listener is not registered.
RemovePlayerFromGroupOnly(p) ==
  /\ failure = "none"
  /\ LET group == IF m_playerToGroup[p] = Absent THEN DefaultId ELSE m_playerToGroup[p]
     IN /\ m_groupToPlayers' = [m_groupToPlayers EXCEPT ![group] = @ \ {p}]
        /\ entries' = entries \cup {group}
  /\ m_playerToGroup' = [m_playerToGroup EXCEPT ![p] = Absent]
  /\ UNCHANGED <<counters, playerActive, flags, groupActive, failure>>

(***************************************************************************)
(* The two listeners of a client-disconnected event.  For a player without *)
(* a group, operator[] answers the default id and the map gains that key.  *)
(***************************************************************************)
RemovePlayer(p) ==
  /\ failure = "none"
  /\ LET group == IF m_playerToGroup[p] = Absent THEN DefaultId ELSE m_playerToGroup[p]
     IN /\ m_groupToPlayers' = [m_groupToPlayers EXCEPT ![group] = @ \ {p}]
        /\ entries' = entries \cup {group}
  /\ m_playerToGroup' = [m_playerToGroup EXCEPT ![p] = Absent]
  /\ playerActive' = [playerActive EXCEPT ![p] = FALSE]
  /\ UNCHANGED <<counters, flags, groupActive, failure>>

-----------------------------------------------------------------------------
(***************************************************************************)
(* The component in its most general surroundings.  What the rest of the   *)
(* server guarantees: reliable inputs and disconnections name players that *)
(* are in the game, or the default id 0 (a lookup of a client that has no  *)
(* player); a collision is between two active bodies.  GameServer composes *)
(* the rest and is checked to respect this.                                *)
(***************************************************************************)
Named == {p \in Players : m_playerToGroup[p] # Absent} \cup {DefaultId}

\* A client sends reliable inputs only once it has been told its player's id.
Commanded == {p \in Named : p < nextPlayerIndex}

Active == {g \in GroupIds : groupActive[g]}

\* An uncaught exception ends the process.
Terminated == failure # "none" /\ UNCHANGED vars

Next ==
  \/ \E toggledJoinable \in SUBSET Commanded, toggledUngroup \in SUBSET Commanded :
       Update(toggledJoinable, toggledUngroup)
  \/ CreatePlayerWithGroup
  \/ \E a \in Active : \E b \in Active \ {a} : JoinGroups(a, b)
  \/ \E p \in Named : RemovePlayer(p)
  \/ Terminated

Spec == Init /\ [][Next]_vars

-----------------------------------------------------------------------------
(***************************************************************************)
(* Properties.                                                             *)
(***************************************************************************)

\* The two maps of GroupController describe one partition: a player is a
\* member of exactly the group that m_playerToGroup names for it, whatever
\* sequence of joins, departures, regroupings and default-id removals led here.
MembershipConsistent ==
  \A p \in Players, k \in Keys : p \in m_groupToPlayers[k] <=> m_playerToGroup[p] = k

\* PlayerController and GroupController agree on who is in the game, although
\* each has its own listener for a disconnection: refreshGroup relies on it.
ActiveIffGrouped ==
  \A p \in Players : playerActive[p] <=> m_playerToGroup[p] # Absent

\* "There should always be an empty group to regroup to" (GroupController.cpp:133):
\* neither regroup nor createGroup can throw; only a connection too many ends
\* the process.
OnlyCapacityFailure == failure \in {"none", "max_players"}

\* p's group changes from old to new the way a leaver's does: into an empty
\* group it has to itself, with its flags reset, and never the last to go.
LeftAlone(p, old, new) ==
  /\ m_groupToPlayers[new] = {}
  /\ m_groupToPlayers'[new] = {p}
  /\ m_groupToPlayers'[old] # {}
  /\ ~ungroup'[p] /\ ~joinable'[p]

\* p's group changes from old to new the way a merge does: all of the smaller
\* group, with the consent of a member on each side.
MergedWhole(old, new) ==
  /\ m_groupToPlayers'[new] = m_groupToPlayers[old] \cup m_groupToPlayers[new]
  /\ m_groupToPlayers'[old] = {}
  /\ IsJoinable(old) /\ IsJoinable(new)
  /\ Size(old) <= Size(new)

\* A player already in a group changes groups in two ways only: it leaves to be
\* alone, or its whole group merges into a larger one by mutual consent.
LeaveAloneOrMergeWhole ==
  [][\A p \in Players :
       LET old == m_playerToGroup[p]
           new == m_playerToGroup'[p]
       IN old # Absent /\ new # Absent /\ old # new
          => LeftAlone(p, old, new) \/ MergedWhole(old, new)]_vars

-----------------------------------------------------------------------------
(***************************************************************************)
(* What the documentation says, and the code does not do.                  *)
(***************************************************************************)

\* "Each player spawns as a circle" (README.md:12): createGroup gives a new
\* player a group nobody is in.
SpawnsAlone ==
  [][\A p \in Players :
       LET new == m_playerToGroup'[p]
       IN m_playerToGroup[p] = Absent /\ new # Absent => m_groupToPlayers[new] = {}]_vars

\* "A player may leave a group and become a solo circle at any time"
\* (README.md:17): every player's group is one of the circles, never the
\* default id, which no circle has.
HasCircle == \A p \in Players : m_playerToGroup[p] # DefaultId

-----------------------------------------------------------------------------
(***************************************************************************)
(* The inductive invariant behind them.                                    *)
(***************************************************************************)

\* Occupied groups have entries, so have the groups handed out by createGroup,
\* and once any group was refreshed all of them have.
EntriesCover ==
  /\ \A k \in Keys : m_groupToPlayers[k] # {} => k \in entries
  /\ \A g \in GroupIds : g < OffsetValue + nextGroupIndex => g \in entries
  /\ (\E g \in GroupIds : groupActive[g]) => GroupIds \subseteq entries

\* Players are handed out in order, each with a call of createGroup.
CountersAgree ==
  /\ \A p \in Players : m_playerToGroup[p] # Absent => p < nextPlayerIndex
  /\ failure = "none" => nextPlayerIndex = nextGroupIndex /\ nextPlayerIndex <= MaxPlayerCount

IInv ==
  /\ TypeOK
  /\ MembershipConsistent
  /\ ActiveIffGrouped
  /\ EntriesCover
  /\ CountersAgree
  /\ OnlyCapacityFailure
=============================================================================
