------------------------ MODULE GameObjectController ------------------------
(***************************************************************************)
(* Resources, the end of the game, and what a client is shown of it, on    *)
(* top of the groups: GameObjectController with ResourceController,        *)
(* MineController, LevelController and WinCondition on the server, the     *)
(* state it publishes once per step, and the same controllers at a client  *)
(* that applies the state and replays its collisions.                      *)
(*                                                                         *)
(* The order of a group's members is open, as in GroupController: it       *)
(* decides who is served when a mine has less than one unit for each.      *)
(* Which of the published states a client gets, and when, is ClientSync's  *)
(* subject; what it shows is a function of the state alone, so here it     *)
(* shows every one at once.  Ticks are left out.                           *)
(***************************************************************************)
EXTENDS GroupController, StateDef

CONSTANTS
  MaxMineCount,
  MineResourceCount,  \* MINE_RESOURCE_COUNT
  TotalRequirements,  \* TOTAL_RESOURCE_REQUIREMENTS
  UintMax,            \* the largest uint32_t
  UpdatesPerStep,     \* bound: updates in one step
  MaxCollisions       \* bound: collisions handled in one step

ASSUME ResourcesAssumption ==
  /\ MaxMineCount \in Nat /\ MaxMineCount < OffsetValue
  /\ ResourceTypeCount \in Nat /\ ResourceTypeCount > 1
  /\ MineResourceCount \in Nat
  /\ TotalRequirements \in Nat
  /\ UintMax \in Nat /\ MaxMineCount * MineResourceCount <= UintMax
  /\ UpdatesPerStep \in Nat /\ MaxCollisions \in Nat

VARIABLES
  m_resourceCounts,   \* ResourceController's counts; no entry is the same as zeros
  goals,              \* WinCondition::m_resourceCountsToWin of each player
  phase,              \* where the server's step is, and then the client
  updates,            \* updates made in this step
  status,             \* m_gameStateCore.status
  winner,             \* m_gameStateCore.winner_player_id
  collisions,         \* m_gameStateEvent: handled since the last publication
  packet,             \* the published state on its way to the client
  clientGroups,       \* the client's m_groupToPlayers
  clientPlayerToGroup,
  clientJoinable,
  clientCounts,       \* the client's m_resourceCounts
  clientCore,         \* the client's m_gameStateCore
  clientEvents        \* collisions the client has queued

clientVars == <<clientGroups, clientPlayerToGroup, clientJoinable, clientCounts, clientCore,
                clientEvents>>
stepVars == <<goals, phase, updates, status, winner, collisions, packet>>
objectVars == <<vars, m_resourceCounts, stepVars, clientVars>>

ResourceTypes == 1 .. ResourceTypeCount

MineIds == 2 * OffsetValue .. 2 * OffsetValue + MaxMineCount - 1

Holders == Players \cup MineIds

MineType(m) == ((m - 2 * OffsetValue) % ResourceTypeCount) + 1

Counts == [Holders -> [ResourceTypes -> 0 .. MaxMineCount * MineResourceCount]]

NoCounts == [h \in Holders |-> [t \in ResourceTypes |-> 0]]

(***************************************************************************)
(* ResourceController.                                                     *)
(***************************************************************************)
Add(counts, id, type, n) ==
  [counts EXCEPT ![id][type] = IF @ > UintMax - n THEN UintMax ELSE @ + n]

\* Mutant: the receiver is given what was asked for, not what was subtracted.
MoveUnchecked(counts, from, to, type, n) ==
  LET subtracted == IF counts[from][type] < n THEN counts[from][type] ELSE n
  IN Add([counts EXCEPT ![from][type] = @ - subtracted], to, type, n)

\* Mutant: subtract does not look whether there is enough.
MoveUnderflow(counts, from, to, type, n) ==
  Add([counts EXCEPT ![from][type] = @ - n], to, type, n)

Move(counts, from, to, type, n) ==
  LET subtracted == IF counts[from][type] < n THEN counts[from][type] ELSE n
  IN Add([counts EXCEPT ![from][type] = @ - subtracted], to, type, subtracted)

\* Mutant: the mine's whole stock goes to the member whose turn it is.
TransferAll(counts, m, members) ==
  FoldLeft(LAMBDA c, p : Move(c, m, p, MineType(m), MineResourceCount), counts, members)

\* transferResources: a unit for each member, in the order of the vector.
Transfer(counts, m, members) ==
  FoldLeft(LAMBDA c, p : Move(c, m, p, MineType(m), 1), counts, members)

(***************************************************************************)
(* LevelController::loadLevelMineRing fills every mine; WinCondition picks *)
(* a player's main resource at random.                                     *)
(***************************************************************************)
LoadedCounts ==
  [h \in Holders |-> [t \in ResourceTypes |->
     IF h \in MineIds /\ MineType(h) = t THEN MineResourceCount ELSE 0]]

Goal(primary) ==
  LET main == (TotalRequirements \div ResourceTypeCount) * 2
  IN [t \in ResourceTypes |->
        IF t = primary THEN main ELSE (TotalRequirements - main) \div (ResourceTypeCount - 1)]

\* Mutant: one type is enough.
SatisfiesConditionAny(goal, have) == \E t \in ResourceTypes : have[t] >= goal[t]

SatisfiesCondition(goal, have) == \A t \in ResourceTypes : have[t] >= goal[t]

ActivePlayers == {p \in Players : playerActive[p]}

Satisfied(counts) == {p \in ActivePlayers : SatisfiesCondition(goals[p], counts[p])}

\* What a collision may be between: two groups, or a group and a mine.
Bodies == (GroupIds \X (GroupIds \cup MineIds)) \cup (MineIds \X GroupIds)

ServerStateOK ==
  /\ m_resourceCounts \in Counts
  /\ goals \in [Players -> {Goal(t) : t \in ResourceTypes}]
  /\ phase \in {"idle", "events", "show", "replay"}
  /\ updates \in 0 .. UpdatesPerStep
  /\ status \in {"playing", "game_over"}
  /\ winner \in Players

ObjectTypeOK ==
  /\ ServerStateOK
  /\ collisions \in Seq(Bodies)
  /\ packet \in Seq(Nat)
  /\ clientGroups \in [Keys -> SUBSET Players]
  /\ clientPlayerToGroup \in [Players -> Keys \cup {Absent}]
  /\ clientJoinable \in [Players -> BOOLEAN]
  /\ clientCounts \in Counts
  /\ clientCore.winner \in Players

ObjectInit ==
  /\ Init
  /\ m_resourceCounts = LoadedCounts
  /\ \E primary \in [Players -> ResourceTypes] : goals = [p \in Players |-> Goal(primary[p])]
  /\ phase = "idle"
  /\ updates = 0
  /\ status = "playing"
  /\ winner = 0
  /\ collisions = <<>>
  /\ packet = <<>>
  /\ clientGroups = [k \in Keys |-> {}]
  /\ clientPlayerToGroup = [p \in Players |-> Absent]
  /\ clientJoinable = [p \in Players |-> FALSE]
  /\ clientCounts = NoCounts  \* a client loads the empty level
  /\ clientEvents = <<>>
  /\ clientCore = [tick |-> 0, status |-> "not_started", winner |-> 0]

-----------------------------------------------------------------------------
(***************************************************************************)
(* The server: updates, each followed by the events of its tick, and then  *)
(* the publication.                                                        *)
(***************************************************************************)

\* What the client shows is forgotten when the server goes on, to keep the state
\* space small: the next state replaces all of it without reading it.
ForgetShown ==
  /\ clientGroups' = [k \in Keys |-> {}]
  /\ clientPlayerToGroup' = [p \in Players |-> Absent]
  /\ clientJoinable' = [p \in Players |-> FALSE]
  /\ clientCounts' = NoCounts
  /\ UNCHANGED <<clientEvents, clientCore>>

\* Mutant: an update does not look whether the game is over.
UpdateObjectsAfterOver(toggledJoinable, toggledUngroup) ==
  /\ phase \in {"idle", "events"}
  /\ updates < UpdatesPerStep
  /\ updates > 0 => toggledJoinable = {} /\ toggledUngroup = {}
  /\ Update(toggledJoinable, toggledUngroup)
  /\ updates' = updates + 1
  /\ phase' = "events"
  /\ ForgetShown
  /\ UNCHANGED <<m_resourceCounts, goals, status, winner, collisions, packet>>

\* The inputs of a step are good for its first update.
UpdateObjects(toggledJoinable, toggledUngroup) ==
  /\ phase \in {"idle", "events"}
  /\ status = "playing"
  /\ updates < UpdatesPerStep
  /\ updates > 0 => toggledJoinable = {} /\ toggledUngroup = {}
  /\ Update(toggledJoinable, toggledUngroup)
  /\ updates' = updates + 1
  /\ phase' = "events"
  /\ ForgetShown
  /\ UNCHANGED <<m_resourceCounts, goals, status, winner, collisions, packet>>

CanCollide == phase = "events" /\ failure = "none" /\ Len(collisions) < MaxCollisions

CollideGroups(a, b) ==
  /\ CanCollide
  /\ JoinGroups(a, b)
  /\ collisions' = Append(collisions, <<a, b>>)
  /\ UNCHANGED <<m_resourceCounts, goals, phase, updates, status, winner, packet, clientVars>>

\* The group may have lost its members to an earlier event of the same tick.
CollideWithMine(g, m) ==
  /\ CanCollide
  /\ \E members \in SetToSeqs(m_groupToPlayers[g]) :
       m_resourceCounts' = Transfer(m_resourceCounts, m, members)
  /\ collisions' = Append(collisions, <<g, m>>)
  /\ UNCHANGED <<vars, goals, phase, updates, status, winner, packet, clientVars>>

ConnectClient ==
  /\ phase = "events"
  /\ CreatePlayerWithGroup
  /\ UNCHANGED <<m_resourceCounts, stepVars, clientVars>>

DisconnectClient(p) ==
  /\ phase = "events"
  /\ RemovePlayer(p)
  /\ UNCHANGED <<m_resourceCounts, stepVars, clientVars>>

\* Mutant: the counts of those who are in the game are sent, not of those who left.
HoldersListedActive == MineIds \cup {p \in Players : playerActive[p]}

\* The mines, and whoever has anything: an entry of zeros is as good as none.
HoldersListed == MineIds \cup {p \in Players : m_resourceCounts[p] # NoCounts[p]}

GroupUpdate(g) == [id |-> g, active |-> groupActive[g]]

MineUpdate(m) == [id |-> m, active |-> TRUE]

PlayerUpdate(p) ==
  [id |-> p, active |-> playerActive[p], joinable |-> joinable[p], ungroup |-> ungroup[p],
   goals |-> goals[p]]

\* Every allocated object is listed; of the two maps, what is not empty.
GameStateObject ==
  [groups |-> [i \in 1 .. MaxPlayerCount |-> GroupUpdate(OffsetValue + i - 1)],
   mines |-> [i \in 1 .. MaxMineCount |-> MineUpdate(2 * OffsetValue + i - 1)],
   players |-> [i \in 1 .. MaxPlayerCount |-> PlayerUpdate(i - 1)],
   members |-> SetToSeq({[id |-> k, players |-> SetToSeq(m_groupToPlayers[k])] :
                           k \in {k \in Keys : m_groupToPlayers[k] # {}}}),
   counts |-> SetToSeq({[id |-> h, counts |-> m_resourceCounts[h]] : h \in HoldersListed})]

GameStateCore == [tick |-> 0, status |-> status, winner |-> winner]

\* Mutant: the collisions stay in the list after they were published.
PostUpdateKeepsCollisions ==
  /\ phase = "events"
  /\ failure = "none"
  /\ LET satisfied == Satisfied(m_resourceCounts)
     IN IF satisfied = {}
        THEN UNCHANGED <<status, winner>>
        ELSE /\ status' = "game_over"
             /\ winner' \in satisfied
             /\ \A p \in satisfied : winner' <= p
  /\ packet' = WriteGameState([object |-> GameStateObject, event |-> collisions,
                               core |-> GameStateCore'])
  /\ updates' = 0
  /\ phase' = "show"
  /\ UNCHANGED <<vars, m_resourceCounts, goals, collisions, clientVars>>

\* ServerGameController::postUpdate: the active player with the lowest id that
\* has reached its goal wins; the state is published in either case.
PostUpdate ==
  /\ phase = "events"
  /\ failure = "none"
  /\ LET satisfied == Satisfied(m_resourceCounts)
     IN IF satisfied = {}
        THEN UNCHANGED <<status, winner>>
        ELSE /\ status' = "game_over"
             /\ winner' \in satisfied
             /\ \A p \in satisfied : winner' <= p
  /\ packet' = WriteGameState([object |-> GameStateObject, event |-> collisions,
                               core |-> GameStateCore'])
  /\ collisions' = <<>>
  /\ updates' = 0
  /\ phase' = "show"
  /\ UNCHANGED <<vars, m_resourceCounts, goals, clientVars>>

-----------------------------------------------------------------------------
(***************************************************************************)
(* The client, in ClientGameController::updateGameState.                   *)
(***************************************************************************)
Listed(list, id) == {i \in DOMAIN list : list[i].id = id}

\* The client's controllers are the same code, called for a collision only.
Client ==
  INSTANCE GroupController WITH
    m_groupToPlayers <- clientGroups,
    m_playerToGroup <- clientPlayerToGroup,
    joinable <- clientJoinable,
    entries <- Keys,
    nextGroupIndex <- 0,
    nextPlayerIndex <- 0,
    playerActive <- [p \in Players |-> FALSE],
    ungroup <- [p \in Players |-> FALSE],
    groupActive <- [g \in GroupIds |-> FALSE],
    failure <- "none"

\* All a client reads of a player's update is whether it is joinable.
ApplyPlayers(list) == clientJoinable' = [p \in Players |-> list[p + 1].joinable]

\* Both controllers' applyUpdates forget what they had.
ApplyCounts(list) ==
  clientCounts' =
    [h \in Holders |-> IF Listed(list, h) = {} THEN NoCounts[h]
                       ELSE list[CHOOSE i \in Listed(list, h) : TRUE].counts]

ApplyGroups(list) ==
  /\ clientGroups' =
       [k \in Keys |-> UNION {Range(list[i].players) : i \in Listed(list, k)}]
  /\ clientPlayerToGroup' =
       [p \in Players |->
          IF \E i \in DOMAIN list : p \in Range(list[i].players)
          THEN list[CHOOSE i \in DOMAIN list : p \in Range(list[i].players)].id ELSE Absent]

\* Of the last state only the core is taken over; of all others the objects
\* too, and their collisions are queued.
ShowGameState ==
  /\ phase = "show"
  /\ packet' = <<>>
  /\ LET state == ReadGameState(packet)
     IN /\ clientCore' = state.core
        /\ \/ /\ state.core.status = "game_over"
              /\ phase' = "idle"
              /\ UNCHANGED <<clientGroups, clientPlayerToGroup, clientJoinable, clientCounts,
                             clientEvents>>
           \/ /\ state.core.status # "game_over"
              /\ ApplyPlayers(state.object.players)
              /\ ApplyGroups(state.object.members)
              /\ ApplyCounts(state.object.counts)
              /\ clientEvents' = state.event
              /\ phase' = IF state.event = <<>> THEN "idle" ELSE "replay"
  /\ UNCHANGED <<vars, m_resourceCounts, goals, updates, status, winner, collisions>>

\* applyGameStateEvents: the listeners of the server's collisions run again,
\* on a state in which their effects are already there.
ReplayCollision ==
  /\ phase = "replay"
  /\ \E a, b \in GroupIds \cup MineIds :
       /\ Head(clientEvents) = <<a, b>>
       /\ \/ a \in GroupIds /\ b \in GroupIds /\ Client!JoinGroups(a, b) /\ UNCHANGED clientCounts
          \/ \E g \in GroupIds \cap {a, b}, m \in MineIds \cap {a, b} :
               /\ \E members \in SetToSeqs(clientGroups[g]) :
                    clientCounts' = Transfer(clientCounts, m, members)
               /\ UNCHANGED <<clientGroups, clientPlayerToGroup>>
  /\ clientEvents' = Tail(clientEvents)
  /\ phase' = IF clientEvents' = <<>> THEN "idle" ELSE "replay"
  /\ UNCHANGED <<vars, m_resourceCounts, goals, updates, status, winner, collisions, packet,
                 clientJoinable, clientCore>>

-----------------------------------------------------------------------------
\* The game is over for all, or a connection too many has ended the process.
Stopped ==
  /\ (status = "game_over" /\ phase = "idle") \/ failure # "none"
  /\ UNCHANGED objectVars

ObjectNext ==
  \/ \E toggledJoinable \in SUBSET Commanded, toggledUngroup \in SUBSET Commanded :
       UpdateObjects(toggledJoinable, toggledUngroup)
  \/ \E a \in Active : \E b \in Active \ {a} : CollideGroups(a, b)
  \/ \E g \in Active, m \in MineIds : CollideWithMine(g, m)
  \/ ConnectClient
  \/ \E p \in Named : DisconnectClient(p)
  \/ PostUpdate
  \/ ShowGameState
  \/ ReplayCollision
  \/ Stopped

ObjectSpec == ObjectInit /\ [][ObjectNext]_objectVars

-----------------------------------------------------------------------------
(***************************************************************************)
(* Properties.                                                             *)
(***************************************************************************)
Total(counts, t) == MapThenSumSet(LAMBDA h : counts[h][t], Holders)

\* Bumping into mines moves units and neither makes nor loses any, whoever is in
\* the group, however little the mine has left, and whoever goes away.
ResourcesConserved ==
  \A t \in ResourceTypes : Total(m_resourceCounts, t) = Total(LoadedCounts, t)

\* No more does what a client does to its copy, in which it moves units again that
\* were moved before the state was published.
ClientConserves ==
  phase \in {"idle", "replay"} /\ clientCore.status = "playing" =>
    \A t \in ResourceTypes : Total(clientCounts, t) = Total(LoadedCounts, t)

\* A bump gives a unit to everybody in the group, unless the mine runs out on the
\* way, and nobody ever gives one back.
OneUnitEach ==
  [][LET Gain(p, t) == m_resourceCounts'[p][t] - m_resourceCounts[p][t]
         RanOut(t) == \E m \in MineIds : m_resourceCounts[m][t] > 0 /\ m_resourceCounts'[m][t] = 0
     IN \A p \in Players, t \in ResourceTypes :
          /\ Gain(p, t) \in {0, 1}
          /\ Gain(p, t) = 1 =>
               \A q \in Players : m_playerToGroup[q] = m_playerToGroup[p]
                                  => Gain(q, t) = 1 \/ RanOut(t)]_objectVars

\* The game is over as soon as a step ends in which an active player has reached
\* its goal, and only then; the winner is one of these.
EndsWhenWon ==
  /\ phase \in {"idle", "show", "replay"} /\ status = "playing" /\ failure = "none" =>
       \A p \in Players : playerActive[p] =>
         \E t \in ResourceTypes : m_resourceCounts[p][t] < goals[p][t]
  /\ status = "game_over" =>
       /\ playerActive[winner]
       /\ \A t \in ResourceTypes : m_resourceCounts[winner][t] >= goals[winner][t]

\* A client makes of a packet the state that was published, with all collisions since
\* the last publication, in their order.
PacketReadsBack ==
  [][phase = "events" /\ phase' = "show" =>
       ReadGameState(packet') =
         [object |-> GameStateObject', event |-> collisions, core |-> GameStateCore']]_objectVars

\* Replaying the collisions of a state merges no groups that the server has not
\* merged: in between the state's groups are the client's groups, and its two
\* maps are one partition.
SameGroups ==
  /\ clientGroups = m_groupToPlayers
  /\ clientPlayerToGroup = m_playerToGroup

ClientShowsGroups == phase = "idle" /\ status = "playing" => SameGroups

CountsAhead ==
  /\ \A p \in Players, t \in ResourceTypes : clientCounts[p][t] >= m_resourceCounts[p][t]
  /\ \A m \in MineIds, t \in ResourceTypes : clientCounts[m][t] <= m_resourceCounts[m][t]

\* A client that has replayed a state's collisions is ahead of the server's
\* counts, by what the mines may give out next, and never behind them.
ClientCountsAhead == phase = "idle" /\ status = "playing" => CountsAhead

-----------------------------------------------------------------------------
(***************************************************************************)
(* The inductive invariants: the server's, and the client's on top of it.  *)
(***************************************************************************)

\* A game that is over stays as it was when it was won: no update, and so no event,
\* comes after.
OverIsOver == status = "game_over" => phase # "events"

ObjectIInv ==
  /\ IInv
  /\ ServerStateOK
  /\ ResourcesConserved
  /\ EndsWhenWon
  /\ OverIsOver

\* No collision in the list is between groups that would merge if it came again.
Settled(list) ==
  \A i \in DOMAIN list : \A a, b \in GroupIds :
    list[i] = <<a, b>> => ~ (IsJoinable(a) /\ IsJoinable(b))

\* Inputs, which alone make a group joinable, come before the collisions of a step.
CollisionsSettled ==
  /\ phase = "events" => updates > 0
  /\ phase # "events" => collisions = <<>>
  /\ Settled(collisions)

\* A player that is still to be created opens no group.
NewcomersClosed == \A p \in Players : p >= nextPlayerIndex => ~joinable[p]

\* What is published holds until it is shown.
PublishedHolds ==
  phase = "show" => /\ ReadGameState(packet).object = GameStateObject
                    /\ ReadGameState(packet).core = GameStateCore

PublishedSettled ==
  phase = "show" => /\ ReadGameState(packet).event \in Seq(Bodies)
                    /\ Settled(ReadGameState(packet).event)

ReplayIsStable ==
  phase = "replay" =>
    /\ status = "playing" /\ clientCore.status = "playing"
    /\ SameGroups /\ clientJoinable = joinable
    /\ CountsAhead
    /\ clientEvents \in Seq(Bodies) /\ clientEvents # <<>> /\ Settled(clientEvents)

ClientIInv ==
  /\ ObjectIInv
  /\ ObjectTypeOK
  /\ CollisionsSettled
  /\ NewcomersClosed
  /\ PublishedHolds
  /\ PublishedSettled
  /\ ReplayIsStable
  /\ ClientShowsGroups
  /\ ClientConserves
  /\ ClientCountsAhead
=============================================================================
