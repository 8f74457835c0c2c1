# A TLA+ verification of Ungroup

Ungroup is a multiplayer game: players steer circles, form temporary alliances
by colliding, collect resources from mines and win by reaching a personal goal.
A server runs the rules; clients send inputs (reliable ones over TCP, movement
over UDP) and receive the whole game state over UDP.

This directory holds TLA+ modules of the program's own logic, TLC
configurations that check them on small instances, and TLAPS proofs for
every size. Sources are named relative to the repository, e.g.
`src/common/systems/GroupController.cpp`; `PROJECT.json` gives the lines each
definition translates.

## 1. Inventory of the system

| Component | State | Operations | What makes it correct |
|---|---|---|---|
| `GroupController` | `m_groupToPlayers` (group id -> members), `m_playerToGroup`, `nextGroupIndex` | `createGroup`, `regroup`, `refreshGroup`, `joinGroups`, `removePlayer`, `applyUpdate` (client) | the two maps are one partition; regroup always finds an empty group; alliances form by mutual consent and dissolve one player at a time |
| `PlayerController`, `Player` | active flag, `m_joinable`, `m_ungroup`, direction, `nextPlayerIndex` | `createPlayer`, `update` (toggles), `removePlayer` | active exactly while in a group; a toggle acts once |
| `GameObjectController` | owns the controllers | `update`, `createPlayerWithGroup`, `transferResources`, `getGameStateObject`, `applyGameStateObject` | order of the sub-updates |
| `ResourceController`, `MineController`, `WinCondition` | resource counts and capacities per holder | `add`, `subtract`, `move`, `getGameOver` | resources are conserved; the winner reached its goal |
| `EventController` | one queue, listeners per type, two mutexes | `queueEvent` (locks), `forceQueueEvent`, `forceProcessEvents`, `lock`/`unlock` | every queued event is handled once, in order |
| `GameController`, `ServerGameController` | status, tick, time accumulator | `step`, `computeGameState`, `update`, `postUpdate` | inputs act once; the game ends once |
| `NetworkingServer` | client -> player, -> ip, -> port maps, collected inputs, the published state, five mutexes, four threads | `collectClientInputs` (the window), `registerClient`, `sendPlayerId`, `setClientReliableUpdate`, `clientDisconnect`, UDP receive and broadcast, NAT punching | a client steers its own player and nobody else's; nobody waits forever |
| `NetworkingClient` | sockets, input queues, the buffer of game states | `registerClient`, `fetchPlayerId`, `updateGameStateBuffer`, sending threads, NAT punches | the buffer holds the newest distinct ticks; toggles arrive once and in order; movement settles |
| `ClientGameController` | its own tick and status | `behind`, `ahead`, `interpolateGameState`, `sendInputs` | never interpolates to the past; ticks do not run backwards; catches up |
| `PhysicsController` | rigid bodies and the order they are visited in | `step`, `resolveCollisions`, `resolveMapBounds` | bodies that collided are moved apart; groups stay on the map and outside mines |
| `LevelController` | none | `loadLevel` | every mine is filled once, on the server only |
| `StateDef`, `network_util` | none | packet operators, `receiveWithTimeout` | reader and writer agree |
| `InputController`, `InputUtil` | keys pressed since the last poll | `getUnreliableInput`, `inputToDirection` | opposite keys cancel each other |
| `Bot` | none | `getGroupieMove`, `getNearestGreedyMove` | a bot gets what it needs although its view is old |
| `TemporalMetric`, rendering, settings, entry points | counters, textures, constants | display and start-up | (no rule of the game depends on them) |
| `GameObjectStore`, `IdFactory` | all objects, allocated once | `getNextId`, `getIndex`, `getType` | ids are unique and recover index and type |

How they interact. The main thread of the server runs `step` in a loop. It
holds the locks on the event queue, the collected inputs and the published
state all the time except for a 16 ms window in `collectClientInputs`. The TCP
thread serves one socket at a time and, to register, disconnect or take an
input, has to get through a window. Within an update the order is fixed:
inputs, regroup, physics (which queues collisions), then all queued events in
order; handlers may queue more (`PlayerCreatedEvent`). Each component listens
to events on its own.

The behaviours that are hard to test: what the TCP thread read before it
waited is acted on later (`clientDisconnect`); events of several kinds
interleave in one queue; the group maps go through long sequences of merges and
departures; ids are invented by `operator[]` lookups; several members leave one
group in one update; client and server ticks race over a lossy network. They
are listed with their lines under `hazards` in `PROJECT.json`.

## 2. The modules

| Module | Models | Checked by |
|---|---|---|
| `GroupController` | the group maps, the player flags, and the calls that reach them | runs `group_controller`, `spawns_alone`, `solo_circle` |
| `GroupController_proofs` | theorems about it, for every number of players | TLAPS |
| `GameServer` | the main thread and the TCP thread around `GroupController` (which it extends) | `game_server`, `game_server_fair`, `disconnect_removes_player_0`, `solo_ungroup_flag` |
| `GameServer_proofs` | theorems about it, for every number of players and clients | TLAPS |
| `GameObjectController` | resources, mines, the win, the published state and a client that applies it; extends `GroupController` and `StateDef`, and instantiates `GroupController` a second time for the client | `objects` |
| `GameObjectController_proofs` | theorems about its server, its packet and its client, for every number of players, mines, types and units | TLAPS |
| `StateDef` | the packet of a game state | `objects` |
| `GameStateFeed` | abstract: what a player is shown of a game | as the property `ImplementsFeed` |
| `ClientSync` | the broadcast over a lossy network, NAT punches, the client's buffer, ticks and status | `client_sync` |
| `ClientSync_proofs` | theorems about it, for every buffer size and number of ticks | TLAPS |
| `InputChannel` | abstract: what a player's toggles are promised | as the property `ImplementsChannel` |
| `PlayerInputs` | one player's inputs, from registration to the game | `player_inputs` |
| `PlayerInputs_proofs` | theorems about it, for all inputs and bounds | TLAPS |
| `PhysicsController` | rigid bodies on a line | through `Bot` |
| `Bot` | players and bots on that line | `bots`, `mine_collision` |
| `Bot_proofs` | theorems about the motion on it, for every number of bodies, all sizes and speeds | TLAPS |
| `ListCodec` | nothing of the program: lemmas on lists written with their length in front, for any way to write a part | TLAPS |
| `FoldTheorems` | nothing of the program: lemmas on loops, sums and sequences in a row for the proofs | TLAPS |
| `MC...` | nothing: instances for TLC | |

### GroupController

One action per call: `Update` (inputs, `regroup`, `refreshGroup` of every
group), `CreatePlayerWithGroup`, `JoinGroups`, `RemovePlayer`. A member vector
is abstracted to the set of its elements: the code takes from its order only
who stays when all members of a group leave in one update, and that choice is
left open (`StayingChoices`), as is the order in which the `unordered_map`
offers its empty groups (`MoveOut` under any injection). `entries` are the keys
the map has entries for, because `regroup` can only use those, and because
lookups with `operator[]` add some, among them the default key 0.

Toggles are one set per flag: of a batch of inputs only the parity per
player matters. The radius, mass and direction that `updateGroup` computes are
in `PhysicsController`; nothing here reads them. An uncaught exception ends the
process (`main` catches only option errors): `failure` names it.

The module's `Next` puts no order on the calls and lets inputs and
disconnections name any player in the game, or player 0 (the default of a failed
lookup), and any two active groups collide. `GameServer` is checked to
stay within that (`ImplementsGroupController`).

### GameServer

`phase` is the place in `step`: `window` (locks released), `update`, `physics`,
`events`, `post`. `tcpCall` is what the TCP thread is blocked on: a handler runs
up to the lock (`RegisterClient`, `SetClientReliableUpdate`, `ClientDisconnect`)
in any phase, and the rest (`QueueEvent`, `PushReliableInput`) needs the
window. So a handler's reads and its effects are two steps with any number of
main-thread steps between them. `clientState` follows one connection: absent,
connected, registered, playing (told its player), gone. That a client sends
inputs only when playing is the client's own rule, modelled in `PlayerInputs`,
and ids are never reused (`m_clientIdCounter`).

Physics is a choice of up to `MaxCollisions` collisions between active groups;
the end of the game may come after any step with an active player. Reads and
writes of `m_clientToPlayerIds_t` are atomic steps here, although the code
writes it without its lock (see the hazards).

### GameObjectController and StateDef

A step of the server makes updates; each is followed by events in any order:
collisions of two groups, collisions with a mine (`transferResources`, one unit
per member in the order of the vector, which is open), connections and
disconnections. `PostUpdate` looks for the winner, packs the state and clears the
list of collisions; `PacketReadsBack` is about this step, and compares objects, core and
that list. `ShowGameState` unpacks it at the client, where the same
controllers take it over (`applyUpdate`) and the published collisions are queued
and handled again (`ReplayCollision`, with an instance of `GroupController`
over the client's maps).

`StateDef` writes a packet as a sequence of numbers, and reads it back as the code
does: without type tags, lengths in the stream. Fields that no modelled state
has (positions, radii, intents) are left out. What the client shows is forgotten
when the server goes on (`ForgetShown`), because the next state replaces it.

### ClientSync and GameStateFeed

One client and the server's ticks, published states and game end. `network` is a
set: a state may be lost, delivered again, or late. `buffer` is the `std::map`
of `updateGameStateBuffer`. The client's main thread is `FinishRegistration`,
`PreUpdate` (which waits for a full buffer) and `Update`, which is the end of the
game, `Behind` or `Ahead`; `InterpolateGameState` crashes the client where the
code throws. `clientPort` is the server's `m_clientToUdpPorts_t` entry: until a
NAT punch (`SendNatPunch`, `NatRecv`) has corrected it, nothing that is
broadcast gets to the client.

`GameStateFeed` says what that amounts to: the shown game starts after the
server's, moves forward only, never ahead of it, and ends with the server's
winner. `Feed` is the refinement mapping.

### PlayerInputs and InputChannel

One client and its connection. The client's main thread registers, asks for its
player until it is told (`RequestPlayerId`, `ReceiveTimeout`,
`ReceivePlayerId`; an early request's answer may arrive late, and further answers
stay unread), then queues toggles and keeps the last movement in a slot. The
sending threads, the two server threads that wait for the window, and the main
thread's steps are actions of their own. A tick is modelled by its `lag` behind
the server's, which is the drift the server computes; a movement whose lag has
reached the threshold is dropped. The slot is uninitialised until the first
push and is sent from registration on, so the model starts with any keys in it.

`InputChannel` promises that every toggle counts once and in order. `pushed`,
`turns` and `done` are history variables.

### PhysicsController and Bot

The world is the line through the middle of the map and the first mine, in whole
units; half units round up and a velocity approaches its target by one unit per
update. The rest is the code's: bodies stepped with the sum of the members'
directions, the stable partition that changes the order of visits, every ordered
pair, who is moved by how much, impulses, the correction at the bounds and the
collision events. `HandleCollisions` merges groups or moves resources, and ignores
a pair of mines. Departures and connections of the window were queued before the
update's collisions, so `Update` handles them first (`RemovePlayers`, `CreateGroups`):
a player that leaves takes no unit any more, and a new one is added to what there is in
its group. `Regroup` offers every empty group, also one that is not handed out yet.
`InBounds` is said of the moment an update ends: before the next one `Regroup` may
move an empty group's circle, whose size `UpdateGroups` sets later.

`Bot` adds the players. A human presses anything and is joinable at any moment; a
bot follows `getGroupieMove`: the nearest joinable group, or else the nearest
mine with something it needs. `BotMove` sets the bot's direction at any moment,
and any number of updates go by with that direction.

## 3. Runs, bounds and what they show

| Run | Instance | Shows |
|---|---|---|
| `group_controller` | 3 players | the type invariant, `MembershipConsistent`, `ActiveIffGrouped`, `OnlyCapacityFailure`, the inductive invariant `IInv`, and the action property `LeaveAloneOrMergeWhole` |
| `game_server` | 3 clients (symmetric), 2 players, 1 update per step, 1 collision per update | `CirclesMatchGroups`, `UngroupServed`, `PlayersNotShared`, `KeepsPlayer`, and the inductive invariant `ServerIInv` |
| `game_server_fair` | 2 clients, 2 players, 2 updates per step | the refinement `ImplementsGroupController`, and `RegisteredGetsPlayer` |
| `objects` | 2 players, 2 types, 1 mine of 2 units, a goal of 1, 2 updates and 2 collisions per step | `ResourcesConserved`, `ClientConserves`, `OneUnitEach`, `EndsWhenWon`, `PacketReadsBack`, `ClientShowsGroups`, `ClientCountsAhead`, and `ClientIInv`, the inductive invariant of server, packet and client |
| `client_sync` | buffer of 3, behind threshold 1, ticks to 5, 2 winners, a NAT that changes the port | `NeverThePast`, `BufferIsNewest`, `EndIsFinal`, the refinement `ImplementsFeed` with its liveness, `FullBufferStarts`, `EndReachesClient` |
| `player_inputs` | 2 presses among two moves and two toggles, 1 unread TCP message, 2 datagrams, threshold 2, 3 types | `InputsHavePlayer`, the inductive invariant `InputsIInv`, the refinement `ImplementsChannel` with its liveness, `DirectionSettles`, `GetsPlayerOrEnds` |
| `bots` | a bot and a human, 1 mine of 2 units, a goal of 2, radii 2 and 3, bounds 9, velocities to 2 | the action properties `InBounds` and `MinesAreFirm`, `BotCollects`, and the inductive invariant `BotIInv`, in which every unit is accounted for |
| `spawns_alone` | 3 players | violated: a new player can spawn inside another player's group |
| `solo_circle` | 3 players | violated: a leaver can end up under key 0, which is no circle |
| `disconnect_removes_player_0` | 3 clients | violated: a connection without a player takes player 0 with it |
| `solo_ungroup_flag` | 3 clients | violated: an ungroup request made alone is never reset |
| `mine_collision` | as `bots` | violated: a group that ran into a mine still overlaps it after the collision was resolved |

Bounds. Three players are the fewest with a group that two members leave in one
update, with a merge of unequal groups, and with a third group for
`createGroup` to hand out after a departure. Three clients for two players
make one connection too many. Two updates per step is what the shipped settings
give (16 ms window, 8 ms step); one is the other case the loop distinguishes
(inputs are consumed by the first update). `MaxCollisions` bounds the collisions
of one step only; `GroupController` alone is checked, and proved, with
any number of them in a row. In `objects`, two units for two players let a mine
run out between the members of a group, and two collisions a merge be followed by
a mine in one published state.

`MaxTick` 5 with a buffer of 3 lets states be skipped, arrive after they left
the buffer, and put the client behind by more than the threshold or ahead of the
buffer. Two toggles are the fewest whose order and parity matter; two datagrams
the fewest that overtake each other; a lag counts to the threshold, since beyond
it inputs are treated alike. One client is enough where clients share nothing
(`ClientSync`, `PlayerInputs`); `GameServer` has those that share.

The speed in `bots` is below the radii, as with the shipped settings (at most 9
units per update against radii of 10 and 40), so that a group can go more than one step
into the mine without passing its centre; `MinesAreFirm` is about those. With bounds of 9
there is room for two groups before the mine, and none behind it, since the mine reaches
over the edge. A goal of two units makes the bot of `BotCollects` come back: a contact at
speed gives one unit and throws the bot off, and it has to turn and reach the mine again.

Symmetry is used for client ids only, which are fresh model values and never
compared, and not in the runs with a liveness property. Deadlock is
checked in every run; a server that ended its process or its game stutters
explicitly (`Terminated`, `Stopped`).

Fairness.
- `game_server_fair`: the main thread keeps running (weak fairness: it never
  waits for the others), and strong fairness of a waiting call and of each
  client's `SendPlayerId`: in a window of 16 ms nobody else wants the locks, and
  `reliableRecvSend` serves all ready sockets in turn. The property excepts a
  client that goes away, a process that ended, and a game that is over.
- `client_sync`: weak fairness of the client's main thread, the broadcast and the
  punches (loops that never wait); strong fairness of the reception of the
  published state: the network may lose any datagram, but not all copies of one
  that is sent for ever. Nothing is assumed of the server's game.
- `player_inputs`: weak fairness of all loops; strong fairness of what waits for
  the window, and of the reception of a datagram with the present input and a
  small enough lag. Nothing is assumed of the player or the end of the game.
- `bots`: updates go on for ever (the loop of the server, while the game is on) and
  a bot's client sends its move again and again. Nothing is assumed of humans;
  `BotCollects` is about a bot that is alone from some moment on.

## 4. What is proved

### GroupController_proofs

It assumes only `CountsAssumption`: at least one player, and fewer players than
`OFFSET_VALUE` (otherwise `IdFactory` throws before the game starts). For every
number of players:

- `Invariance`: `Spec => []IInv`. `IInv` is the conjunction of the type
  invariant, the partition, the agreement of the two controllers, and two facts
  needed to make it inductive: `EntriesCover` (occupied groups, groups handed
  out, and after the first refresh all groups have entries in the map) and
  `CountersAgree` (players and groups are handed out in step).
- `TypeCorrect`, `Partition`, `ActiveAgrees` follow from it.
- `RegroupNeverFails`: the comment "There should always be an empty group to
  regroup to since there are an equal number of players and groups"
  (`GroupController.cpp:133`) is right, though not for the reason it gives, because
  `regroup` sees only groups with entries. The argument is a pigeonhole
  (`EnoughEmptyGroups`): every occupied group keeps a member who does not
  leave, so leavers plus occupied groups are at most the players in the game, who
  are at most the players ever created, each of whom gave the map an entry.
- `GroupChanges`: every step satisfies `LeaveAloneOrMergeWhole`. It needs that the
  new groups are distinct (`MoveOut` under an injection), that a member stays
  (`StayerInEveryGroup`) and the partition.

The proofs go action by action: a lemma for types, one for the invariant, and one for
how the groups change, combined in `NextInv` and `NextMoves`.

### ClientSync_proofs

It assumes `SyncAssumption`: buffers hold more than one state, the number of ticks is
below the limit at which they wrap, and the model's markers are not players. For
every buffer size, threshold, number of ticks and set of winners, and whatever
the network does:

- `SyncInvariance`: `SyncSpec => []SyncInv`, from which `SyncTypeCorrect`,
  `NeverInterpolatesToThePast`, `BufferHoldsNewest` and `EndStaysFinal` follow.
- `FeedRefinement`: `SyncSpec => Feed!FeedSafety`, the safety part of the
  refinement of `GameStateFeed`.

`SyncInv` adds to the properties that every state under way is `Genuine`: one
that the server published before its present tick, or its last one. Only so is
a tick enough to identify a state, and the final state not shadowed by an older
one with its tick. And it says that a client that plays has a full buffer without
tick 0: the client's own tick starts below it, and a full buffer stays full and
only gets newer (`BufferStep`), so that the smallest buffered tick never falls
behind. `interpolateGameState` therefore never throws.

### GameServer_proofs

It assumes `CountsAssumption` and `ServerAssumption` (no bound on anything but that
bounds are numbers). For every number of players, clients, updates per step and
collisions per update, and every interleaving of the two threads:

- `ServerInvariance`: `ServerSpec => []ServerIInv`, from which `ServerTypeCorrect`,
  `CirclesAreGroups`, `UngroupIsServed`, `OnePlayerEach` and `PlayerIsKept` follow.
- `ServerRefinement`: `ServerSpec => ImplementsGroupController`.
- `GroupsSafeOnServer`: by the refinement, the safety properties of `GroupController`
  hold of the server, however late a lookup is acted upon.

`ServerIInv` adds to `IInv` which client has a claim to which player: two clients never
have a claim to the same one (`ClaimedOnce`), the player of a client that is there can
be commanded (`ClaimsHold`), and a departure that is queued, or waits for the window,
names a player in the game that no other departure names and no client that is there
has (`DepartsOnce`). Player 0, the default of a failed lookup, is excepted: a
connection that ends without a player names it, too. `InputsCurrent` and `CollisionsCurrent` say that
what was collected in the window, or by the physics, is about players and groups
that are there when it is used; for that the order of the phases is needed.
`StepImplements` maps each action to one of `GroupController` or to a stutter.

### PlayerInputs_proofs

For every choice of inputs, thresholds, periods and bounds:

- `InputsInvariance`: `InputsSpec => []InputsIInv`, from which `InputsTypeCorrect` and
  `PlayerBeforeInputs` follow.
- `ChannelImplemented`: `InputsSpec => Channel!ChannelSafety`, the safety part of
  the refinement of `InputChannel`.

`HandshakeInOrder` says what can be under way in each state of the client: a client
past `waiting` has a player (`ToldHasPlayer`), and nothing but its request is
unanswered before. `InTransit` says that the client's queue, the connection and the
inputs collected in the window, read one after the other, are what was pressed
and not yet acted upon, in order and once, until the game is over. `ToggledAsDone` says that the
game's flags are what has been acted upon, counted modulo the period.

### GameObjectController_proofs

It extends `GroupController_proofs`. For every number of players, mines, types and
units that fits a `uint32_t`:

- `ObjectInvariance`: `ObjectSpec => []ObjectIInv`, from which `UnitsConserved` and
  `EndsRight` follow.
- `BumpsAreFair`: every step satisfies `OneUnitEach`.
- `ImplementsGroups`: `ObjectSpec => Spec`, and with it `GroupsSafeWithResources`: the safety
  properties of `GroupController` hold of the game with resources, an end and clients.

`Total` is a sum over the holders in any order (`TotalIs`). A move takes from
one what it gives to another (`SumShift`); nothing saturates, because no two holders
together have more than was loaded (`HeldBounds`). A bump is a loop over the members
in an order that is open: its invariant (`TurnsTaken`) is that those who had their
turn have one unit more, unless the mine was empty by then. That the winner stays
active needs `OverIsOver`: a player can leave only between the events of an update, and
none is made when the game is over.

On the packet, and on a client that gets every state, for all states the server can
publish and not those of one instance alone:

- `StatesArriveWhole`: `ObjectSpec => PacketReadsBack`: objects, events and core. Nothing marks where a list
  ends but the count in front of it, so a list is read back only if each part is
  read back *whatever follows it*. `ListCodec` has this as its assumption on a part
  and proves it of the list; the member list is itself a part of the next one.
- `ClientInvariance`: `ObjectSpec => []ClientIInv`, from which `ObjectTypes`,
  `ClientFollows` (`ClientShowsGroups`), `ReplayConserves` (`ClientConserves`) and
  `ReplayRunsAhead` (`ClientCountsAhead`) follow.

A client applies a state and then replays its collisions, although the state already has
their effects. `ClientShowsGroups` says that this changes no group, and the reason is a
matter of order: groups become joinable only with the inputs, at the start of a
step, and the step's collisions come afterwards. After the step one of any two groups
that collided is therefore empty or cannot be joined (`Settled`), and remains so until the
state is published: `CollisionsSettled` while the collisions are recorded,
`NewcomersClosed` for the groups that become occupied behind them, `PublishedHolds` and
`PublishedSettled` for what was sent, and `ReplayIsStable` for a client midway through the replay. For the units,
the replay is the same loop over the members as the server's (`TurnsTaken`), on the client's
own counts: what it gives to players it takes from mines.

### Bot_proofs

It assumes `PhysicsAssumption`: sizes are positive, and a group of all players fits the
map (10 times 50 players against 600, as shipped). For every number of players, bots
and mines, any sizes and speeds:

- `BotInvariance`: `BotSpec => []BotIInv`.
- `EndsOnMap`: `BotSpec => InBounds`.
- `MinesHold`: `BotSpec => MinesAreFirm`.

A world of bodies (`Worlds`) stays one through the steps of an update: a body that is
not movable stays as it is, a velocity is limited, and an active group has a mass, so that impulses are never
divided by zero (`UpdateGroupsWorld`, `StepKeeps`, `ResolveCollisionsKeep`,
`ResolveMapBoundsBrings`). The pairs are visited by a loop (`LoopStays`), and so
are the collisions handled (`HandleCollisionsKeep`); there the sum of the units is
kept because a mine serves no more members than it has units (`ServedAreFew`). The
correction at the bounds is last and puts a circle to the edge (`CorrectionBrings`), and
the stable partition loses no body (`PartitionKeepsAll`).

`MinesAreFirm` is about a group that meets nothing else, because other groups can push it
anywhere (section 5), and about one `Depth`: how far it is in the mine, seen from the
middle of the map. A step adds at most `MaxVelocity` to it (`StepGoes`). The code then visits
the pair twice: if the group comes first it is moved out whole, and if the mine does, by
half the overlap, so that a visit leaves at most half the depth (`MinePushes`,
`CollisionHalves`), and half of what a step went in and a rest is less than one of the two.
The invariant of the loop (`LoopFollows`) is that the group is on its way out
(`Course`) and, once the pair has had its visit, that it is `Firm`; every pair has its
visit (`PairVisited`), because the partition loses no body. A mine on the other side of
the map is out of reach all the while (`OtherSide`), and a correction at the bounds does not
push a group that has room behind the mine into it (`BoundsAreFirm`). With the shipped sizes
all groups have that room: 50 players make a circle 1000 units across, and there are 1040. If two
steps are less than both radii together (18 against 50), a group that an update left
at most a step deep starts the next one in time again.

### FoldTheorems

The induction theorems of the library take an operator as a parameter, which the
provers cannot instantiate. Here an inductive property is a set of numbers
or of sets (`NatSetInduction`, `FiniteSetInduction`, from the least element of a set
of numbers) and a recursive step is a function, so that `FiniteSetRecursion`
shows that there is a function with a given recursive equation. Since `FoldLeft`,
the sums of the community modules and the recursive functions of the models are each
some function with such an equation, they have the values of a loop
(`FoldValues`, `LoopExists`) or of a sum that does not depend on the order
(`SumAnyOrder`, `SumUnique`). The last section is on `FlattenSeq`: the values of
sequences laid out in a row, and where one begins (`LaidOut`, `ListLayout`).

### ListCodec

Its constants are a way to write a part and to read it. If a part is read back whatever
follows it, then so is a list of parts (`ListReadsBack`). Since a lemma cannot
take an operator as a parameter, the module is instantiated once for each kind of list
in the packet.

### Only model-checked

All liveness, which is out of the installed provers' reach: `RegisteredGetsPlayer`, the
liveness parts of `ImplementsFeed` and `ImplementsChannel`, `FullBufferStarts`,
`EndReachesClient`, `DirectionSettles`, `GetsPlayerOrEnds`, `BotCollects`. Every
invariant, action property and refinement that a passing run checks is a theorem.

## 5. What the modelling showed besides the findings

- A client that has received fewer distinct ticks than its buffer holds when the
  server stops, stays on the waiting screen for ever; a client that registers
  after `game_over` asks for its player for ever.
- The `core.tick` that a client shows can go back when a late state fills a gap of the
  buffer; its own tick does not.
- A client loads the level `empty`: what it knows of mines comes from the first
  state alone. At `game_over` it takes the core but not the last objects.
- Replayed collisions give a mine's units a second time at the client, until the
  next state (`ClientCountsAhead`); replayed merges do nothing.
- If several players have reached their goals at the end of a step, the lowest id
  wins, whoever came first (`README.md:14`: "The first player to reach their goal of
  resources wins").
- A key that is pressed and released between two polls is lost.
- Groups with the same centre have no direction to be moved apart in
  (`normalize` of a zero vector): they collide twice per update and stay where
  they are. A leaver starts so, on the spot of its former group.
- Both orders of a pair are visited: a group at rest that overlaps a mine has two
  collisions, and takes two units, in one update.
- A position is the corner of a circle's box: a group that grows shifts its centre.
- A group that becomes active again starts with the velocity it had.
- A mine is firm only for a group that meets nothing else. A group that overlaps another is
  moved by half the overlap at once, which may be more than a mine is wide: of two players of
  radius 3, one can be pushed through a mine of radius 2 (bounds 14) even at velocity 1.
- The comment at `Bot.cpp:5-7`, on the groupie strategy, is that of the greedy one.

## 6. What is not modelled

- Mutexes one by one. The windows are one lock, and each access to a map is atomic. That
  the five are taken in one order, so that nobody waits for one another, was compared
  by reading.
  The unlocked write at `NetworkingServer.cpp:105` and the first `unlock` of free
  mutexes are undefined behaviour inside the library, with no outcome that a model
  of the game's state could choose from.
- The plane and floating point: the models of motion are on a line, in integers.
  Tangential sliding along a circle's edge does not exist there.
- Whole units also hide that a bot keeps the nearest distance in a `uint32_t`
  (`Bot.cpp:15,23`): of two groups whose
  distances differ by less than a unit it may take the first.
- In `PhysicsController`, key 0 of the group map (the run `solo_circle` is about it) and
  a bot's departure: a lookup that makes the key is of a player without a group, and
  the bots, which the properties are about, stay.
- Errors of sockets and packets that do not unpack. The client goes on for any status but
  `NotReady` (`NetworkingClient.cpp:259`) and files a state that was not read; in
  `ClientSync` a datagram that arrives is received whole.
- The ring of mines, the game's goals beyond two types of resource, and
  `Mine::m_resourceCount`, which nothing reads.
- The way of a bot's toggle: a bot that does not see its own toggle yet may toggle
  again. Random strategies are covered by humans, who press anything.
- Wrap-around of ticks: 2^32 ticks of 8 ms are more than a year of play.
- Where between two states the client draws a body; rendering, resources, the
  terminal, metrics (`TemporalMetric`), settings, options and scripts: they display or set
  constants, and no rule of the game reads them back.

## 7. Plan

1. *(done)* `GroupController`, its runs and its proofs.
2. *(done)* `GameServer`, composed of it; the refinement checked by TLC.
3. *(done)* `ClientSync`, its abstract specification, its runs and proofs.
4. *(done)* `GameObjectController` with `StateDef`: resources, the win, replication.
5. *(done)* `PlayerInputs` with `InputChannel`: the handshake and the inputs.
6. *(done)* `PhysicsController` and `Bot`.
7. *(done)* Proofs about the server with its threads, its resources and its motion, and
   about the input path.
8. *(done)* The packet, read back whatever follows a list, and what a client shows.
9. *(done)* A mine that is firm at all sizes and speeds, in place of a property of one instance.
10. The proofs gone over for length: the six instances of `ListCodec` have the same steps.
