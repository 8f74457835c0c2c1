-------------------------- MODULE PhysicsController --------------------------
(***************************************************************************)
(* Rigid bodies: how groups move, run into each other and into mines, and  *)
(* stay on the map, and how that looks to a bot that steers one of them.   *)
(*                                                                         *)
(* The world is the line through the middle of the map and the first mine, *)
(* in whole units: a vector is a number, a direction its sign, half a unit *)
(* is rounded up, and a velocity gets nearer to its target by one unit per *)
(* update.  All else is as in the code: the order of the pairs, who is     *)
(* moved by how much, the impulses and the limits.                         *)
(*                                                                         *)
(* The rules for groups are GroupController's, as far as they move bodies; *)
(* players ungroup one at a time.  What the others press, and whether they *)
(* are joinable, may change with every update and is chosen there.         *)
(***************************************************************************)
EXTENDS Integers, Sequences, FiniteSets, SequencesExt

CONSTANTS
  MaxPlayerCount,
  MaxMineCount,
  Bots,               \* the players who are bots; Groupie is their strategy
  GroupMemberSize,    \* GROUP_MEMBER_SIZE, the radius of a group of one
  MineSize,           \* MINE_SIZE
  GameBoundsRadius,   \* GAME_BOUNDS_RADIUS
  MaxVelocity,        \* MAX_VELOCITY; one player's PLAYER_VELOCITY is 1
  JoinableDistance,   \* MIN_DISTANCE_TO_TOGGLE_JOINABLE
  MineResourceCount,  \* MINE_RESOURCE_COUNT
  Goal                \* of each player; there is one type of resource

ImpulseMultiplier == 3

Players == 1 .. MaxPlayerCount
Groups == 1 .. MaxPlayerCount
Mines == MaxPlayerCount + 1 .. MaxPlayerCount + MaxMineCount
Bodies == Groups \cup Mines
Humans == Players \ Bots

ASSUME PhysicsAssumption ==
  /\ MaxPlayerCount \in Nat \ {0} /\ MaxMineCount \in Nat
  /\ Bots \subseteq Players
  /\ GroupMemberSize \in Nat \ {0} /\ MineSize \in Nat \ {0}
  /\ GameBoundsRadius \in Nat /\ MaxVelocity \in Nat
  /\ GroupMemberSize * MaxPlayerCount <= GameBoundsRadius  \* 10 * 50 and 600 as shipped
  /\ JoinableDistance \in Nat /\ MineResourceCount \in Nat /\ Goal \in Nat

VARIABLES
  m_tick,               \* modulo 2: an update changes it
  m_circleRigidBodies,  \* in which order the bodies are visited
  body,                 \* and what they are
  members,              \* m_groupToPlayers
  nextGroupIndex,
  joinable,             \* the bots whose m_joinable is set
  direction,            \* m_direction of each bot
  units,                \* what is left in each mine
  held                  \* what each player has

physicsVars == <<m_tick, m_circleRigidBodies, body, members, nextGroupIndex, joinable, direction, units,
                 held>>

Signs == {-1, 0, 1}
Sign(n) == IF n > 0 THEN 1 ELSE IF n < 0 THEN -1 ELSE 0
Distance(m, n) == IF m > n THEN m - n ELSE n - m
HalfUp(n) == (n + 1) \div 2

Center(b) == b.position + b.radius

\* loadLevelMineRing: the mines are at four fifths of the way from the middle to the
\* bounds.
MineCenter(id) ==
  GameBoundsRadius + (IF (id - MaxPlayerCount) % 2 = 1 THEN 1 ELSE -1) * ((GameBoundsRadius * 4) \div 5)

Body == [position : Int, radius : Nat, mass : Nat, active : BOOLEAN, movable : BOOLEAN,
         velocity : -MaxVelocity .. MaxVelocity]

\* Whatever the impulses, velocities keep within their limit; a mine is never moved.
BodiesOK ==
  /\ m_tick \in 0 .. 1
  /\ m_circleRigidBodies \in Seq(Bodies)
  /\ ToSet(m_circleRigidBodies) = Bodies /\ Len(m_circleRigidBodies) = Cardinality(Bodies)
  /\ body \in [Bodies -> Body]
  /\ \A id \in Bodies : body[id].movable <=> id \in Groups
  /\ \A m \in Mines : body[m].active /\ body[m].radius = MineSize
                      /\ body[m].position = MineCenter(m) - MineSize /\ body[m].velocity = 0
  /\ members \in [Groups -> SUBSET Players]

PhysicsTypeOK ==
  /\ BodiesOK
  /\ nextGroupIndex \in 1 .. MaxPlayerCount + 1
  /\ joinable \subseteq Bots
  /\ direction \in [Bots -> Signs]
  /\ units \in [Mines -> 0 .. MineResourceCount]
  /\ held \in [Players -> 0 .. MaxMineCount * MineResourceCount]

UnitsIn(left, got) == SumFunctionOnSet(left, Mines) + SumFunctionOnSet(got, Players)

\* What is not in the mines any more is with the players, and nowhere else.
UnitsAccounted == UnitsIn(units, held) = MaxMineCount * MineResourceCount

\* The first update finds no players and puts the groups behind the mines; all groups
\* are in the middle.  A mine is full.
PhysicsInit ==
  /\ m_tick = 0
  /\ m_circleRigidBodies = [i \in 1 .. MaxMineCount |-> MaxPlayerCount + i]
                             \o [g \in Groups |-> g]
  /\ body = [id \in Bodies |->
               IF id \in Groups
               THEN [position |-> GameBoundsRadius, radius |-> 0, mass |-> 0, active |-> FALSE,
                     movable |-> TRUE, velocity |-> 0]
               ELSE [position |-> MineCenter(id) - MineSize, radius |-> MineSize, mass |-> 0,
                     active |-> TRUE, movable |-> FALSE, velocity |-> 0]]
  /\ members = [g \in Groups |-> {}]
  /\ nextGroupIndex = 1
  /\ joinable = {}
  /\ direction = [p \in Bots |-> 0]
  /\ units = [m \in Mines |-> MineResourceCount]
  /\ held = [p \in Players |-> 0]

-----------------------------------------------------------------------------
(***************************************************************************)
(* CircleRigidBody.  The target velocity lasts for one update: before the  *)
(* next one updateGroup sets it again.                                     *)
(***************************************************************************)

Clamp(v) == IF v > MaxVelocity THEN MaxVelocity ELSE IF v < -MaxVelocity THEN -MaxVelocity ELSE v

SetVelocity(b, v) == IF b.active /\ b.movable THEN [b EXCEPT !.velocity = Clamp(v)] ELSE b

Move(b, offset) == IF b.active /\ b.movable THEN [b EXCEPT !.position = @ + offset] ELSE b

Lerp(v, target) == v + Sign(target - v)

\* Semi-implicit: the new velocity moves the body.
StepBody(b, target) ==
  LET v == Lerp(b.velocity, Clamp(target))
  IN Move(SetVelocity(b, v), v)

(***************************************************************************)
(* CollisionUtil.                                                          *)
(***************************************************************************)
AreIntersecting(a, b) == Distance(Center(a), Center(b)) < a.radius + b.radius

\* Bodies with the same centre have no normal.
Normal(a, b) == Sign(Center(a) - Center(b))

Overlap(a, b) == a.radius + b.radius - Distance(Center(a), Center(b))

AlongNormal(a, b) == (a.velocity - b.velocity) * Normal(a, b)

\* Bodies that part already are left alone.
Collided(a, b) == AlongNormal(a, b) <= 0

\* Mutant: only two movable bodies are moved out of one another.
ResolutionOfMovable(a, b) ==
  LET half == IF a.movable /\ b.movable THEN HalfUp(Overlap(a, b)) ELSE 0
  IN [first |-> Normal(a, b) * half, second |-> -Normal(a, b) * half]

\* A movable body that comes second is moved by half the overlap, even if the
\* first one cannot give way.
Resolution(a, b) ==
  [first |-> IF ~a.movable THEN 0
             ELSE IF b.movable THEN Normal(a, b) * HalfUp(Overlap(a, b))
             ELSE Normal(a, b) * Overlap(a, b),
   second |-> IF b.movable THEN -Normal(a, b) * HalfUp(Overlap(a, b)) ELSE 0]

\* By how much the impulses change a velocity: the heavier the other body is,
\* the more.  A mine's mass is infinite.
Share(own, other, twice) ==
  IF other.movable THEN (twice * other.mass) \div (own.mass + other.mass) ELSE twice

Impulses(a, b) ==
  LET twice == -2 * ImpulseMultiplier * AlongNormal(a, b)
  IN [first |-> Normal(a, b) * Share(a, b, twice), second |-> -Normal(a, b) * Share(b, a, twice)]

IsInBounds(b) == Distance(GameBoundsRadius, Center(b)) + b.radius <= GameBoundsRadius

\* Mutant: the circle is moved by its radius at most.
BoundsCorrectionShort(b) ==
  LET between == GameBoundsRadius - Center(b)
      overlap == b.radius + GameBoundsRadius - Distance(between, 0)
  IN Sign(between) * (b.radius - overlap)

BoundsCorrection(b) ==
  LET between == GameBoundsRadius - Center(b)
      overlap == b.radius + GameBoundsRadius - Distance(between, 0)
  IN Sign(between) * (2 * b.radius - overlap)

(***************************************************************************)
(* PhysicsController.                                                      *)
(***************************************************************************)
Selected(order, ids) ==
  FoldLeft(LAMBDA found, id : IF id \in ids THEN Append(found, id) ELSE found, <<>>, order)

Active(order, world) == Selected(order, {id \in Bodies : world[id].active})

\* stable_partition: the inactive bodies go to the end.
Partitioned(order, world) ==
  Active(order, world) \o Selected(order, {id \in Bodies : ~world[id].active})

ResolveCollision(world, a, b) ==
  LET resolution == Resolution(world[a], world[b])
      impulses == Impulses(world[a], world[b])
  IN [world EXCEPT
        ![a] = SetVelocity(Move(@, resolution.first), @.velocity + impulses.first),
        ![b] = SetVelocity(Move(@, resolution.second), @.velocity + impulses.second)]

Collide(world, a, b) ==
  a # b /\ AreIntersecting(world[a], world[b]) /\ Collided(world[a], world[b])

\* One visit of a pair; what has happened so far is in state.
Visit(state, a, b) ==
  IF Collide(state.world, a, b)
  THEN [world |-> ResolveCollision(state.world, a, b), events |-> Append(state.events, <<a, b>>)]
  ELSE state

ResolveCollisions(world, order) ==
  LET bodies == Active(order, world)
      n == Len(bodies)
      visited[i \in 0 .. n * n] ==
        IF i = 0 THEN [world |-> world, events |-> <<>>]
        ELSE Visit(visited[i - 1], bodies[((i - 1) \div n) + 1], bodies[((i - 1) % n) + 1])
  IN visited[n * n]

ResolveMapBounds(world) ==
  [id \in Bodies |->
     IF world[id].active /\ world[id].movable /\ ~IsInBounds(world[id])
     THEN SetVelocity(Move(world[id], BoundsCorrection(world[id])), 0)
     ELSE world[id]]

-----------------------------------------------------------------------------
(***************************************************************************)
(* What GroupController makes of the bodies before they move ...           *)
(***************************************************************************)
GroupOf(p) == CHOOSE g \in Groups : p \in members[g]

InGroup == UNION {members[g] : g \in Groups}

\* regroup: a player who is not alone gets an empty group, in the same position.  It
\* may be one that createGroup has not handed out yet: whoever is in company has been
\* in an update, and the first update gave all groups an entry.
\* (Key 0 is GroupController's subject: nothing here looks up a player without a group.)
Regroup(p) ==
  \E empty \in Groups :
    /\ members[empty] = {}
    /\ p \in InGroup /\ members[GroupOf(p)] # {p}
    /\ members' = [members EXCEPT ![GroupOf(p)] = @ \ {p}, ![empty] = {p}]
    /\ body' = [body EXCEPT ![empty].position = body[GroupOf(p)].position]
    /\ UNCHANGED <<m_tick, m_circleRigidBodies, nextGroupIndex, joinable, direction, units, held>>

\* refreshGroup and updateGroup; a group that is not active keeps what it had.
UpdateGroups ==
  [id \in Bodies |->
     IF id \notin Groups THEN body[id]
     ELSE IF members[id] = {} THEN [body[id] EXCEPT !.active = FALSE]
     ELSE [body[id] EXCEPT !.active = TRUE,
                           !.radius = GroupMemberSize * Cardinality(members[id]),
                           !.mass = Cardinality(members[id])]]

GroupDirection(g, pressed) ==
  Cardinality({p \in members[g] : pressed[p] = 1}) - Cardinality({p \in members[g] : pressed[p] = -1})

Step(world, pressed) ==
  [id \in Bodies |->
     IF id \in Groups THEN StepBody(world[id], GroupDirection(id, pressed)) ELSE world[id]]

(***************************************************************************)
(* ... and of their collisions, once all have moved; for mines that is     *)
(* transferResources.                                                      *)
(***************************************************************************)
IsJoinable(groups, willing, g) == groups[g] \cap (joinable \cup willing) # {}

JoinGroups(groups, willing, pair) ==
  LET a == pair[1]
      b == pair[2]
      from == IF Cardinality(groups[a]) > Cardinality(groups[b]) THEN b ELSE a
      to == IF from = a THEN b ELSE a
  IN IF {a, b} \subseteq Groups /\ IsJoinable(groups, willing, a) /\ IsJoinable(groups, willing, b)
     THEN [groups EXCEPT ![to] = groups[a] \cup groups[b], ![from] = {}]
     ELSE groups

\* Mutant: a member that finds the mine empty gets a unit, too.
TransferResourcesAnyway(state, group, mine) ==
  LET all == state.members[group]
      left == state.units[mine] - Cardinality(all)
  IN [state EXCEPT !.units[mine] = IF left < 0 THEN 0 ELSE left,
                   !.held = [p \in Players |-> IF p \in all THEN @[p] + 1 ELSE @[p]]]

\* Who of several members gets the last unit is open; here it is the first.
TransferResources(state, group, mine) ==
  LET served == {p \in state.members[group] :
                   Cardinality({q \in state.members[group] : q < p}) < state.units[mine]}
  IN [state EXCEPT !.units[mine] = @ - Cardinality(served),
                   !.held = [p \in Players |-> IF p \in served THEN @[p] + 1 ELSE @[p]]]

HandleCollision(state, willing, a, b) ==
  IF a \in Groups /\ b \in Mines THEN TransferResources(state, a, b)
  ELSE IF a \in Mines /\ b \in Groups THEN TransferResources(state, b, a)
  ELSE [state EXCEPT !.members = JoinGroups(@, willing, <<a, b>>)]

HandleCollisions(groups, events, willing) ==
  LET handled[i \in 0 .. Len(events)] ==
        IF i = 0 THEN [members |-> groups, units |-> units, held |-> held]
        ELSE HandleCollision(handled[i - 1], willing, events[i][1], events[i][2])
  IN handled[Len(events)]

\* createGroup adds each new player to what there is in the group of the next index.
CreateGroups(groups, created) ==
  [g \in Groups |->
     groups[g] \cup {p \in {g} : nextGroupIndex <= p /\ p < nextGroupIndex + created}]

RemovePlayers(groups, gone) == [g \in Groups |-> groups[g] \ gone]

\* Whose flag matters: humans whose group ran into another.
Deciding(events) ==
  {p \in Humans : \E i \in DOMAIN events :
     ToSet(events[i]) \subseteq Groups /\ \E g \in ToSet(events[i]) : p \in members[g]}

\* computeGameState, from GroupController::update to forceProcessEvents.  What clients did
\* in the window was queued before the collisions of the update, and is handled before
\* them: `gone` humans leave and `created` players come.  (A connection too many ends the
\* server, in GroupController.  What is bound to the only element of a set is evaluated
\* once.)
Update(pressed) ==
  \E order \in {Partitioned(m_circleRigidBodies, UpdateGroups)} :
  \E collided \in {ResolveCollisions(Step(UpdateGroups, pressed @@ direction), order)} :
    /\ m_tick' = 1 - m_tick
    /\ m_circleRigidBodies' = order
    /\ body' = ResolveMapBounds(collided.world)
    /\ \E gone \in SUBSET (Humans \cap InGroup), created \in 0 .. MaxPlayerCount + 1 - nextGroupIndex,
          willing \in SUBSET Deciding(collided.events) :
        \E handled \in {HandleCollisions(CreateGroups(RemovePlayers(members, gone), created),
                                        collided.events, willing)} :
          /\ members' = handled.members
          /\ units' = handled.units
          /\ held' = handled.held
          /\ nextGroupIndex' = nextGroupIndex + created
    /\ UNCHANGED <<joinable, direction>>
=============================================================================
