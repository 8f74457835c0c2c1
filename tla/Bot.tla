--------------------------------- MODULE Bot ---------------------------------
(***************************************************************************)
(* A game among players and bots on the line of PhysicsController.  A bot  *)
(* decides on a state that it is shown, and its inputs take their time:    *)
(* here it may decide at any moment, and the game goes on with what it     *)
(* said last.  Its keys arrive at once (PlayerInputs has the way there).   *)
(***************************************************************************)
EXTENDS PhysicsController

\* On a line two vectors point the same way, or not, or one of them nowhere.
CosSim(a, b) == Sign(a) * Sign(b)

\* vectorToNearestMove: of all directions the most similar one.  Without a distance
\* nothing is similar (0/0), and the order of the sorted directions says nothing.
NearestMoves(from, to) ==
  {d \in Signs : from = to \/ \A other \in Signs : CosSim(d, to - from) >= CosSim(other, to - from)}

\* (The code keeps the nearest group's distance so far in a uint32_t: of two groups less
\* than a unit apart the first one may win.  Here distances are whole.)
BotCenter(p) == Center(body[GroupOf(p)])

Nearest(p, ids) ==
  {id \in ids : \A other \in ids :
     Distance(BotCenter(p), Center(body[id])) <= Distance(BotCenter(p), Center(body[other]))}

MovesTo(p, ids) == UNION {NearestMoves(BotCenter(p), Center(body[id])) : id \in Nearest(p, ids)}

JoinableGroups(p, willing) ==
  {g \in Groups \ {GroupOf(p)} : body[g].active /\ IsJoinable(members, willing, g)}

\* Mutant: a bot is content with one unit less than it needs.
NeededMinesOneLess(p) == {m \in Mines : units[m] # 0 /\ held[p] + 1 < Goal}

\* The mines that have something left of what the bot needs.
NeededMines(p) == {m \in Mines : units[m] # 0 /\ held[p] < Goal}

NearestGreedyMoves(p) == IF NeededMines(p) = {} THEN Signs ELSE MovesTo(p, NeededMines(p))

GroupieMoves(p, willing) ==
  IF JoinableGroups(p, willing) = {}
  THEN NearestGreedyMoves(p)
  ELSE MovesTo(p, JoinableGroups(p, willing))

\* It wants to be joinable only when it is quite close to its target.
Toggles(p, willing) ==
  /\ ~IsJoinable(members, willing, GroupOf(p))
  /\ \E g \in Nearest(p, JoinableGroups(p, willing)) :
       Distance(BotCenter(p), Center(body[g])) < JoinableDistance + body[g].radius

BotMove(p) ==
  /\ p \in InGroup
  /\ \E willing \in SUBSET (Humans \cap InGroup) :
       /\ \E sign \in GroupieMoves(p, willing) : direction' = [direction EXCEPT ![p] = sign]
       /\ joinable' = IF Toggles(p, willing) THEN joinable \cup {p} ELSE joinable
  /\ UNCHANGED <<m_tick, m_circleRigidBodies, body, members, nextGroupIndex, units, held>>

SomeUpdate == \E pressed \in [Humans \cap InGroup -> Signs] : Update(pressed)

BotNext ==
  \/ SomeUpdate
  \/ \E p \in Humans : Regroup(p)
  \/ \E p \in Bots : BotMove(p)

BotSpec == PhysicsInit /\ [][BotNext]_physicsVars

(***************************************************************************)
(* The server keeps updating, and a bot never stops moving.                *)
(***************************************************************************)
FairBotSpec ==
  BotSpec /\ []<><<m_tick' = 1 - m_tick>>_m_tick /\ \A p \in Bots : WF_physicsVars(BotMove(p))

-----------------------------------------------------------------------------
\* Whatever collisions do to a group, it ends an update on the map.  (Between two
\* updates it need not be there: Regroup moves a circle that UpdateGroups resizes.)
InBounds ==
  [][m_tick' # m_tick => \A g \in Groups : body'[g].active => IsInBounds(body'[g])]_physicsVars

\* How deep b is in m, seen from the middle of the map; at m's centre it is as deep as
\* both radii together, and beyond that deeper.
Depth(b, m) ==
  b.radius + MineSize - Sign(MineCenter(m) - GameBoundsRadius) * (MineCenter(m) - Center(b))

\* In this update g is the only active group, of the same size as before.  It starts
\* more than a step before m's centre, has room between m and the far side of the map,
\* and cannot be sent from m to a mine on the other side.
AloneBefore(g, m) ==
  /\ m_tick' # m_tick
  /\ {h \in Groups : body'[h].active} = {g} /\ body'[g].radius = body[g].radius
  /\ Depth(body[g], m) + MaxVelocity < body[g].radius + MineSize
  /\ 2 * body[g].radius + MineSize <= GameBoundsRadius + Distance(GameBoundsRadius, MineCenter(m))
  /\ \A n \in Mines : \A depth \in {MaxVelocity, Depth(body[g], m)} :
       MineCenter(n) = MineCenter(m)
         \/ body[g].radius + MineSize + depth <= Distance(Center(body[g]), MineCenter(n))

\* A mine is firm for a group that meets nothing else: no update takes it in deeper than
\* a step goes, and if others have pushed it deeper, each one brings it out again,
\* whichever of the two bodies comes first.
MinesAreFirm ==
  [][\A g \in Groups, m \in Mines :
       AloneBefore(g, m) => Depth(body'[g], m) <= MaxVelocity
                              \/ Depth(body'[g], m) < Depth(body[g], m)]_physicsVars

\* A bot that has the field to itself gets what it needs, as long as the mines have
\* it, although every contact gives it one unit, throws it back, and leaves it to head
\* for the mine again on a view that is an old one.
BotCollects ==
  \A p \in Bots :
    <>[](InGroup = {p}) => <>(held[p] >= Goal \/ \A m \in Mines : units[m] = 0)

\* A collision is resolved by moving the bodies out of one another, whichever of
\* them comes first: whoever goes where, those that have collided do not overlap after
\* that.  (Bodies that have the same centre do not know which way to go.)
Resolved ==
  \A pressed \in [Humans \cap InGroup -> Signs] :
    LET world == Step(UpdateGroups, pressed @@ direction)
        order == Active(Partitioned(m_circleRigidBodies, world), world)
    IN \A i, j \in DOMAIN order :
         LET a == order[i]
             b == order[j]
             resolved == ResolveCollision(world, a, b)
         IN i < j /\ Collide(world, a, b) /\ Normal(world[a], world[b]) # 0 =>
              ~AreIntersecting(resolved[a], resolved[b])

-----------------------------------------------------------------------------
\* The inductive invariant.
BotIInv == PhysicsTypeOK /\ UnitsAccounted
=============================================================================
