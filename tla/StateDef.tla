------------------------------ MODULE StateDef ------------------------------
(***************************************************************************)
(* A GameState on the wire.  An sf::Packet is a sequence of numbers that   *)
(* says nothing of what they mean: the reader takes them off in the order  *)
(* in which the writer put them, and finds the lengths of the lists among  *)
(* them.  Write... are the operators <<, Read... the operators >>; a       *)
(* reader answers the value and the rest of the packet.                    *)
(*                                                                         *)
(* Left out of the records, and so of the packet: positions, velocities,   *)
(* directions, radii, the geometry of a collision, and intents.            *)
(***************************************************************************)
EXTENDS Naturals, Sequences, SequencesExt

CONSTANT ResourceTypeCount  \* RESOURCE_TYPE_COUNT

GameStatuses == <<"not_started", "playing", "game_over">>  \* enum GameStatus, from 0

WriteFlag(flag) == IF flag THEN <<1>> ELSE <<0>>

\* A list is preceded by its length.
WriteList(list, Write(_)) == <<Len(list)>> \o FlattenSeq([i \in DOMAIN list |-> Write(list[i])])

From(packet, n) == SubSeq(packet, n, Len(packet))

ReadList(packet, Read(_)) ==
  FoldLeft(LAMBDA got, i : LET next == Read(got.rest)
                           IN [value |-> Append(got.value, next.value), rest |-> next.rest],
           [value |-> <<>>, rest |-> Tail(packet)],
           [i \in 1 .. Head(packet) |-> i])

WriteNumber(n) == <<n>>

ReadNumber(packet) == [value |-> Head(packet), rest |-> Tail(packet)]

\* GroupUpdate and MineUpdate; the object store knows which id is which.
WriteCircle(update) == <<update.id>> \o WriteFlag(update.active)

ReadCircle(packet) ==
  [value |-> [id |-> packet[1], active |-> packet[2] = 1], rest |-> From(packet, 3)]

\* PlayerUpdate, with one goal per resource type.
WritePlayer(update) ==
  <<update.id>> \o WriteFlag(update.active) \o WriteFlag(update.joinable)
  \o WriteFlag(update.ungroup) \o update.goals

ReadPlayer(packet) ==
  [value |-> [id |-> packet[1], active |-> packet[2] = 1, joinable |-> packet[3] = 1,
              ungroup |-> packet[4] = 1, goals |-> SubSeq(packet, 5, 4 + ResourceTypeCount)],
   rest |-> From(packet, 5 + ResourceTypeCount)]

\* GroupIdAndPlayerIds
WriteMembers(group) == <<group.id>> \o WriteList(group.players, WriteNumber)

ReadMembers(packet) ==
  LET players == ReadList(Tail(packet), ReadNumber)
  IN [value |-> [id |-> Head(packet), players |-> players.value], rest |-> players.rest]

\* IdAndCounts
WriteCounts(holder) == <<holder.id>> \o holder.counts

ReadCounts(packet) ==
  [value |-> [id |-> packet[1], counts |-> SubSeq(packet, 2, 1 + ResourceTypeCount)],
   rest |-> From(packet, 2 + ResourceTypeCount)]

\* GroupControllerUpdate and ResourceControllerUpdate
WriteGroups(members) == WriteList(members, WriteMembers)

ReadGroups(packet) == ReadList(packet, ReadMembers)

WriteResources(counts) == WriteList(counts, WriteCounts)

ReadResources(packet) == ReadList(packet, ReadCounts)

WriteObject(object) ==
  WriteList(object.groups, WriteCircle) \o WriteList(object.mines, WriteCircle)
  \o WriteList(object.players, WritePlayer)
  \o WriteGroups(object.members) \o WriteResources(object.counts)

ReadObject(packet) ==
  LET groups == ReadList(packet, ReadCircle)
      mines == ReadList(groups.rest, ReadCircle)
      players == ReadList(mines.rest, ReadPlayer)
      members == ReadGroups(players.rest)
      counts == ReadResources(members.rest)
  IN [value |-> [groups |-> groups.value, mines |-> mines.value, players |-> players.value,
                 members |-> members.value, counts |-> counts.value],
      rest |-> counts.rest]

\* Mutant: the second id is written first.
WriteCollisionSwapped(collision) == <<collision[2], collision[1]>>

\* Collision and GameStateEvent
WriteCollision(collision) == collision

ReadCollision(packet) == [value |-> <<packet[1], packet[2]>>, rest |-> From(packet, 3)]

WriteEvent(collisions) == WriteList(collisions, WriteCollision)

ReadEvent(packet) == ReadList(packet, ReadCollision)

WriteCore(core) ==
  <<core.tick, (CHOOSE i \in 1 .. 3 : GameStatuses[i] = core.status) - 1, core.winner>>

ReadCore(packet) ==
  [value |-> [tick |-> packet[1], status |-> GameStatuses[packet[2] + 1], winner |-> packet[3]],
   rest |-> From(packet, 4)]

WriteGameState(state) ==
  WriteObject(state.object) \o WriteEvent(state.event) \o WriteCore(state.core)

ReadGameState(packet) ==
  LET object == ReadObject(packet)
      event == ReadEvent(object.rest)
      core == ReadCore(event.rest)
  IN [object |-> object.value, event |-> event.value, core |-> core.value]
=============================================================================
