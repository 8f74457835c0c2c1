----------------------------- MODULE GameServer -----------------------------
(***************************************************************************)
(* The server's main thread and its TCP thread around GroupController.     *)
(*                                                                         *)
(* The main thread runs GameController::step in a loop.  It holds the      *)
(* locks on the event queue and on the collected inputs all the time,      *)
(* except in a window at the start of each step, so whatever the TCP       *)
(* thread wants to queue has to wait for the next window.  What the TCP    *)
(* thread reads before it waits, notably which player a client has, can be *)
(* out of date by the time the main thread acts on it.                     *)
(*                                                                         *)
(* Movement is abstracted to an arbitrary choice of collisions between     *)
(* active groups, resources to an arbitrary winner.                        *)
(***************************************************************************)
EXTENDS GroupController, Sequences, SequencesExt

CONSTANTS
  Clients,         \* the connections ever made: each has a fresh client id
  UpdatesPerStep,  \* how many updates of MIN_TIME_STEP a step can be worth
  MaxCollisions    \* bound: the collisions in one update

ASSUME ServerAssumption ==
  /\ UpdatesPerStep \subseteq Nat
  /\ MaxCollisions \in Nat

VARIABLES
  phase,            \* where the main thread is in GameController::step
  updatesLeft,      \* updates to go in this step
  status,           \* m_gameStateCore.status
  eventQueue,       \* EventController::m_eventQueue
  reliableUpdates,  \* m_playerReliableUpdates_t
  inputs,           \* the PlayerInputs of this step
  clientToPlayer,   \* m_clientToPlayerIds_t
  tcpCall,          \* what the TCP thread waits for a window to do
  clientState       \* how far each client has got

networkVars == <<clientToPlayer, tcpCall, clientState>>
loopVars == <<phase, updatesLeft, status, inputs>>
serverVars == <<vars, loopVars, eventQueue, reliableUpdates, networkVars>>

NoPlayer == -1  \* no entry in m_clientToPlayerIds_t

(***************************************************************************)
(* Events, and the toggles of a batch of reliable inputs: only whether a   *)
(* player's toggles of a flag are odd in number matters.                   *)
(***************************************************************************)
Collision(a, b) == [type |-> "collision", a |-> a, b |-> b]
ClientConnected(c) == [type |-> "client_connected", client |-> c]
ClientDisconnected(c, p) == [type |-> "client_disconnected", client |-> c, player |-> p]
PlayerCreated(c, p) == [type |-> "player_created", client |-> c, player |-> p]

Events ==
  {Collision(a, b) : a \in GroupIds, b \in GroupIds}
  \cup {ClientConnected(c) : c \in Clients}
  \cup {ClientDisconnected(c, p) : c \in Clients, p \in Players}
  \cup {PlayerCreated(c, p) : c \in Clients, p \in Players}

ReliableInput(p, toggles) == [type |-> "reliable_input", player |-> p, toggles |-> toggles]

ReliableInputs == {ReliableInput(p, t) : p \in Players, t \in SUBSET {"joinable", "ungroup"}}

NoInputs == [joinable |-> {}, ungroup |-> {}]

NoCall == [type |-> "none"]

ServerTypeOK ==
  /\ phase \in {"window", "update", "physics", "events", "post"}
  /\ updatesLeft \in Nat /\ (updatesLeft > 0 <=> phase \in {"update", "physics", "events"})
  /\ status \in {"playing", "game_over"}
  /\ eventQueue \in Seq(Events)
  /\ reliableUpdates \in [joinable : SUBSET Players, ungroup : SUBSET Players]
  /\ inputs \in [joinable : SUBSET Players, ungroup : SUBSET Players]
  /\ clientToPlayer \in [Clients -> Players \cup {NoPlayer}]
  /\ tcpCall \in Events \cup ReliableInputs \cup {NoCall}
  /\ clientState \in
       [Clients -> {"absent", "connected", "registered", "playing", "gone"}]

ServerInit ==
  /\ Init
  /\ phase = "window"
  /\ updatesLeft = 0
  /\ status = "playing"
  /\ eventQueue = <<>>
  /\ reliableUpdates = NoInputs
  /\ inputs = NoInputs
  /\ clientToPlayer = [c \in Clients |-> NoPlayer]
  /\ tcpCall = NoCall
  /\ clientState = [c \in Clients |-> "absent"]

Running == failure = "none"

-----------------------------------------------------------------------------
(***************************************************************************)
(* The TCP thread, NetworkingServer::reliableRecvSend: one client's        *)
(* request at a time.                                                      *)
(***************************************************************************)
TcpIdle == Running /\ tcpCall = NoCall

Accept(c) ==
  /\ TcpIdle
  /\ clientState[c] = "absent"
  /\ clientState' = [clientState EXCEPT ![c] = "connected"]
  /\ UNCHANGED <<vars, loopVars, eventQueue, reliableUpdates, clientToPlayer, tcpCall>>

\* Mutant: queueEvent only tries the lock, and drops the event when it is held.
RegisterClientTryLock(c) ==
  /\ TcpIdle
  /\ clientState[c] = "connected"
  /\ clientState' = [clientState EXCEPT ![c] = "registered"]
  /\ tcpCall' = IF phase = "window" THEN ClientConnected(c) ELSE NoCall
  /\ UNCHANGED <<vars, loopVars, eventQueue, reliableUpdates, clientToPlayer>>

\* The response is sent before the event is queued.
RegisterClient(c) ==
  /\ TcpIdle
  /\ clientState[c] = "connected"
  /\ clientState' = [clientState EXCEPT ![c] = "registered"]
  /\ tcpCall' = ClientConnected(c)
  /\ UNCHANGED <<vars, loopVars, eventQueue, reliableUpdates, clientToPlayer>>

\* Mutant: the test for an entry is missing, and operator[] answers.
SendPlayerIdUnchecked(c) ==
  /\ TcpIdle
  /\ clientState[c] = "registered"
  /\ clientState' = [clientState EXCEPT ![c] = "playing"]
  /\ clientToPlayer' =
       [clientToPlayer EXCEPT ![c] = IF @ = NoPlayer THEN DefaultId ELSE @]
  /\ UNCHANGED <<vars, loopVars, eventQueue, reliableUpdates, tcpCall>>

\* The client asks until it is answered; without an entry there is no answer.
SendPlayerId(c) ==
  /\ TcpIdle
  /\ clientState[c] = "registered"
  /\ clientToPlayer[c] # NoPlayer
  /\ clientState' = [clientState EXCEPT ![c] = "playing"]
  /\ UNCHANGED <<vars, loopVars, eventQueue, reliableUpdates, clientToPlayer, tcpCall>>

SetClientReliableUpdate(c, toggles) ==
  /\ TcpIdle
  /\ clientState[c] = "playing"
  /\ tcpCall' = ReliableInput(clientToPlayer[c], toggles)
  /\ UNCHANGED <<vars, loopVars, eventQueue, reliableUpdates, clientToPlayer, clientState>>

\* Mutant: the selector keeps the closed socket, which is found ready again.
ClientDisconnectAgain(c) ==
  /\ TcpIdle
  /\ clientState[c] \in {"connected", "registered", "playing"}
  /\ LET player == IF clientToPlayer[c] = NoPlayer THEN DefaultId ELSE clientToPlayer[c]
     IN /\ clientToPlayer' = [clientToPlayer EXCEPT ![c] = player]
        /\ tcpCall' = ClientDisconnected(c, player)
  /\ UNCHANGED <<vars, loopVars, eventQueue, reliableUpdates, clientState>>

\* Mutant: the player is looked up with getPlayerIdFromClientId, whose -1 is not tested for.
ClientDisconnectNotFound(c) ==
  /\ TcpIdle
  /\ clientState[c] \in {"connected", "registered", "playing"}
  /\ clientState' = [clientState EXCEPT ![c] = "gone"]
  /\ tcpCall' = ClientDisconnected(c, clientToPlayer[c])
  /\ UNCHANGED <<vars, loopVars, eventQueue, reliableUpdates, clientToPlayer>>

\* operator[] gives a client without a player the default id, and keeps it.
ClientDisconnect(c) ==
  /\ TcpIdle
  /\ clientState[c] \in {"connected", "registered", "playing"}
  /\ clientState' = [clientState EXCEPT ![c] = "gone"]
  /\ LET player == IF clientToPlayer[c] = NoPlayer THEN DefaultId ELSE clientToPlayer[c]
     IN /\ clientToPlayer' = [clientToPlayer EXCEPT ![c] = player]
        /\ tcpCall' = ClientDisconnected(c, player)
  /\ UNCHANGED <<vars, loopVars, eventQueue, reliableUpdates>>

\* EventController::queueEvent, once its lock is free.
QueueEvent ==
  /\ Running
  /\ phase = "window"
  /\ tcpCall \in Events
  /\ eventQueue' = Append(eventQueue, tcpCall)
  /\ tcpCall' = NoCall
  /\ UNCHANGED <<vars, loopVars, reliableUpdates, clientToPlayer, clientState>>

Flip(set, p, flips) == IF ~flips THEN set ELSE IF p \in set THEN set \ {p} ELSE set \cup {p}

\* The end of setClientReliableUpdate, once the lock on the updates is free.
PushReliableInput ==
  /\ Running
  /\ phase = "window"
  /\ tcpCall \in ReliableInputs
  /\ reliableUpdates' =
       [flag \in {"joinable", "ungroup"} |->
          Flip(reliableUpdates[flag], tcpCall.player, flag \in tcpCall.toggles)]
  /\ tcpCall' = NoCall
  /\ UNCHANGED <<vars, loopVars, eventQueue, clientToPlayer, clientState>>

-----------------------------------------------------------------------------
(***************************************************************************)
(* The main thread, GameController::step: collect the inputs, update once  *)
(* per MIN_TIME_STEP that has passed, publish.                             *)
(***************************************************************************)

\* The end of collectClientInputs: the locks are taken and the inputs copied.
\* Once the game is over, update() is a no-op however often it is called.
CollectClientInputs ==
  /\ Running
  /\ phase = "window"
  /\ inputs' = reliableUpdates
  /\ reliableUpdates' = NoInputs
  /\ \E updates \in UpdatesPerStep :
       IF status = "playing" /\ updates > 0
       THEN phase' = "update" /\ updatesLeft' = updates
       ELSE phase' = "post" /\ updatesLeft' = 0
  /\ UNCHANGED <<vars, status, eventQueue, networkVars>>

\* Mutant: every update of the step acts on the same inputs.
UpdateObjectsAgain ==
  /\ phase = "update"
  /\ Update(inputs.joinable, inputs.ungroup)
  /\ phase' = "physics"
  /\ UNCHANGED <<updatesLeft, status, inputs, eventQueue, reliableUpdates, networkVars>>

\* GameObjectController::update; the inputs are good for one update.
UpdateObjects ==
  /\ phase = "update"
  /\ Update(inputs.joinable, inputs.ungroup)
  /\ inputs' = NoInputs
  /\ phase' = "physics"
  /\ UNCHANGED <<updatesLeft, status, eventQueue, reliableUpdates, networkVars>>

Collisions == {event \in {Collision(a, b) : a \in Active, b \in Active} : event.a # event.b}

\* PhysicsController::update queues an event for every collision it resolves.
UpdatePhysics ==
  /\ Running
  /\ phase = "physics"
  /\ \E n \in 0 .. MaxCollisions : \E found \in [1 .. n -> Collisions] :
       eventQueue' = eventQueue \o found
  /\ phase' = "events"
  /\ UNCHANGED <<vars, updatesLeft, status, inputs, reliableUpdates, networkVars>>

(***************************************************************************)
(* EventController::forceProcessEvents, one event at a time.               *)
(***************************************************************************)
NextEvent(type) ==
  /\ phase = "events"
  /\ eventQueue # <<>>
  /\ Head(eventQueue).type = type

HandleCollisionEvent ==
  /\ NextEvent("collision")
  /\ JoinGroups(Head(eventQueue).a, Head(eventQueue).b)
  /\ eventQueue' = Tail(eventQueue)
  /\ UNCHANGED <<loopVars, reliableUpdates, networkVars>>

\* Mutant: the id is read from the counter after it was incremented.
HandleClientConnectedEventNextId ==
  /\ NextEvent("client_connected")
  /\ CreatePlayerWithGroup
  /\ eventQueue' = IF failure' = "none"
                   THEN Append(Tail(eventQueue),
                               PlayerCreated(Head(eventQueue).client, nextPlayerIndex'))
                   ELSE eventQueue
  /\ UNCHANGED <<loopVars, reliableUpdates, networkVars>>

HandleClientConnectedEvent ==
  /\ NextEvent("client_connected")
  /\ CreatePlayerWithGroup
  /\ eventQueue' = IF failure' = "none"
                   THEN Append(Tail(eventQueue),
                               PlayerCreated(Head(eventQueue).client, nextPlayerIndex))
                   ELSE eventQueue
  /\ UNCHANGED <<loopVars, reliableUpdates, networkVars>>

HandleClientDisconnectedEvent ==
  /\ NextEvent("client_disconnected")
  /\ RemovePlayer(Head(eventQueue).player)
  /\ eventQueue' = Tail(eventQueue)
  /\ UNCHANGED <<loopVars, reliableUpdates, networkVars>>

HandlePlayerCreatedEvent ==
  /\ Running
  /\ NextEvent("player_created")
  /\ clientToPlayer' =
       [clientToPlayer EXCEPT ![Head(eventQueue).client] = Head(eventQueue).player]
  /\ eventQueue' = Tail(eventQueue)
  /\ UNCHANGED <<vars, loopVars, reliableUpdates, tcpCall, clientState>>

\* The queue is empty: the tick is over.
EndUpdate ==
  /\ Running
  /\ phase = "events"
  /\ eventQueue = <<>>
  /\ updatesLeft' = updatesLeft - 1
  /\ phase' = IF updatesLeft' > 0 THEN "update" ELSE "post"
  /\ UNCHANGED <<vars, status, inputs, eventQueue, reliableUpdates, networkVars>>

\* ServerGameController::postUpdate, then the unlocking at the start of the
\* next collectClientInputs.
PostUpdate ==
  /\ Running
  /\ phase = "post"
  /\ \/ UNCHANGED status
     \/ status = "playing" /\ (\E p \in Players : playerActive[p]) /\ status' = "game_over"
  /\ phase' = "window"
  /\ inputs' = NoInputs
  /\ UNCHANGED <<vars, updatesLeft, eventQueue, reliableUpdates, networkVars>>

-----------------------------------------------------------------------------
TcpThread ==
  \/ \E c \in Clients : \/ Accept(c)
                        \/ RegisterClient(c)
                        \/ SendPlayerId(c)
                        \/ ClientDisconnect(c)
  \/ \E c \in Clients, toggles \in SUBSET {"joinable", "ungroup"} :
       SetClientReliableUpdate(c, toggles)
  \/ QueueEvent
  \/ PushReliableInput

MainThread ==
  \/ CollectClientInputs
  \/ UpdateObjects
  \/ UpdatePhysics
  \/ HandleCollisionEvent
  \/ HandleClientConnectedEvent
  \/ HandleClientDisconnectedEvent
  \/ HandlePlayerCreatedEvent
  \/ EndUpdate
  \/ PostUpdate

ServerTerminated == ~Running /\ UNCHANGED serverVars

ServerNext == TcpThread \/ MainThread \/ ServerTerminated

ServerSpec == ServerInit /\ [][ServerNext]_serverVars

(***************************************************************************)
(* The main thread never waits for the others.  A window is 16 ms in which *)
(* nobody else wants the locks, so a waiting TCP thread gets through in    *)
(* one of them, and it serves every socket that is ready in turn.          *)
(***************************************************************************)
Fairness ==
  /\ WF_serverVars(MainThread)
  /\ SF_serverVars(QueueEvent)
  /\ SF_serverVars(PushReliableInput)
  /\ \A c \in Clients : SF_serverVars(SendPlayerId(c))

FairServerSpec == ServerSpec /\ Fairness

-----------------------------------------------------------------------------
(***************************************************************************)
(* Properties.                                                             *)
(***************************************************************************)

\* The two threads together use GroupController only in the ways its own
\* specification allows for: no input or disconnection reaches it for a player
\* that is not in the game, other than through the default id, and no stale
\* collision names a group that was not active.
ImplementsGroupController == Spec

\* The bodies that collide are those of the groups with members: when the
\* physics run, a group is active exactly if somebody is in it, whatever the
\* events of the last tick did to it.
CirclesMatchGroups ==
  phase = "physics" => \A g \in GroupIds : groupActive[g] <=> m_groupToPlayers[g] # {}

\* A request to leave is served by the update that takes it: no player is left
\* with others it asked to leave, even when several leave one group together.
UngroupServed ==
  phase = "physics" =>
    \A p \in Players : ungroup[p] /\ m_playerToGroup[p] # Absent => Alone(p)

\* Two clients never steer the same player, although ids go through two event
\* hops and through a map whose lookups invent entries.
PlayersNotShared ==
  \A c, d \in Clients :
    c # d /\ clientState[c] = "playing" /\ clientState[d] = "playing"
    => clientToPlayer[c] # clientToPlayer[d]

\* As long as a client stays, the player it was told is its own stays in the
\* game; player 0 is the exception (see OwnPlayerRemoved).
KeepsPlayer ==
  \A c \in Clients :
    clientState[c] = "playing" /\ clientToPlayer[c] # DefaultId
    => playerActive[clientToPlayer[c]]

\* A client that registers is told its player, unless it goes away, the game
\* ends first, or the process does.
RegisteredGetsPlayer ==
  \A c \in Clients :
    clientState[c] = "registered"
    ~> clientState[c] \in {"playing", "gone"} \/ status = "game_over" \/ ~Running

-----------------------------------------------------------------------------
(***************************************************************************)
(* What comments say, and the code does not do.                            *)
(***************************************************************************)

\* "Removing client due to TCP dsconnect/error" (NetworkingServer.cpp:343): a
\* disconnection removes the player of the client that is gone, and the player
\* of nobody who is still there.
OwnPlayerRemoved ==
  \A c \in Clients : clientState[c] = "playing" => playerActive[clientToPlayer[c]]

\* "4. Reset the properties of the player and the group" (GroupController.cpp:101):
\* after regroup no player in the game has its ungroup flag set.
UngroupReset ==
  phase = "physics" =>
    \A p \in Players : m_playerToGroup[p] # Absent => ~ungroup[p]

-----------------------------------------------------------------------------
(***************************************************************************)
(* The inductive invariant behind them.                                    *)
(***************************************************************************)
Gone(c) == clientState[c] = "gone"

\* p is c's player, or will be when the queue has been worked off.
Claims(c, p) == clientToPlayer[c] = p \/ PlayerCreated(c, p) \in Range(eventQueue)

Departing(event, p) == event.type = "client_disconnected" /\ event.player = p

\* Every player goes to one client: only the default id is another client's as
\* well, one that went away without a player.
ClaimedOnce ==
  \A c, d \in Clients, p \in Players :
    Claims(c, p) /\ Claims(d, p) /\ c # d => p = DefaultId /\ (Gone(c) \/ Gone(d))

\* The player of a client that is there can be commanded; a player that nobody
\* has been given is nobody's, unless a client that went away has the default id.
ClaimsHold ==
  /\ \A c \in Clients, p \in Players :
       Claims(c, p) => IF Gone(c) THEN p = DefaultId \/ p < nextPlayerIndex ELSE p \in Commanded
  /\ \A c \in Clients : clientState[c] = "playing" => clientToPlayer[c] # NoPlayer

\* A disconnection on its way names a player in the game, other than the default
\* id once only, and nobody who could still send inputs has it.
DepartsOnce ==
  /\ \A event \in Range(eventQueue) \cup {tcpCall}, p \in Players :
       Departing(event, p) =>
         /\ p \in Named
         /\ p # DefaultId => \A c \in Clients : Claims(c, p) => Gone(c)
  /\ \A p \in Players \ {DefaultId} :
       /\ \A i, j \in DOMAIN eventQueue :
            Departing(eventQueue[i], p) /\ Departing(eventQueue[j], p) => i = j
       /\ Departing(tcpCall, p) => \A i \in DOMAIN eventQueue : ~Departing(eventQueue[i], p)

\* Inputs are for players that can be commanded, and are used up before events
\* can take these away; one that waits for the window is for a player that no
\* event in the queue takes away.
InputsCurrent ==
  /\ \A flag \in {"joinable", "ungroup"} :
       /\ reliableUpdates[flag] \subseteq Commanded
       /\ inputs[flag] \subseteq Commanded
       /\ phase # "window" => reliableUpdates[flag] = {}
       /\ phase \notin {"update", "post"} => inputs[flag] = {}
  /\ tcpCall \in ReliableInputs =>
       /\ tcpCall.player \in Commanded
       /\ tcpCall.player # DefaultId =>
            \A i \in DOMAIN eventQueue : ~Departing(eventQueue[i], tcpCall.player)

\* Collisions are handled in the tick in which they are found.  They and the new
\* players are the main thread's own events.
CollisionsCurrent ==
  /\ tcpCall.type \notin {"collision", "player_created"}
  /\ \A i \in DOMAIN eventQueue :
       eventQueue[i].type = "collision" => phase = "events" /\ eventQueue[i] \in Collisions

ServerIInv ==
  /\ IInv
  /\ ServerTypeOK
  /\ ClaimedOnce
  /\ ClaimsHold
  /\ DepartsOnce
  /\ InputsCurrent
  /\ CollisionsCurrent
  /\ CirclesMatchGroups
  /\ UngroupServed
=============================================================================
