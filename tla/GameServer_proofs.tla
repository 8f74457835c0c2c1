--------------------------- MODULE GameServer_proofs ---------------------------
(***************************************************************************)
(* Proofs, for every number of players, of clients, of updates in a step   *)
(* and of collisions, of what MCGameServer checks for a few.               *)
(***************************************************************************)
EXTENDS GameServer, GroupController_proofs, FoldTheorems

(***************************************************************************)
(* The kinds of events and calls are disjoint.                             *)
(***************************************************************************)
LEMMA EventFacts ==
  /\ \A e \in Events : e.type \in {"collision", "client_connected", "client_disconnected",
                                   "player_created"}
  /\ \A e \in Events : e.type = "collision" => \E a, b \in GroupIds : e = Collision(a, b)
  /\ \A e \in Events : e.type = "client_connected" => e.client \in Clients
  /\ \A e \in Events : e.type = "client_disconnected" => e.player \in Players
  /\ \A e \in Events : e.type = "player_created" =>
       e.client \in Clients /\ e.player \in Players /\ e = PlayerCreated(e.client, e.player)
  /\ \A c \in Clients :
       ClientConnected(c) \in Events /\ ClientConnected(c).type = "client_connected"
  /\ \A c \in Clients, p \in Players :
       /\ ClientDisconnected(c, p) \in Events
       /\ ClientDisconnected(c, p).type = "client_disconnected"
       /\ ClientDisconnected(c, p).player = p
       /\ PlayerCreated(c, p) \in Events /\ PlayerCreated(c, p).type = "player_created"
       /\ PlayerCreated(c, p).client = c /\ PlayerCreated(c, p).player = p
  /\ \A call \in ReliableInputs : call.type = "reliable_input" /\ call.player \in Players
  /\ NoCall.type = "none"
  /\ NoPlayer \notin Players
<1>1. ASSUME NEW e \in Events
      PROVE  \/ \E a, b \in GroupIds : e = Collision(a, b)
             \/ \E c \in Clients : e = ClientConnected(c)
             \/ \E c \in Clients, p \in Players : e = ClientDisconnected(c, p)
             \/ \E c \in Clients, p \in Players : e = PlayerCreated(c, p)
  BY DEF Events
<1>2. /\ \A a, b : Collision(a, b).type = "collision"
      /\ \A c : ClientConnected(c).type = "client_connected" /\ ClientConnected(c).client = c
      /\ \A c, p : /\ ClientDisconnected(c, p).type = "client_disconnected"
                   /\ ClientDisconnected(c, p).player = p
      /\ \A c, p : /\ PlayerCreated(c, p).type = "player_created"
                   /\ PlayerCreated(c, p).client = c /\ PlayerCreated(c, p).player = p
  BY DEF Collision, ClientConnected, ClientDisconnected, PlayerCreated
<1>3. \A c \in Clients :
        /\ ClientConnected(c) \in Events
        /\ \A p \in Players : {ClientDisconnected(c, p), PlayerCreated(c, p)} \subseteq Events
  BY DEF Events
<1>4. /\ \A call \in ReliableInputs : call.type = "reliable_input" /\ call.player \in Players
      /\ NoCall.type = "none"
      /\ NoPlayer \notin Players
  BY DEF ReliableInputs, ReliableInput, NoCall, NoPlayer, Players
<1> QED
  BY <1>1, <1>2, <1>3, <1>4

(***************************************************************************)
(* The TCP thread does not touch the game.                                 *)
(***************************************************************************)
LEMMA TcpThreadLeavesGame ==
  ASSUME ServerIInv, TcpThread
  PROVE  /\ UNCHANGED <<vars, phase, updatesLeft, status, inputs>>
         /\ IInv' /\ CirclesMatchGroups' /\ UngroupServed'
         /\ Commanded' = Commanded /\ Named' = Named /\ Collisions' = Collisions
<1>1. UNCHANGED <<vars, phase, updatesLeft, status, inputs>>
  BY DEF TcpThread, Accept, RegisterClient, SendPlayerId, ClientDisconnect,
         SetClientReliableUpdate, QueueEvent, PushReliableInput, loopVars
<1>2. IInv'
  BY <1>1, StutterInv DEF ServerIInv
<1>3. CirclesMatchGroups' /\ UngroupServed'
  BY <1>1 DEF vars, ServerIInv, CirclesMatchGroups, UngroupServed, Alone
<1>4. Commanded' = Commanded /\ Named' = Named /\ Collisions' = Collisions
  BY <1>1 DEF vars, Commanded, Named, Collisions, Active
<1> QED
  BY <1>1, <1>2, <1>3, <1>4

\* What a request of a client changes before the thread has to wait.
LEMMA RequestInv ==
  ASSUME ServerIInv, TcpThread, NEW c \in Clients,
         clientState' \in [Clients -> {"absent", "connected", "registered", "playing", "gone"}],
         UNCHANGED <<eventQueue, reliableUpdates, clientToPlayer>>,
         \A d \in Clients : clientState'[d] = "gone" <=> clientState[d] = "gone",
         \A d \in Clients : clientState'[d] = "playing" => clientToPlayer[d] # NoPlayer,
         \/ tcpCall' = NoCall
         \/ tcpCall' = ClientConnected(c)
         \/ \E toggles \in SUBSET {"joinable", "ungroup"} :
              /\ clientState[c] = "playing"
              /\ tcpCall' = ReliableInput(clientToPlayer[c], toggles)
  PROVE  ServerIInv'
<1> USE DEF ServerIInv
<1>0. /\ UNCHANGED <<nextPlayerIndex, phase, updatesLeft, status, inputs>>
      /\ Commanded' = Commanded /\ Named' = Named /\ Collisions' = Collisions
  BY TcpThreadLeavesGame DEF vars
<1>1. clientState[c] = "playing" =>
        /\ clientToPlayer[c] \in Players /\ Claims(c, clientToPlayer[c]) /\ ~Gone(c)
        /\ clientToPlayer[c] \in Commanded
  BY DEF ServerTypeOK, ClaimsHold, Claims, Gone
<1>2. /\ tcpCall' \in Events \cup ReliableInputs \cup {NoCall}
      /\ tcpCall'.type \in {"none", "client_connected", "reliable_input"}
      /\ tcpCall' \in ReliableInputs =>
           clientState[c] = "playing" /\ tcpCall'.player = clientToPlayer[c]
  <2>1. CASE tcpCall' = NoCall \/ tcpCall' = ClientConnected(c)
    BY <2>1, EventFacts
  <2>2. ASSUME NEW toggles \in SUBSET {"joinable", "ungroup"}, clientState[c] = "playing",
               tcpCall' = ReliableInput(clientToPlayer[c], toggles)
        PROVE  tcpCall' \in ReliableInputs /\ tcpCall'.player = clientToPlayer[c]
    <3>1. ReliableInput(clientToPlayer[c], toggles) \in ReliableInputs
      BY <1>1, <2>2 DEF ReliableInputs
    <3>2. ReliableInput(clientToPlayer[c], toggles).player = clientToPlayer[c]
      BY DEF ReliableInput
    <3> QED
      BY <2>2, <3>1, <3>2
  <2> QED
    BY <2>1, <2>2, EventFacts
<1>3. \A p : ~Departing(tcpCall, p)'
  BY <1>2 DEF Departing
<1>4. ServerTypeOK'
  BY <1>0, <1>2 DEF ServerTypeOK
<1>5. ClaimedOnce' /\ ClaimsHold'
  BY <1>0 DEF ClaimedOnce, ClaimsHold, Claims, Gone
<1>6. DepartsOnce'
  BY <1>0, <1>3 DEF DepartsOnce, Departing, Claims, Gone
<1>7. InputsCurrent'
  BY <1>0, <1>1, <1>2 DEF InputsCurrent, DepartsOnce, Departing, Range
<1>8. CollisionsCurrent'
  BY <1>0, <1>2 DEF CollisionsCurrent
<1> QED
  BY <1>4, <1>5, <1>6, <1>7, <1>8, TcpThreadLeavesGame

LEMMA ClientDisconnectInv ==
  ASSUME ServerIInv, TcpThread, NEW c \in Clients, ClientDisconnect(c)
  PROVE  ServerIInv'
<1> USE DEF ServerIInv
<1>0. PICK player \in Players :
        player = IF clientToPlayer[c] = NoPlayer THEN DefaultId ELSE clientToPlayer[c]
  BY IdFacts DEF ServerTypeOK
<1>1. /\ UNCHANGED <<nextPlayerIndex, phase, updatesLeft, status, inputs>>
      /\ Commanded' = Commanded /\ Named' = Named /\ Collisions' = Collisions
  BY TcpThreadLeavesGame DEF vars
<1>2. /\ clientState[c] \in {"connected", "registered", "playing"} /\ ~Gone(c)
      /\ clientState' = [clientState EXCEPT ![c] = "gone"]
      /\ clientToPlayer' = [clientToPlayer EXCEPT ![c] = player]
      /\ tcpCall' = ClientDisconnected(c, player)
      /\ UNCHANGED <<eventQueue, reliableUpdates>>
  BY <1>0 DEF ClientDisconnect, Gone
<1>3. player \in Players /\ (player # DefaultId => clientToPlayer[c] = player)
  BY <1>0
<1>4. player # DefaultId => Claims(c, player) /\ player \in Commanded
  BY <1>2, <1>3 DEF Claims, ClaimsHold
<1>5. /\ tcpCall' \in Events
      /\ \A p \in Players : Departing(tcpCall', p) <=> p = player
      /\ tcpCall'.type = "client_disconnected" /\ tcpCall' \notin ReliableInputs
  BY <1>2, <1>3, EventFacts DEF Departing
<1>6. /\ Gone(c)'
      /\ \A d \in Clients \ {c} : Gone(d)' <=> Gone(d)
      /\ \A d \in Clients, p \in Players :
           Claims(d, p)' => Claims(d, p) \/ (d = c /\ p = DefaultId)
  BY <1>2, <1>3 DEF Gone, Claims, ServerTypeOK
<1>7. ServerTypeOK'
  BY <1>1, <1>2, <1>3, <1>5 DEF ServerTypeOK
<1>8. ClaimedOnce'
  BY <1>2, <1>6 DEF ClaimedOnce
<1>9. ClaimsHold'
  <2>1. \A d \in Clients, p \in Players :
          Claims(d, p)' =>
            IF Gone(d)' THEN p = DefaultId \/ p < nextPlayerIndex ELSE p \in Commanded
    BY <1>6 DEF ClaimsHold, Commanded
  <2>2. \A d \in Clients : clientState'[d] = "playing" => clientToPlayer'[d] # NoPlayer
    BY <1>2 DEF ClaimsHold, ServerTypeOK
  <2> QED
    BY <1>1, <2>1, <2>2 DEF ClaimsHold
<1>10. DepartsOnce'
  <2>1. \A event \in Range(eventQueue), p \in Players :
          Departing(event, p) =>
            /\ p \in Named
            /\ p # DefaultId => \A d \in Clients : Claims(d, p)' => Gone(d)'
    BY <1>6 DEF DepartsOnce
  <2>2. player \in Named
    BY <1>4 DEF Commanded, Named
  <2>3. player # DefaultId => \A d \in Clients : Claims(d, player)' => Gone(d)'
    BY <1>3, <1>4, <1>6 DEF ClaimedOnce
  <2>4. player # DefaultId => \A event \in Range(eventQueue) : ~Departing(event, player)
    BY <1>2, <1>3, <1>4 DEF DepartsOnce
  <2>5. \A i \in DOMAIN eventQueue : eventQueue[i] \in Range(eventQueue)
    BY DEF Range
  <2>6. \A p \in Players \ {DefaultId} :
          \A i, j \in DOMAIN eventQueue :
            Departing(eventQueue[i], p) /\ Departing(eventQueue[j], p) => i = j
    BY DEF DepartsOnce
  <2>7. eventQueue' = eventQueue /\ Range(eventQueue)' = Range(eventQueue)
    BY <1>2
  <2> QED
    BY <1>1, <1>5, <2>1, <2>2, <2>3, <2>4, <2>5, <2>6, <2>7 DEF DepartsOnce
<1>11. InputsCurrent'
  BY <1>1, <1>2, <1>5 DEF InputsCurrent
<1>12. CollisionsCurrent'
  BY <1>1, <1>2, <1>5 DEF CollisionsCurrent
<1> QED
  BY <1>7, <1>8, <1>9, <1>10, <1>11, <1>12, TcpThreadLeavesGame

LEMMA QueueEventInv ==
  ASSUME ServerIInv, TcpThread, QueueEvent
  PROVE  ServerIInv'
<1> USE DEF ServerIInv
<1>1. /\ UNCHANGED <<nextPlayerIndex, phase, updatesLeft, status, inputs>>
      /\ Commanded' = Commanded /\ Named' = Named /\ Collisions' = Collisions
  BY TcpThreadLeavesGame DEF vars
<1>2. /\ tcpCall \in Events /\ eventQueue' = Append(eventQueue, tcpCall) /\ tcpCall' = NoCall
      /\ UNCHANGED <<reliableUpdates, clientToPlayer, clientState>>
  BY DEF QueueEvent
<1>3. /\ eventQueue \in Seq(Events) /\ eventQueue' \in Seq(Events)
      /\ Range(eventQueue') = Range(eventQueue) \cup {tcpCall}
      /\ \A i \in DOMAIN eventQueue' :
           \/ i \in DOMAIN eventQueue /\ eventQueue'[i] = eventQueue[i]
           \/ i = Len(eventQueue) + 1 /\ eventQueue'[i] = tcpCall
  BY <1>2, AppendElements DEF ServerTypeOK, Range
<1>4. /\ NoCall.type = "none" /\ NoCall \notin ReliableInputs
      /\ \A p : ~Departing(tcpCall, p)'
  BY <1>2, EventFacts DEF Departing
<1>5. \A c \in Clients, p \in Players : Claims(c, p)' <=> Claims(c, p)
  <2>1. \A c \in Clients, p \in Players : PlayerCreated(c, p) # tcpCall
    BY EventFacts DEF CollisionsCurrent
  <2> QED
    BY <1>2, <1>3, <2>1 DEF Claims
<1>6. ServerTypeOK'
  BY <1>1, <1>2, <1>3 DEF ServerTypeOK
<1>7. ClaimedOnce' /\ ClaimsHold'
  BY <1>1, <1>2, <1>5 DEF ClaimedOnce, ClaimsHold, Gone
<1>8. DepartsOnce'
  <2>1. \A event \in Range(eventQueue'), p \in Players :
          Departing(event, p) =>
            /\ p \in Named
            /\ p # DefaultId => \A c \in Clients : Claims(c, p)' => Gone(c)'
    BY <1>2, <1>3, <1>5 DEF DepartsOnce, Gone
  <2>2. ASSUME NEW p \in Players \ {DefaultId},
               NEW i \in DOMAIN eventQueue', NEW j \in DOMAIN eventQueue',
               Departing(eventQueue'[i], p), Departing(eventQueue'[j], p)
        PROVE  i = j
    BY <1>3, <2>2 DEF DepartsOnce
  <2> QED
    BY <1>1, <1>4, <2>1, <2>2 DEF DepartsOnce
<1>9. InputsCurrent'
  BY <1>1, <1>2, <1>4 DEF InputsCurrent
<1>10. CollisionsCurrent'
  BY <1>1, <1>2, <1>3, <1>4 DEF CollisionsCurrent
<1> QED
  BY <1>6, <1>7, <1>8, <1>9, <1>10, TcpThreadLeavesGame

LEMMA PushReliableInputInv ==
  ASSUME ServerIInv, TcpThread, PushReliableInput
  PROVE  ServerIInv'
<1> USE DEF ServerIInv
<1>1. /\ UNCHANGED <<nextPlayerIndex, phase, updatesLeft, status, inputs>>
      /\ Commanded' = Commanded /\ Named' = Named /\ Collisions' = Collisions
  BY TcpThreadLeavesGame DEF vars
<1>2. /\ phase = "window" /\ tcpCall \in ReliableInputs /\ tcpCall' = NoCall
      /\ reliableUpdates' =
           [flag \in {"joinable", "ungroup"} |->
              Flip(reliableUpdates[flag], tcpCall.player, flag \in tcpCall.toggles)]
      /\ UNCHANGED <<eventQueue, clientToPlayer, clientState>>
  BY DEF PushReliableInput
<1>3. /\ NoCall.type = "none" /\ NoCall \notin ReliableInputs /\ tcpCall.player \in Players
      /\ \A p : ~Departing(tcpCall, p)'
  BY <1>2, EventFacts DEF Departing
<1>4. \A set, p, flips : Flip(set, p, flips) \subseteq set \cup {p}
  BY DEF Flip
<1>5. \A flag \in {"joinable", "ungroup"} :
        /\ reliableUpdates'[flag] \subseteq Players
        /\ reliableUpdates'[flag] \subseteq Commanded
  BY <1>2, <1>3, <1>4 DEF InputsCurrent, ServerTypeOK
<1>6. reliableUpdates' \in [joinable : SUBSET Players, ungroup : SUBSET Players]
  BY <1>2, <1>5
<1>7. ServerTypeOK'
  BY <1>1, <1>2, <1>6 DEF ServerTypeOK
<1>8. ClaimedOnce' /\ ClaimsHold'
  BY <1>1, <1>2 DEF ClaimedOnce, ClaimsHold, Claims, Gone
<1>9. DepartsOnce'
  BY <1>1, <1>2, <1>3 DEF DepartsOnce, Claims, Gone
<1>10. InputsCurrent'
  BY <1>1, <1>2, <1>3, <1>5 DEF InputsCurrent
<1>11. CollisionsCurrent'
  BY <1>1, <1>2, <1>3 DEF CollisionsCurrent
<1> QED
  BY <1>7, <1>8, <1>9, <1>10, <1>11, TcpThreadLeavesGame

LEMMA TcpThreadInv ==
  ASSUME ServerIInv, TcpThread
  PROVE  ServerIInv'
<1>1. ServerTypeOK /\ ClaimsHold
  BY DEF ServerIInv
<1>2. ASSUME NEW c \in Clients, Accept(c)
      PROVE  ServerIInv'
  BY <1>1, <1>2, RequestInv DEF Accept, TcpIdle, ServerTypeOK, ClaimsHold
<1>3. ASSUME NEW c \in Clients, RegisterClient(c)
      PROVE  ServerIInv'
  BY <1>1, <1>3, RequestInv DEF RegisterClient, TcpIdle, ServerTypeOK, ClaimsHold
<1>4. ASSUME NEW c \in Clients, SendPlayerId(c)
      PROVE  ServerIInv'
  BY <1>1, <1>4, RequestInv DEF SendPlayerId, TcpIdle, ServerTypeOK, ClaimsHold
<1>5. ASSUME NEW c \in Clients, ClientDisconnect(c)
      PROVE  ServerIInv'
  BY <1>5, ClientDisconnectInv
<1>6. ASSUME NEW c \in Clients, NEW toggles \in SUBSET {"joinable", "ungroup"},
             SetClientReliableUpdate(c, toggles)
      PROVE  ServerIInv'
  BY <1>1, <1>6, RequestInv DEF SetClientReliableUpdate, TcpIdle, ServerTypeOK, ClaimsHold
<1> QED
  BY <1>2, <1>3, <1>4, <1>5, <1>6, QueueEventInv, PushReliableInputInv DEF TcpThread

(***************************************************************************)
(* The server uses GroupController in the ways that its Next allows for.   *)
(***************************************************************************)
LEMMA StepImplements == ServerIInv /\ [ServerNext]_serverVars => [Next]_vars
<1> SUFFICES ASSUME ServerIInv, [ServerNext]_serverVars PROVE [Next]_vars
  OBVIOUS
<1> USE DEF ServerIInv
<1>1. CASE TcpThread
  BY <1>1, TcpThreadLeavesGame
<1>2. CASE UpdateObjects
  BY <1>2 DEF UpdateObjects, InputsCurrent, Next
<1>3. CASE HandleCollisionEvent
  <2>1. /\ JoinGroups(Head(eventQueue).a, Head(eventQueue).b)
        /\ Head(eventQueue).type = "collision" /\ eventQueue # <<>>
    BY <1>3 DEF HandleCollisionEvent, NextEvent
  <2>2. Head(eventQueue) \in Collisions
    BY <2>1, TailElements DEF CollisionsCurrent, ServerTypeOK
  <2>3. PICK a \in Active, b \in Active : Head(eventQueue) = Collision(a, b) /\ a # b
    BY <2>2 DEF Collisions, Collision
  <2> QED
    BY <2>1, <2>3 DEF Collision, Next
<1>4. CASE HandleClientConnectedEvent
  BY <1>4 DEF HandleClientConnectedEvent, Next
<1>5. CASE HandleClientDisconnectedEvent
  <2>1. /\ RemovePlayer(Head(eventQueue).player)
        /\ Head(eventQueue).type = "client_disconnected" /\ eventQueue # <<>>
    BY <1>5 DEF HandleClientDisconnectedEvent, NextEvent
  <2>2. Head(eventQueue) \in Events /\ Head(eventQueue) \in Range(eventQueue)
    BY <2>1, TailElements DEF ServerTypeOK, Range
  <2>3. Head(eventQueue).player \in Named
    BY <2>1, <2>2, EventFacts DEF DepartsOnce, Departing
  <2> QED
    BY <2>1, <2>3 DEF Next
<1>6. CASE \/ CollectClientInputs \/ UpdatePhysics \/ HandlePlayerCreatedEvent \/ EndUpdate
           \/ PostUpdate \/ ServerTerminated
  BY <1>6 DEF CollectClientInputs, UpdatePhysics, HandlePlayerCreatedEvent, EndUpdate,
              PostUpdate, ServerTerminated, serverVars
<1>7. CASE UNCHANGED serverVars
  BY <1>7 DEF serverVars
<1> QED
  BY <1>1, <1>2, <1>3, <1>4, <1>5, <1>6, <1>7 DEF ServerNext, MainThread

LEMMA PresenceKept ==
  ASSUME IInv, IInv', UNCHANGED <<playerActive, nextPlayerIndex>>
  PROVE  Commanded' = Commanded /\ Named' = Named
BY DEF IInv, ActiveIffGrouped, Commanded, Named

(***************************************************************************)
(* What an update leaves behind for the physics.                           *)
(***************************************************************************)
LEMMA UpdateServes ==
  ASSUME IInv, NEW toggledJoinable, NEW toggledUngroup,
         Update(toggledJoinable, toggledUngroup)
  PROVE  /\ \A g \in GroupIds : groupActive'[g] <=> m_groupToPlayers'[g] # {}
         /\ \A p \in Players : ungroup'[p] /\ m_playerToGroup'[p] # Absent => Alone(p)'
<1> USE DEF IInv
<1> DEFINE open == Toggle(joinable, toggledJoinable)
           wantsOut == Toggle(ungroup, toggledUngroup)
           candidates == Candidates(wantsOut)
<1>1. IInv'
  BY UpdateInv
<1>2. failure' # "no_empty_group" /\ UNCHANGED playerActive
  BY <1>1 DEF OnlyCapacityFailure, Update
<1>3. PICK staying \in StayingChoices(candidates) :
        LET leavers == candidates \ staying IN
        /\ \E newGroup \in Injection(leavers, EmptyGroups) : MoveOut(leavers, newGroup)
        /\ ResetFlags(candidates, open, wantsOut)
        /\ RefreshGroups
  BY <1>2, Zenon DEF Update
<1> DEFINE leavers == candidates \ staying
<1>4. PICK newGroup \in Injection(leavers, EmptyGroups) : MoveOut(leavers, newGroup)
  BY <1>3
<1>5. \A p \in leavers : newGroup[p] \in EmptyGroups
  BY DEF Injection
<1>6. ASSUME NEW g \in GroupIds
      PROVE  groupActive'[g] <=> m_groupToPlayers'[g] # {}
  <2>1. groupActive'[g] <=> \E p \in m_groupToPlayers'[g] : playerActive[p]
    BY <1>3 DEF RefreshGroups
  <2>2. \A p \in m_groupToPlayers'[g] : p \in Players /\ m_playerToGroup'[p] = g
    BY <1>1, IdFacts DEF TypeOK, MembershipConsistent
  <2>3. \A p \in m_groupToPlayers'[g] : playerActive'[p]
    BY <1>1, <2>2, IdFacts DEF ActiveIffGrouped
  <2> QED
    BY <1>2, <2>1, <2>3
<1>7. ASSUME NEW p \in Players, ungroup'[p], m_playerToGroup'[p] # Absent
      PROVE  m_playerToGroup'[p] \in Keys /\ m_groupToPlayers'[m_playerToGroup'[p]] = {p}
  <2>1. wantsOut[p] /\ p \notin candidates
    BY <1>3, <1>7 DEF ResetFlags
  <2> DEFINE k == m_playerToGroup[p]
  <2>2. m_playerToGroup'[p] = k
    BY <1>4, <2>1 DEF MoveOut
  <2>3. k \in Keys /\ p \in m_groupToPlayers[k] /\ k \in entries
    BY <1>7, <2>2 DEF TypeOK, MembershipConsistent, EntriesCover
  <2>4. m_groupToPlayers[k] = {p}
    BY <2>1, <2>3 DEF Candidates
  <2>5. k \notin EmptyGroups
    BY <2>3 DEF EmptyGroups
  <2>6. m_groupToPlayers'[k] = {p}
    BY <1>4, <1>5, <2>1, <2>3, <2>4, <2>5 DEF MoveOut
  <2> QED
    BY <2>2, <2>3, <2>6
<1> QED
  BY <1>6, <1>7 DEF Alone

(***************************************************************************)
(* The main thread, from window to window.                                 *)
(***************************************************************************)

\* The steps that neither handle nor find events, nor update the objects.
LEMMA LoopInv ==
  ASSUME ServerIInv, IInv', CollectClientInputs \/ EndUpdate \/ PostUpdate
  PROVE  ServerIInv'
<1> USE DEF ServerIInv
<1>1. /\ UNCHANGED <<vars, eventQueue, clientToPlayer, tcpCall, clientState>>
      /\ phase' # "physics"
  BY DEF CollectClientInputs, EndUpdate, PostUpdate, networkVars
<1>2. UNCHANGED <<nextPlayerIndex, playerActive, groupActive>>
  BY <1>1 DEF vars
<1>3. Commanded' = Commanded /\ Named' = Named /\ Collisions' = Collisions
  BY <1>2, PresenceKept DEF Collisions, Active
<1>4. phase \in {"window", "post"} \/ eventQueue = <<>>
  BY DEF CollectClientInputs, EndUpdate, PostUpdate
<1>5. ServerTypeOK'
  <2>1. phase' \in {"window", "update", "post"} /\ status' \in {"playing", "game_over"}
    BY DEF CollectClientInputs, EndUpdate, PostUpdate, ServerTypeOK
  <2>2. updatesLeft' \in Nat /\ (updatesLeft' > 0 <=> phase' = "update")
    BY ServerAssumption DEF CollectClientInputs, EndUpdate, PostUpdate, ServerTypeOK
  <2>3. reliableUpdates' \in [joinable : SUBSET Players, ungroup : SUBSET Players]
        /\ inputs' \in [joinable : SUBSET Players, ungroup : SUBSET Players]
    BY DEF CollectClientInputs, EndUpdate, PostUpdate, ServerTypeOK, NoInputs
  <2> QED
    BY <1>1, <2>1, <2>2, <2>3 DEF ServerTypeOK
<1>6. ClaimedOnce' /\ ClaimsHold'
  BY <1>1, <1>2, <1>3 DEF ClaimedOnce, ClaimsHold, Claims, Gone
<1>7. DepartsOnce'
  BY <1>1, <1>3 DEF DepartsOnce, Claims, Gone
<1>8. InputsCurrent'
  BY <1>1, <1>3
  DEF InputsCurrent, CollectClientInputs, EndUpdate, PostUpdate, NoInputs
<1>9. CollisionsCurrent'
  BY <1>1, <1>3, <1>4, EmptySeq DEF CollisionsCurrent
<1>10. CirclesMatchGroups' /\ UngroupServed'
  BY <1>1 DEF CirclesMatchGroups, UngroupServed
<1> QED
  BY <1>5, <1>6, <1>7, <1>8, <1>9, <1>10

LEMMA UpdateObjectsInv ==
  ASSUME ServerIInv, IInv', UpdateObjects
  PROVE  ServerIInv'
<1> USE DEF ServerIInv
<1>1. /\ phase = "update" /\ phase' = "physics" /\ inputs' = NoInputs
      /\ Update(inputs.joinable, inputs.ungroup)
      /\ UNCHANGED <<updatesLeft, status, eventQueue, reliableUpdates, clientToPlayer, tcpCall,
                     clientState>>
  BY DEF UpdateObjects, networkVars
<1>2. UNCHANGED <<nextPlayerIndex, playerActive>>
  BY <1>1 DEF Update, counters
<1>3. Commanded' = Commanded /\ Named' = Named
  BY <1>2, PresenceKept
<1>4. ServerTypeOK'
  BY <1>1 DEF ServerTypeOK, NoInputs
<1>5. ClaimedOnce' /\ ClaimsHold'
  BY <1>1, <1>2, <1>3 DEF ClaimedOnce, ClaimsHold, Claims, Gone
<1>6. DepartsOnce'
  BY <1>1, <1>3 DEF DepartsOnce, Claims, Gone
<1>7. InputsCurrent'
  BY <1>1, <1>3 DEF InputsCurrent, NoInputs
<1>8. CollisionsCurrent'
  BY <1>1 DEF CollisionsCurrent
<1>9. CirclesMatchGroups' /\ UngroupServed'
  BY <1>1, UpdateServes DEF CirclesMatchGroups, UngroupServed
<1> QED
  BY <1>4, <1>5, <1>6, <1>7, <1>8, <1>9

LEMMA UpdatePhysicsInv ==
  ASSUME ServerIInv, IInv', UpdatePhysics
  PROVE  ServerIInv'
<1> USE DEF ServerIInv
<1>1. /\ phase = "physics" /\ phase' = "events"
      /\ UNCHANGED <<vars, updatesLeft, status, inputs, reliableUpdates, clientToPlayer, tcpCall,
                     clientState>>
  BY DEF UpdatePhysics, networkVars
<1>2. UNCHANGED <<nextPlayerIndex, playerActive, groupActive>>
  BY <1>1 DEF vars
<1>3. Commanded' = Commanded /\ Named' = Named /\ Collisions' = Collisions
  BY <1>2, PresenceKept DEF Collisions, Active
<1>4. PICK n \in 0 .. MaxCollisions : \E found \in [1 .. n -> Collisions] :
        eventQueue' = eventQueue \o found
  BY DEF UpdatePhysics
<1>5. PICK found \in [1 .. n -> Collisions] : eventQueue' = eventQueue \o found
  BY <1>4
<1>6. Collisions \subseteq Events /\ \A e \in Collisions : e.type = "collision"
  BY DEF Collisions, Collision, Events, Active
<1>7. eventQueue \in Seq(Events) /\ found \in Seq(Events) /\ n \in Nat
  <2>1. n \in Nat
    BY ServerAssumption
  <2>2. found \in [1 .. n -> Events]
    BY <1>6
  <2> QED
    BY <2>1, <2>2, SeqDef DEF ServerTypeOK
<1>8. /\ eventQueue' \in Seq(Events)
      /\ \A i \in DOMAIN eventQueue : i \in DOMAIN eventQueue' /\ eventQueue'[i] = eventQueue[i]
      /\ \A i \in DOMAIN eventQueue' :
           \/ i \in DOMAIN eventQueue /\ eventQueue'[i] = eventQueue[i]
           \/ eventQueue'[i] \in Collisions
  <2>1. /\ Len(found) = n /\ DOMAIN eventQueue = 1 .. Len(eventQueue) /\ Len(eventQueue) \in Nat
        /\ eventQueue' \in Seq(Events) /\ DOMAIN eventQueue' = 1 .. Len(eventQueue) + n
        /\ \A i \in 1 .. Len(eventQueue) + n :
             eventQueue'[i] = IF i <= Len(eventQueue) THEN eventQueue[i]
                              ELSE found[i - Len(eventQueue)]
    <3>1. Len(found) \in Nat /\ DOMAIN found = 1 .. Len(found) /\ DOMAIN found = 1 .. n
      BY <1>5, <1>7, LenProperties
    <3>2. Len(found) = n
      BY <1>7, <3>1
    <3>3. /\ DOMAIN eventQueue = 1 .. Len(eventQueue) /\ Len(eventQueue) \in Nat
          /\ eventQueue' \in Seq(Events) /\ DOMAIN eventQueue' = 1 .. Len(eventQueue')
          /\ Len(eventQueue') = Len(eventQueue) + Len(found)
      BY <1>5, <1>7, ConcatProperties, LenProperties
    <3> QED
      BY <1>5, <1>7, <3>2, <3>3, ConcatProperties
  <2>2. \A i \in 1 .. n : found[i] \in Collisions
    BY <1>5
  <2> QED
    BY <1>7, <2>1, <2>2
<1>9. /\ \A c \in Clients, p \in Players : Claims(c, p)' <=> Claims(c, p)
      /\ \A i \in DOMAIN eventQueue', p \in Players :
           Departing(eventQueue'[i], p) => i \in DOMAIN eventQueue /\ eventQueue'[i] = eventQueue[i]
      /\ \A event \in Range(eventQueue'), p \in Players :
           Departing(event, p) => event \in Range(eventQueue)
  <2>1. \A c \in Clients, p \in Players : PlayerCreated(c, p).type = "player_created"
    BY EventFacts
  <2>2. \A c \in Clients, p \in Players :
          PlayerCreated(c, p) \in Range(eventQueue') <=> PlayerCreated(c, p) \in Range(eventQueue)
    BY <1>6, <1>8, <2>1 DEF Range
  <2> QED
    BY <1>1, <1>6, <1>8, <2>2 DEF Claims, Departing, Range
<1>10. ServerTypeOK'
  BY <1>1, <1>8 DEF ServerTypeOK
<1>11. ClaimedOnce' /\ ClaimsHold'
  BY <1>1, <1>2, <1>3, <1>9 DEF ClaimedOnce, ClaimsHold, Gone
<1>12. DepartsOnce'
  BY <1>1, <1>3, <1>9 DEF DepartsOnce, Gone
<1>13. InputsCurrent'
  BY <1>1, <1>3, <1>9, EventFacts DEF InputsCurrent
<1>14. CollisionsCurrent'
  BY <1>1, <1>3, <1>8 DEF CollisionsCurrent
<1>15. CirclesMatchGroups' /\ UngroupServed'
  BY <1>1 DEF CirclesMatchGroups, UngroupServed
<1> QED
  BY <1>10, <1>11, <1>12, <1>13, <1>14, <1>15

\* The first event of the queue has been handled, and nobody but a player that it
\* took away is less in the game than before.
LEMMA DequeueInv ==
  ASSUME ServerIInv, IInv', phase = "events", eventQueue # <<>>,
         eventQueue' = Tail(eventQueue),
         UNCHANGED <<loopVars, reliableUpdates, tcpCall, clientState, nextPlayerIndex, groupActive>>,
         clientToPlayer' \in [Clients -> Players \cup {NoPlayer}],
         \A c \in Clients : clientState[c] = "playing" => clientToPlayer'[c] # NoPlayer,
         \A c \in Clients, p \in Players : Claims(c, p)' => Claims(c, p),
         \A p \in Named :
           p \in Named' \/ (p # DefaultId /\ Departing(Head(eventQueue), p))
  PROVE  ServerIInv'
<1> USE DEF ServerIInv
<1>1. UNCHANGED <<phase, updatesLeft, status, inputs>> /\ Collisions' = Collisions
  BY DEF loopVars, Collisions, Active
<1>2. /\ 1 \in DOMAIN eventQueue /\ Head(eventQueue) = eventQueue[1]
      /\ eventQueue \in Seq(Events) /\ eventQueue' \in Seq(Events)
      /\ \A i \in DOMAIN eventQueue' :
           /\ i \in Nat \ {0} /\ i + 1 \in DOMAIN eventQueue
           /\ eventQueue'[i] = eventQueue[i + 1]
  BY TailElements DEF ServerTypeOK
<1>3. /\ Head(eventQueue) \in Range(eventQueue)
      /\ \A event \in Range(eventQueue') : event \in Range(eventQueue)
  BY <1>2 DEF Range
<1>4. \A p \in Players : p \in Commanded =>
        p \in Commanded' \/ (p # DefaultId /\ Departing(Head(eventQueue), p))
  BY DEF Commanded
<1>5. ServerTypeOK'
  BY <1>1, <1>2 DEF ServerTypeOK
<1>6. ClaimedOnce'
  BY DEF ClaimedOnce, Gone
<1>7. ClaimsHold'
  <2>1. ASSUME NEW c \in Clients, NEW p \in Players, Claims(c, p)', ~Gone(c)
        PROVE  p \in Commanded'
    <3>1. Claims(c, p)
      BY <2>1
    <3>2. p # DefaultId => ~Departing(Head(eventQueue), p)
      BY <1>3, <2>1, <3>1 DEF DepartsOnce
    <3> QED
      BY <1>4, <2>1, <3>1, <3>2 DEF ClaimsHold
  <2> QED
    BY <2>1 DEF ClaimsHold, Gone
<1>8. DepartsOnce'
  <2>1. \A event \in Range(eventQueue') \cup {tcpCall}, p \in Players :
          Departing(event, p) /\ p # DefaultId => ~Departing(Head(eventQueue), p)
    <3>1. \A i \in DOMAIN eventQueue', p \in Players :
            Departing(eventQueue'[i], p) /\ p # DefaultId => ~Departing(Head(eventQueue), p)
      BY <1>2 DEF DepartsOnce
    <3>2. \A p \in Players :
            Departing(tcpCall, p) /\ p # DefaultId => ~Departing(Head(eventQueue), p)
      BY <1>2 DEF DepartsOnce
    <3> QED
      BY <3>1, <3>2 DEF Range
  <2>2. \A event \in Range(eventQueue') \cup {tcpCall}, p \in Players :
          Departing(event, p) =>
            /\ p \in Named'
            /\ p # DefaultId => \A c \in Clients : Claims(c, p)' => Gone(c)'
    BY <1>3, <2>1 DEF DepartsOnce, Gone
  <2>3. ASSUME NEW p \in Players \ {DefaultId},
               NEW i \in DOMAIN eventQueue', NEW j \in DOMAIN eventQueue',
               Departing(eventQueue'[i], p), Departing(eventQueue'[j], p)
        PROVE  i = j
    <3>1. i + 1 = j + 1
      BY <1>2, <2>3 DEF DepartsOnce
    <3> QED
      BY <1>2, <3>1
  <2>4. ASSUME NEW p \in Players \ {DefaultId}, Departing(tcpCall, p),
               NEW i \in DOMAIN eventQueue'
        PROVE  ~Departing(eventQueue'[i], p)
    BY <1>2, <2>4 DEF DepartsOnce
  <2>5. tcpCall' = tcpCall
    OBVIOUS
  <2> QED
    BY <2>2, <2>3, <2>4, <2>5 DEF DepartsOnce
<1>9. InputsCurrent'
  <2>1. \A flag \in {"joinable", "ungroup"} : reliableUpdates'[flag] = {} /\ inputs'[flag] = {}
    BY <1>1 DEF InputsCurrent
  <2>2. tcpCall \in ReliableInputs =>
          /\ tcpCall.player \in Commanded'
          /\ tcpCall.player # DefaultId =>
               \A i \in DOMAIN eventQueue' : ~Departing(eventQueue'[i], tcpCall.player)
    BY <1>2, <1>4, EventFacts DEF InputsCurrent
  <2> QED
    BY <2>1, <2>2 DEF InputsCurrent
<1>10. CollisionsCurrent'
  BY <1>1, <1>2 DEF CollisionsCurrent
<1>11. CirclesMatchGroups' /\ UngroupServed'
  BY <1>1 DEF CirclesMatchGroups, UngroupServed
<1> QED
  BY <1>5, <1>6, <1>7, <1>8, <1>9, <1>10, <1>11

LEMMA HandleCollisionEventInv ==
  ASSUME ServerIInv, IInv', HandleCollisionEvent
  PROVE  ServerIInv'
<1>1. /\ phase = "events" /\ eventQueue # <<>> /\ eventQueue' = Tail(eventQueue)
      /\ UNCHANGED <<loopVars, reliableUpdates, clientToPlayer, tcpCall, clientState>>
      /\ UNCHANGED <<nextPlayerIndex, playerActive, groupActive>>
  BY DEF HandleCollisionEvent, NextEvent, JoinGroups, counters, networkVars
<1>2. Named' = Named
  BY <1>1, PresenceKept DEF ServerIInv
<1>3. \A c \in Clients, p \in Players : Claims(c, p)' => Claims(c, p)
  BY <1>1, TailElements DEF Claims, Range, ServerIInv, ServerTypeOK
<1> QED
  BY <1>1, <1>2, <1>3, DequeueInv DEF ServerIInv, ServerTypeOK, ClaimsHold

LEMMA HandleClientDisconnectedEventInv ==
  ASSUME ServerIInv, IInv', HandleClientDisconnectedEvent
  PROVE  ServerIInv'
<1>1. /\ phase = "events" /\ eventQueue # <<>> /\ eventQueue' = Tail(eventQueue)
      /\ Head(eventQueue).type = "client_disconnected"
      /\ RemovePlayer(Head(eventQueue).player)
      /\ UNCHANGED <<loopVars, reliableUpdates, clientToPlayer, tcpCall, clientState>>
  BY DEF HandleClientDisconnectedEvent, NextEvent, networkVars
<1>2. UNCHANGED <<nextPlayerIndex, groupActive>>
  BY <1>1 DEF RemovePlayer, counters
<1>3. Head(eventQueue).player \in Players
  BY <1>1, TailElements, EventFacts DEF ServerIInv, ServerTypeOK
<1>4. ASSUME NEW p \in Named
      PROVE  p \in Named' \/ (p # DefaultId /\ Departing(Head(eventQueue), p))
  <2>1. m_playerToGroup' = [m_playerToGroup EXCEPT ![Head(eventQueue).player] = Absent]
    BY <1>1 DEF RemovePlayer
  <2>2. CASE p = Head(eventQueue).player \/ p = DefaultId
    BY <1>1, <2>2 DEF Departing, Named
  <2>3. CASE p # Head(eventQueue).player /\ p # DefaultId
    <3>1. p \in Players /\ m_playerToGroup[p] # Absent
      BY <2>3 DEF Named
    <3>2. m_playerToGroup'[p] = m_playerToGroup[p]
      BY <2>1, <2>3, <3>1 DEF ServerIInv, IInv, TypeOK
    <3> QED
      BY <3>1, <3>2 DEF Named
  <2> QED
    BY <2>2, <2>3
<1>5. \A c \in Clients, p \in Players : Claims(c, p)' => Claims(c, p)
  BY <1>1, TailElements DEF Claims, Range, ServerIInv, ServerTypeOK
<1> QED
  BY <1>1, <1>2, <1>4, <1>5, DequeueInv DEF ServerIInv, ServerTypeOK, ClaimsHold

LEMMA HandlePlayerCreatedEventInv ==
  ASSUME ServerIInv, IInv', HandlePlayerCreatedEvent
  PROVE  ServerIInv'
<1>1. /\ phase = "events" /\ eventQueue # <<>> /\ eventQueue' = Tail(eventQueue)
      /\ Head(eventQueue).type = "player_created"
      /\ clientToPlayer' =
           [clientToPlayer EXCEPT ![Head(eventQueue).client] = Head(eventQueue).player]
      /\ UNCHANGED <<vars, loopVars, reliableUpdates, tcpCall, clientState>>
  BY DEF HandlePlayerCreatedEvent, NextEvent
<1>2. UNCHANGED <<nextPlayerIndex, playerActive, groupActive>>
  BY <1>1 DEF vars
<1>3. Named' = Named
  BY <1>2, PresenceKept DEF ServerIInv
<1>4. PICK c \in Clients, p \in Players :
        /\ Head(eventQueue) = PlayerCreated(c, p)
        /\ clientToPlayer' = [clientToPlayer EXCEPT ![c] = p]
  BY <1>1, TailElements, EventFacts DEF ServerIInv, ServerTypeOK
<1>5. clientToPlayer' \in [Clients -> Players \cup {NoPlayer}]
  BY <1>4 DEF ServerIInv, ServerTypeOK
<1>6. \A d \in Clients : clientState[d] = "playing" => clientToPlayer'[d] # NoPlayer
  BY <1>4, EventFacts DEF ServerIInv, ServerTypeOK, ClaimsHold
<1>7. \A d \in Clients, q \in Players : Claims(d, q)' => Claims(d, q)
  BY <1>1, <1>4, TailElements DEF Claims, Range, ServerIInv, ServerTypeOK
<1> QED
  BY <1>1, <1>2, <1>3, <1>5, <1>6, <1>7, DequeueInv DEF ServerIInv

\* The player that is created is new to everybody, or is the default id and has been
\* given only to clients that went away without a player.
LEMMA HandleClientConnectedEventInv ==
  ASSUME ServerIInv, IInv', HandleClientConnectedEvent
  PROVE  ServerIInv'
<1> USE DEF ServerIInv
<1>1. /\ phase = "events" /\ eventQueue # <<>>
      /\ Head(eventQueue).type = "client_connected"
      /\ CreatePlayerWithGroup
      /\ eventQueue' = IF failure' = "none"
                       THEN Append(Tail(eventQueue),
                                   PlayerCreated(Head(eventQueue).client, nextPlayerIndex))
                       ELSE eventQueue
      /\ UNCHANGED <<loopVars, reliableUpdates, clientToPlayer, tcpCall, clientState>>
  BY DEF HandleClientConnectedEvent, NextEvent, networkVars
<1>2. /\ UNCHANGED <<phase, updatesLeft, status, inputs>>
      /\ nextPlayerIndex \in Nat /\ nextPlayerIndex' = nextPlayerIndex + 1
      /\ groupActive' = groupActive /\ Collisions' = Collisions
  BY <1>1 DEF loopVars, CreatePlayerWithGroup, IInv, TypeOK, Collisions, Active
<1>3. CirclesMatchGroups' /\ UngroupServed'
  BY <1>1, <1>2 DEF CirclesMatchGroups, UngroupServed
<1>4. CASE failure' # "none"
  <2>1. UNCHANGED <<m_playerToGroup, eventQueue>>
    BY <1>1, <1>4 DEF CreatePlayerWithGroup, IInv, OnlyCapacityFailure
  <2>2. /\ Named' = Named
        /\ \A p \in Players : p \in Commanded => p \in Commanded'
        /\ \A p \in Players : p < nextPlayerIndex => p < nextPlayerIndex'
    BY <1>2, <2>1, IdFacts DEF Named, Commanded
  <2>3. ServerTypeOK'
    BY <1>1, <1>2, <2>1 DEF ServerTypeOK
  <2>4. ClaimedOnce' /\ ClaimsHold'
    BY <1>1, <2>1, <2>2 DEF ClaimedOnce, ClaimsHold, Claims, Gone
  <2>5. DepartsOnce'
    BY <1>1, <2>1, <2>2 DEF DepartsOnce, Claims, Gone
  <2>6. InputsCurrent'
    BY <1>1, <1>2, <2>1, <2>2, EventFacts DEF InputsCurrent
  <2>7. CollisionsCurrent'
    BY <1>1, <1>2, <2>1 DEF CollisionsCurrent
  <2> QED
    BY <1>3, <2>3, <2>4, <2>5, <2>6, <2>7
<1>5. CASE failure' = "none"
  <2>1. PICK n \in Players :
          /\ n = nextPlayerIndex
          /\ m_playerToGroup' = [m_playerToGroup EXCEPT ![n] = OffsetValue + nextGroupIndex]
          /\ m_playerToGroup'[n] # Absent
    <3>1. nextPlayerIndex < MaxPlayerCount /\ nextGroupIndex < MaxPlayerCount
          /\ nextGroupIndex \in Nat
      BY <1>1, <1>2, <1>5, CountsAssumption
      DEF CreatePlayerWithGroup, CountersAgree, IInv, TypeOK
    <3>2. m_playerToGroup' =
            [m_playerToGroup EXCEPT ![nextPlayerIndex] = OffsetValue + nextGroupIndex]
      BY <1>1, <1>5, <3>1, CountsAssumption DEF CreatePlayerWithGroup, IInv, TypeOK
    <3>3. nextPlayerIndex \in Players /\ OffsetValue + nextGroupIndex # Absent
      BY <1>2, <3>1, CountsAssumption DEF Players, Absent
    <3> QED
      BY <3>2, <3>3 DEF IInv, TypeOK
  <2>2. PICK c \in Clients : Head(eventQueue).client = c
    BY <1>1, TailElements, EventFacts DEF ServerTypeOK
  <2> DEFINE created == PlayerCreated(c, n)
  <2>3. /\ created \in Events /\ created.type = "player_created"
        /\ \A p \in Players : ~Departing(created, p)
        /\ \A d \in Clients, p \in Players : PlayerCreated(d, p) = created => d = c /\ p = n
    BY EventFacts DEF Departing
  <2> HIDE DEF created
  <2>4. /\ eventQueue' \in Seq(Events)
        /\ \A i \in DOMAIN eventQueue' :
             \/ /\ i \in Nat /\ i + 1 \in DOMAIN eventQueue
                /\ eventQueue'[i] = eventQueue[i + 1]
             \/ eventQueue'[i] = created
    <3>1. eventQueue' = Append(Tail(eventQueue), created)
      BY <1>1, <1>5, <2>1, <2>2 DEF created
    <3>2. eventQueue \in Seq(Events) /\ Tail(eventQueue) \in Seq(Events)
      BY <1>1, TailElements DEF ServerTypeOK
    <3>3. \A i \in DOMAIN eventQueue' :
            \/ i \in DOMAIN Tail(eventQueue) /\ eventQueue'[i] = Tail(eventQueue)[i]
            \/ eventQueue'[i] = created
      BY <2>3, <3>1, <3>2, AppendElements
    <3> QED
      BY <1>1, <2>3, <3>1, <3>2, <3>3, TailElements, AppendElements
  <2>5. \A event \in Range(eventQueue') : event \in Range(eventQueue) \/ event = created
    BY <2>4 DEF Range
  <2>6. \A d \in Clients, p \in Players : Claims(d, p)' => Claims(d, p) \/ (d = c /\ p = n)
    BY <1>1, <2>3, <2>5 DEF Claims
  <2>7. /\ n \in Named' /\ n \in Commanded'
        /\ \A p \in Players : p \in Named => p \in Named'
        /\ \A p \in Players : p \in Commanded => p \in Commanded'
        /\ \A p \in Players : p < nextPlayerIndex => p < nextPlayerIndex'
    <3>1. n \in Named' /\ \A p \in Players : p \in Named => p \in Named'
      BY <2>1 DEF Named, IInv, TypeOK
    <3>2. \A p \in Players : p < nextPlayerIndex => p < nextPlayerIndex'
      BY <1>2, IdFacts
    <3>3. n < nextPlayerIndex'
      BY <1>2, <2>1
    <3> QED
      BY <3>1, <3>2, <3>3 DEF Commanded
  <2>8. \A d \in Clients : Claims(d, n) => Gone(d) /\ n = DefaultId
    BY <1>2, <2>1 DEF ClaimsHold, Commanded
  <2>9. n \in Named => n = DefaultId
    BY <1>2, <2>1 DEF Named, IInv, CountersAgree
  <2>10. ServerTypeOK'
    BY <1>1, <1>2, <2>4 DEF ServerTypeOK
  <2>11. ClaimedOnce'
    BY <1>1, <2>6, <2>8 DEF ClaimedOnce, Gone
  <2>12. ClaimsHold'
    BY <1>1, <2>6, <2>7 DEF ClaimsHold, Gone, Commanded
  <2>13. DepartsOnce'
    <3>1. \A event \in Range(eventQueue') \cup {tcpCall}, p \in Players :
            Departing(event, p) =>
              /\ p \in Named'
              /\ p # DefaultId => \A d \in Clients : Claims(d, p)' => Gone(d)'
      BY <1>1, <2>3, <2>5, <2>6, <2>7, <2>9 DEF DepartsOnce, Gone
    <3>2. ASSUME NEW p \in Players \ {DefaultId},
                 NEW i \in DOMAIN eventQueue', NEW j \in DOMAIN eventQueue',
                 Departing(eventQueue'[i], p), Departing(eventQueue'[j], p)
          PROVE  i = j
      <4>1. /\ i \in Nat /\ i + 1 \in DOMAIN eventQueue /\ Departing(eventQueue[i + 1], p)
            /\ j \in Nat /\ j + 1 \in DOMAIN eventQueue /\ Departing(eventQueue[j + 1], p)
        BY <2>3, <2>4, <3>2
      <4>2. i + 1 = j + 1
        BY <4>1 DEF DepartsOnce
      <4> QED
        BY <4>1, <4>2
    <3>3. ASSUME NEW p \in Players \ {DefaultId}, Departing(tcpCall, p),
                 NEW i \in DOMAIN eventQueue'
          PROVE  ~Departing(eventQueue'[i], p)
      BY <2>3, <2>4, <3>3 DEF DepartsOnce
    <3>4. tcpCall' = tcpCall
      BY <1>1
    <3> QED
      BY <3>1, <3>2, <3>3, <3>4 DEF DepartsOnce
  <2>14. InputsCurrent'
    <3>1. \A flag \in {"joinable", "ungroup"} :
            reliableUpdates'[flag] = {} /\ inputs'[flag] = {}
      BY <1>1, <1>2 DEF InputsCurrent
    <3>2. tcpCall \in ReliableInputs =>
            /\ tcpCall.player \in Commanded'
            /\ tcpCall.player # DefaultId =>
                 \A i \in DOMAIN eventQueue' : ~Departing(eventQueue'[i], tcpCall.player)
      BY <2>3, <2>4, <2>7, EventFacts DEF InputsCurrent
    <3> QED
      BY <1>1, <3>1, <3>2 DEF InputsCurrent
  <2>15. CollisionsCurrent'
    BY <1>1, <1>2, <2>3, <2>4 DEF CollisionsCurrent
  <2> QED
    BY <1>3, <2>10, <2>11, <2>12, <2>13, <2>14, <2>15
<1> QED
  BY <1>4, <1>5

(***************************************************************************)
(* The theorems.                                                           *)
(***************************************************************************)
LEMMA ServerInitInv == ServerInit => ServerIInv
<1> SUFFICES ASSUME ServerInit PROVE ServerIInv
  OBVIOUS
<1>1. IInv
  BY InitInv DEF ServerInit
<1>2. ServerTypeOK
  BY EmptySeq DEF ServerInit, ServerTypeOK, NoInputs
<1>3. \A c \in Clients, p \in Players : ~Claims(c, p)
  BY EventFacts, EmptySeq DEF ServerInit, Claims, Range
<1>4. ClaimedOnce /\ ClaimsHold
  BY <1>3 DEF ClaimedOnce, ClaimsHold, ServerInit
<1>5. DepartsOnce
  BY EventFacts, EmptySeq DEF DepartsOnce, Departing, Range, ServerInit
<1>6. InputsCurrent
  BY EventFacts DEF InputsCurrent, ServerInit, NoInputs
<1>7. CollisionsCurrent
  BY EventFacts, EmptySeq DEF CollisionsCurrent, ServerInit
<1>8. CirclesMatchGroups /\ UngroupServed
  BY DEF CirclesMatchGroups, UngroupServed, ServerInit
<1> QED
  BY <1>1, <1>2, <1>4, <1>5, <1>6, <1>7, <1>8 DEF ServerIInv

LEMMA ServerNextInv == ServerIInv /\ [ServerNext]_serverVars => ServerIInv'
<1> SUFFICES ASSUME ServerIInv, [ServerNext]_serverVars PROVE ServerIInv'
  OBVIOUS
<1>1. IInv'
  BY StepImplements, NextInv DEF ServerIInv
<1>2. CASE TcpThread
  BY <1>2, TcpThreadInv
<1>3. CASE MainThread
  BY <1>1, <1>3, LoopInv, UpdateObjectsInv, UpdatePhysicsInv, HandleCollisionEventInv,
     HandleClientConnectedEventInv, HandleClientDisconnectedEventInv, HandlePlayerCreatedEventInv
  DEF MainThread
<1>4. CASE UNCHANGED serverVars
  <2>1. UNCHANGED <<vars, phase, updatesLeft, status, inputs, eventQueue, reliableUpdates,
                    clientToPlayer, tcpCall, clientState>>
    BY <1>4 DEF serverVars, loopVars, networkVars
  <2>2. UNCHANGED <<playerActive, nextPlayerIndex, groupActive>>
    BY <2>1 DEF vars
  <2>3. Commanded' = Commanded /\ Named' = Named /\ Collisions' = Collisions
    BY <1>1, <2>2, PresenceKept DEF ServerIInv, Collisions, Active
  <2>4. ServerTypeOK' /\ ClaimedOnce' /\ ClaimsHold'
    BY <2>1, <2>2, <2>3 DEF ServerIInv, ServerTypeOK, ClaimedOnce, ClaimsHold, Claims, Gone
  <2>5. DepartsOnce' /\ InputsCurrent' /\ CollisionsCurrent'
    BY <2>1, <2>3 DEF ServerIInv, DepartsOnce, InputsCurrent, CollisionsCurrent, Claims, Gone
  <2>6. CirclesMatchGroups' /\ UngroupServed'
    BY <2>1 DEF vars, ServerIInv, CirclesMatchGroups, UngroupServed, Alone
  <2> QED
    BY <1>1, <2>4, <2>5, <2>6 DEF ServerIInv
<1> QED
  BY <1>2, <1>3, <1>4 DEF ServerNext, ServerTerminated

\* The inductive invariant of the server holds in every reachable state.
THEOREM ServerInvariance == ServerSpec => []ServerIInv
BY ServerInitInv, ServerNextInv, PTL DEF ServerSpec

\* Every variable of the server keeps its type.
THEOREM ServerTypeCorrect == ServerSpec => []ServerTypeOK
<1>1. ServerIInv => ServerTypeOK
  BY DEF ServerIInv
<1> QED
  BY ServerInvariance, <1>1, PTL

\* The two threads together use GroupController as its specification allows, so
\* what is proved of GroupController holds in the server.
THEOREM ServerRefinement == ServerSpec => ImplementsGroupController
<1>1. ServerInit => Init
  BY DEF ServerInit
<1> QED
  BY <1>1, ServerInvariance, StepImplements, PTL DEF ServerSpec, Spec, ImplementsGroupController

\* So the server's threads, queues and stale lookups cannot bring GroupController to
\* lose a player, to run out of empty groups in regroup, or to move a player from
\* one group to another in any way but alone or with the whole group.
THEOREM GroupsSafeOnServer ==
  ServerSpec => /\ [](MembershipConsistent /\ ActiveIffGrouped /\ OnlyCapacityFailure)
                /\ LeaveAloneOrMergeWhole
BY ServerRefinement, Partition, ActiveAgrees, RegroupNeverFails, GroupChanges, PTL
   DEF ImplementsGroupController

\* When the physics run, the active groups are those with members.
THEOREM CirclesAreGroups == ServerSpec => []CirclesMatchGroups
<1>1. ServerIInv => CirclesMatchGroups
  BY DEF ServerIInv
<1> QED
  BY ServerInvariance, <1>1, PTL

\* No update leaves a player with others whom it has asked to leave.
THEOREM UngroupIsServed == ServerSpec => []UngroupServed
<1>1. ServerIInv => UngroupServed
  BY DEF ServerIInv
<1> QED
  BY ServerInvariance, <1>1, PTL

\* Two clients that play never steer the same player.
THEOREM OnePlayerEach == ServerSpec => []PlayersNotShared
<1>1. ServerIInv => PlayersNotShared
  BY DEF ServerIInv, ServerTypeOK, ClaimedOnce, ClaimsHold, Claims, Gone, PlayersNotShared
<1> QED
  BY ServerInvariance, <1>1, PTL

\* The player of a client that plays, other than player 0, is in the game.
THEOREM PlayerIsKept == ServerSpec => []KeepsPlayer
<1>1. ServerIInv => KeepsPlayer
  <2> SUFFICES ASSUME ServerIInv, NEW c \in Clients, clientState[c] = "playing",
                      clientToPlayer[c] # DefaultId
               PROVE  playerActive[clientToPlayer[c]]
    BY DEF KeepsPlayer
  <2>1. clientToPlayer[c] \in Players /\ clientToPlayer[c] \in Commanded
    BY DEF ServerIInv, ServerTypeOK, ClaimsHold, Claims, Gone
  <2> QED
    BY <2>1 DEF Commanded, Named, ServerIInv, IInv, ActiveIffGrouped
<1> QED
  BY ServerInvariance, <1>1, PTL
=============================================================================
