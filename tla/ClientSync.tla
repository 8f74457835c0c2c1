----------------------------- MODULE ClientSync -----------------------------
(***************************************************************************)
(* One client following the server's game.                                 *)
(*                                                                         *)
(* The server counts ticks and publishes its state once per step; a thread *)
(* broadcasts the published state over UDP again and again, so states get  *)
(* skipped, lost, duplicated and reordered on the way.  The client's       *)
(* receiving thread keeps the newest few in a buffer; its main thread      *)
(* starts once the buffer is full, and then moves its own tick towards     *)
(* the buffered ones.  A router between the two may give the client's      *)
(* datagrams another port, and lets nothing in by the old one: the client  *)
(* sends empty datagrams, NAT punches, from which the server learns it.    *)
(*                                                                         *)
(* The contents of a state (the objects and events) are left out: what is  *)
(* modelled is which state is shown when.  Clients share nothing but the   *)
(* server, which they do not influence here, so one is enough.             *)
(***************************************************************************)
EXTENDS Naturals, FiniteSets

CONSTANTS
  Winners,          \* the players who can win
  NoWinner,         \* winner_player_id before anybody has won
  Unknown,          \* what a client shows that waits for its first states
  BufferSize,       \* CLIENT_GAME_STATE_BUFFER_SIZE
  BehindThreshold,  \* BEHIND_TICK_DELTA_THRESHOLD
  TickLimit,        \* 2^32, where a uint32_t tick wraps
  LocalPort,        \* the port of the client's m_stateUdpSocket
  OutsidePort,      \* the port it has for the server; the same one without a NAT
  MaxTick           \* bound: the server's last tick

ASSUME SyncAssumption ==
  /\ NoWinner \notin Winners
  /\ Unknown \notin Winners \cup {NoWinner}
  /\ BufferSize \in Nat /\ BufferSize > 1
  /\ BehindThreshold \in Nat
  /\ MaxTick \in Nat
  /\ TickLimit \in Nat /\ MaxTick + 1 < TickLimit
  /\ LocalPort \in Nat \ {0} /\ OutsidePort \in Nat \ {0}

VARIABLES
  serverTick,   \* the server's m_tick_ta
  ticked,       \* has this step of the server made an update?
  serverCore,   \* the server's m_gameStateCore
  published,    \* the server's m_gameState_t
  network,      \* broadcast states on their way
  clientPhase,  \* how far ClientGameController::start has got
  answer,       \* the tick in the registration response
  clientPort,   \* the client's entry in m_clientToUdpPorts_t, or 0
  punches,      \* the ports from which NAT punches are on their way
  clientTick,   \* the client's m_tick_ta
  core,         \* the client's m_gameStateCore
  buffer,       \* m_gameStateBuffer_t, a map from ticks to states
  received      \* history: the ticks of all states received

server == <<serverTick, ticked, serverCore, published>>
client == <<clientPhase, answer, clientTick, core>>
ports == <<clientPort, punches>>
syncVars == <<server, network, client, ports, buffer, received>>

(***************************************************************************)
(* A state is its GameStateCore: tick, status, and winner_player_id.       *)
(***************************************************************************)
Ticks == 0 .. MaxTick

Core(tick, status, winner) == [tick |-> tick, status |-> status, winner |-> winner]

Cores ==
  [tick : Ticks, status : {"not_started", "playing", "game_over"},
   winner : Winners \cup {NoWinner}]

StartCore == Core(0, "not_started", NoWinner)

IsLeast(t, ticks) == \A u \in ticks : t <= u

IsGreatest(t, ticks) == \A u \in ticks : u <= t

SyncTypeOK ==
  /\ serverTick \in Ticks
  /\ ticked \in BOOLEAN
  /\ serverCore \in Cores
  /\ published \in Cores
  /\ network \in SUBSET Cores
  /\ clientPhase \in {"connecting", "registering", "running", "crashed"}
  /\ answer \in Ticks
  /\ clientPort \in {0, LocalPort, OutsidePort}
  /\ punches \subseteq {OutsidePort}
  /\ clientTick \in Ticks
  /\ core \in Cores
  /\ received \in SUBSET Ticks
  /\ DOMAIN buffer \subseteq received
  /\ \A t \in DOMAIN buffer : buffer[t] \in Cores /\ buffer[t].tick = t

SyncInit ==
  /\ serverTick = 0
  /\ ticked = FALSE
  /\ serverCore = Core(0, "playing", NoWinner)
  /\ published = StartCore
  /\ network = {}
  /\ clientPhase = "connecting"
  /\ answer = 0
  /\ clientPort = 0
  /\ punches = {}
  /\ clientTick = 0
  /\ core = StartCore
  /\ buffer = [t \in {} |-> StartCore]
  /\ received = {}

-----------------------------------------------------------------------------
(***************************************************************************)
(* The server's main thread.                                               *)
(***************************************************************************)

\* An update while playing ends in incrementTick; later ones do nothing.
ServerUpdate ==
  /\ serverCore.status = "playing"
  /\ serverTick < MaxTick
  /\ serverTick' = serverTick + 1
  /\ ticked' = TRUE
  /\ UNCHANGED <<serverCore, published, network, client, ports, buffer, received>>

\* Mutant: a step that was too short for an update publishes all the same.
ServerPostUpdateShortStep ==
  /\ serverCore.status = "playing"
  /\ \/ serverCore' = Core(serverTick, "playing", NoWinner)
     \/ \E winner \in Winners : serverCore' = Core(serverTick, "game_over", winner)
  /\ published' = serverCore'
  /\ ticked' = FALSE
  /\ UNCHANGED <<serverTick, network, client, ports, buffer, received>>

\* Every step makes an update: the window in it is longer than MIN_TIME_STEP.
\* A step after the game is over publishes nothing.
ServerPostUpdate ==
  /\ serverCore.status = "playing"
  /\ ticked
  /\ \/ serverCore' = Core(serverTick, "playing", NoWinner)
     \/ \E winner \in Winners : serverCore' = Core(serverTick, "game_over", winner)
  /\ published' = serverCore'
  /\ ticked' = FALSE
  /\ UNCHANGED <<serverTick, network, client, ports, buffer, received>>

(***************************************************************************)
(* The server's other threads, and the network.                            *)
(***************************************************************************)

\* NetworkingServer::registerClient notes the port and answers with the tick.
RegisterClient ==
  /\ clientPhase = "connecting"
  /\ clientPhase' = "registering"
  /\ answer' = serverTick
  /\ clientPort' = LocalPort
  /\ UNCHANGED <<server, network, clientTick, core, punches, buffer, received>>

\* Sent to every client that has registered; the state may be an old one.  Sent
\* to a port that the router does not know, it is lost.
SendGameState ==
  /\ clientPort = OutsidePort
  /\ network' = network \cup {published}
  /\ UNCHANGED <<server, client, ports, buffer, received>>

LoseGameState ==
  /\ \E state \in network : network' = network \ {state}
  /\ UNCHANGED <<server, client, ports, buffer, received>>

\* The client's NAT thread, which knows the server's port from the response.  They
\* are all the same: to lose one is to be late with it.
SendNatPunch ==
  /\ clientPhase = "running"
  /\ punches' = {OutsidePort}
  /\ UNCHANGED <<server, network, client, clientPort, buffer, received>>

\* Mutant: the port that was registered is not replaced.
HandleNatPunchOnce(port) ==
  /\ port \in punches
  /\ clientPort' = IF clientPort = 0 THEN port ELSE clientPort
  /\ punches' = {}
  /\ UNCHANGED <<server, network, client, buffer, received>>

HandleNatPunch(port) ==
  /\ port \in punches
  /\ clientPort' = port
  /\ punches' = {}
  /\ UNCHANGED <<server, network, client, buffer, received>>

\* The server's NAT thread.
NatRecv == \E port \in punches : HandleNatPunch(port)

-----------------------------------------------------------------------------
(***************************************************************************)
(* The client's receiving thread.                                          *)
(***************************************************************************)
Without(map, t) == [u \in DOMAIN map \ {t} |-> map[u]]

\* Mutant: the state is filed under the client's own tick.
WithClientTick(map, state) ==
  [u \in DOMAIN map \cup {clientTick} |-> IF u = clientTick THEN state ELSE map[u]]

With(map, state) ==
  [u \in DOMAIN map \cup {state.tick} |-> IF u = state.tick THEN state ELSE map[u]]

\* Mutant: a state that is late goes into the buffer for the state received last.
UpdateGameStateBufferRoundRobin(state) ==
  LET added == With(buffer, state)
  IN IF Cardinality(DOMAIN added) > BufferSize
     THEN \E oldest \in DOMAIN buffer :
            /\ IsLeast(oldest, DOMAIN buffer)
            /\ buffer' = Without(added, oldest)
     ELSE buffer' = added

\* Mutant: the buffer holds one state less than preUpdate waits for.
UpdateGameStateBufferSmaller(state) ==
  LET added == With(buffer, state)
  IN IF Cardinality(DOMAIN added) >= BufferSize
     THEN \E oldest \in DOMAIN added :
            /\ IsLeast(oldest, DOMAIN added)
            /\ buffer' = Without(added, oldest)
     ELSE buffer' = added

\* The state takes its place by tick; if that is one too many, the smallest
\* goes, which may be the new one.
UpdateGameStateBuffer(state) ==
  LET added == With(buffer, state)
  IN IF Cardinality(DOMAIN added) > BufferSize
     THEN \E oldest \in DOMAIN added :
            /\ IsLeast(oldest, DOMAIN added)
            /\ buffer' = Without(added, oldest)
     ELSE buffer' = added

\* A datagram may be delivered again.  Only its reception is modelled: the code goes on
\* for an error, too, with a state it has not read.
Receive(state) ==
  /\ clientPhase # "crashed"
  /\ state \in network
  /\ UpdateGameStateBuffer(state)
  /\ received' = received \cup {state.tick}
  /\ network' \in {network, network \ {state}}
  /\ UNCHANGED <<server, client, ports>>

-----------------------------------------------------------------------------
(***************************************************************************)
(* The client's main thread.                                               *)
(***************************************************************************)

\* readRegistrationResponse takes over the server's tick of that moment.
FinishRegistration ==
  /\ clientPhase = "registering"
  /\ clientPhase' = "running"
  /\ clientTick' = answer
  /\ UNCHANGED <<server, network, answer, core, ports, buffer, received>>

\* Mutant: the first state is enough to start with.
PreUpdateEarly ==
  /\ clientPhase = "running"
  /\ core.status = "not_started"
  /\ buffer # [t \in {} |-> StartCore]
  /\ \E smallest \in DOMAIN buffer :
       IsLeast(smallest, DOMAIN buffer) /\ core' = buffer[smallest]
  /\ UNCHANGED <<server, network, clientPhase, answer, clientTick, ports, buffer, received>>

\* ClientGameController::preUpdate while not_started.
PreUpdate ==
  /\ clientPhase = "running"
  /\ core.status = "not_started"
  /\ Cardinality(DOMAIN buffer) = BufferSize
  /\ \E smallest \in DOMAIN buffer :
       IsLeast(smallest, DOMAIN buffer) /\ core' = buffer[smallest]
  /\ UNCHANGED <<server, network, clientPhase, answer, clientTick, ports, buffer, received>>

\* interpolateGameState throws when asked to go back; nothing catches it.
InterpolateGameState(from, to, end) ==
  IF to < from \/ end < to
  THEN /\ clientPhase' = "crashed"
       /\ UNCHANGED <<clientTick, core>>
  ELSE /\ core' = buffer[end]
       /\ clientTick' = to
       /\ UNCHANGED clientPhase

\* A client far behind jumps, otherwise it goes on by one tick.
Behind(smallest) ==
  LET next == IF smallest - clientTick > BehindThreshold
              THEN smallest - BehindThreshold
              ELSE clientTick + 1
  IN InterpolateGameState(clientTick, next, smallest)

TickBefore(t) == IF t = 0 THEN TickLimit - 1 ELSE t - 1

\* Mutant: the client moves on to the next buffered tick.
AheadSkips(smallest) ==
  LET later == {t \in DOMAIN buffer \ {smallest} : clientTick < t}
  IN \/ /\ later = {}
        /\ UNCHANGED <<clientPhase, clientTick, core>>
     \/ \E next \in later :
          /\ IsLeast(next, later)
          /\ InterpolateGameState(TickBefore(clientTick), smallest, next)

\* A client ahead of the buffer keeps its tick, and heads for the next state
\* after it, if there is one.
Ahead(smallest) ==
  LET later == {t \in DOMAIN buffer \ {smallest} : clientTick < t}
  IN \/ /\ later = {}
        /\ UNCHANGED <<clientPhase, clientTick, core>>
     \/ \E next \in later :
          /\ IsLeast(next, later)
          /\ InterpolateGameState(TickBefore(clientTick), clientTick, next)

\* updateGameState, on a copy of the buffer.  The end of the game is shown at
\* once, without catching up.
Update ==
  /\ clientPhase = "running"
  /\ core.status = "playing"
  /\ \E smallest \in DOMAIN buffer, largest \in DOMAIN buffer :
       /\ IsLeast(smallest, DOMAIN buffer)
       /\ IsGreatest(largest, DOMAIN buffer)
       /\ \/ /\ buffer[largest].status = "game_over"
             /\ core' = buffer[largest]
             /\ UNCHANGED <<clientPhase, clientTick>>
          \/ /\ buffer[largest].status # "game_over"
             /\ clientTick < smallest
             /\ Behind(smallest)
          \/ /\ buffer[largest].status # "game_over"
             /\ smallest <= clientTick
             /\ Ahead(smallest)
  /\ UNCHANGED <<server, network, answer, ports, buffer, received>>

-----------------------------------------------------------------------------
SyncNext ==
  \/ ServerUpdate
  \/ ServerPostUpdate
  \/ RegisterClient
  \/ SendGameState
  \/ LoseGameState
  \/ SendNatPunch
  \/ NatRecv
  \/ \E state \in network : Receive(state)
  \/ FinishRegistration
  \/ PreUpdate
  \/ Update

SyncSpec == SyncInit /\ [][SyncNext]_syncVars

(***************************************************************************)
(* The client's main thread keeps running, and so do the broadcast and the *)
(* punches.  The network may lose any datagram, but not all copies of one  *)
(* that is sent for ever.  Nothing is assumed of the server's game: it     *)
(* need not end.                                                           *)
(***************************************************************************)
ReceivePublished == published \in network /\ Receive(published)

SyncFairness ==
  /\ WF_syncVars(SendGameState)
  /\ WF_syncVars(SendNatPunch)
  /\ WF_syncVars(NatRecv)
  /\ SF_syncVars(ReceivePublished)
  /\ WF_syncVars(FinishRegistration)
  /\ WF_syncVars(PreUpdate)
  /\ WF_syncVars(Update)

FairSyncSpec == SyncSpec /\ SyncFairness

-----------------------------------------------------------------------------
(***************************************************************************)
(* Properties.                                                             *)
(***************************************************************************)

\* interpolateGameState never throws "Can't interpolate to the past.", the end
\* of the client's process, whatever arrives in whatever order: neither a late
\* state nor the tick 0 of a server that has just started gets in its way.
NeverThePast == clientPhase # "crashed"

\* "A limited size buffer of game states": it holds the newest BufferSize of the
\* ticks received so far, also when one that was thrown out arrives again.
BufferIsNewest ==
  /\ \A t \in received \ DOMAIN buffer, u \in DOMAIN buffer : t < u
  /\ Cardinality(DOMAIN buffer)
       = IF Cardinality(received) < BufferSize THEN Cardinality(received) ELSE BufferSize

\* What was published at the end of the game is not replaced in the buffer by
\* an older copy, and a client that shows the end shows the server's.
EndIsFinal ==
  /\ core.status = "game_over" => core = serverCore
  /\ \A t \in DOMAIN buffer :
       t = serverCore.tick /\ serverCore.status = "game_over" => buffer[t] = serverCore

(***************************************************************************)
(* What the player sees: the refinement of GameStateFeed.                  *)
(***************************************************************************)
Feed ==
  INSTANCE GameStateFeed WITH
    Undecided <- NoWinner,
    Nothing <- Unknown,
    tick <- serverTick,
    result <- serverCore.winner,
    shownTick <- clientTick,
    shownResult <- IF core.status = "not_started" THEN Unknown ELSE core.winner

\* For all that happens on the network the client's game only moves forward,
\* never ahead of the server's, and is won by whom the server says; and a client
\* that follows the game does get to see its end.
ImplementsFeed == Feed!FeedSpec

\* A client that has received a full buffer of the game's states leaves the
\* waiting screen (states of before the game do not count).
FullBufferStarts ==
  clientPhase = "running" /\ Cardinality(received \ {0}) >= BufferSize
  ~> core.status # "not_started"

\* The registered port is the wrong one behind a NAT that gives the client
\* another; all the same a client that has registered receives the last state
\* of the game, without which it would never see its end.
EndReachesClient ==
  clientPhase = "running" /\ serverCore.status = "game_over" ~> serverCore.tick \in received
=============================================================================
