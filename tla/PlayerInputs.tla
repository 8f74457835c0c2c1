---------------------------- MODULE PlayerInputs ----------------------------
(***************************************************************************)
(* One player's commands, from the keys to the game.                       *)
(*                                                                         *)
(* A client registers over TCP and asks for its player until it is told.   *)
(* Then its main thread hands what the player presses to two threads: the  *)
(* reliable inputs wait in a queue and go over TCP, one at a time; of the  *)
(* unreliable ones, which say where to move, there is one slot, which is   *)
(* sent over UDP for ever.  The server's threads pass both on to the main  *)
(* thread while its window is open, but drop movement that is too old.     *)
(*                                                                         *)
(* A tick is modelled by how far it is behind the server's: all the code   *)
(* reads of it is the difference, modulo 2^32, and ClientSync shows that   *)
(* the client is never ahead.  Other clients share the threads but no      *)
(* state (GameServer), so one is enough.                                   *)
(***************************************************************************)
EXTENDS Naturals, Sequences, FiniteSets, SequencesExt

CONSTANTS
  Moves,              \* what a player may press together to move: sets of keys
  Toggles,            \* the same for the reliable inputs
  ResourceTypeCount,  \* RESOURCE_TYPE_COUNT
  Threshold,          \* INPUT_TICK_DELTA_THRESHOLD
  MaxRequests,        \* bound: unread messages in a TCP connection
  MaxDatagrams,       \* bound: datagrams on their way
  MaxBatch,           \* bound: unreliable inputs in one window
  MaxPresses          \* bound: how often the player presses other keys

MoveKeys == {"up", "down", "right", "left", "stop"}

ToggleKeys == {"ungroup", "joinable", "intent"}

ASSUME InputsAssumption ==
  /\ Moves \subseteq (SUBSET MoveKeys) \ {{}}
  /\ Toggles \subseteq (SUBSET ToggleKeys) \ {{}}
  /\ ResourceTypeCount \in Nat \ {0}
  /\ Threshold \in Nat \ {0}

VARIABLES
  phase,              \* how far the client's main thread has got
  lag,                \* the server's tick - the client's, at most Threshold
  m_unreliableInput,  \* the slot
  m_reliableInputs,   \* the queue
  toServer,           \* the TCP connection
  toClient,           \* as far as the client reads it: one that plays does not
  datagrams,          \* unreliable inputs on their way, with the lag of their tick
  connected,          \* is the ClientConnectedEvent in the event queue?
  hasPlayer,          \* has the client an entry in m_clientToPlayerIds_t?
  tcpCall,            \* the command the TCP thread waits for a window with, if any
  udpCall,            \* the input the UDP thread waits for a window with, if any
  reliableUpdates,    \* m_playerReliableUpdates_t
  unreliableUpdates,  \* m_playerUnreliableUpdates_t
  window,             \* has the main thread released the locks?
  serverStatus,       \* the server's m_gameStateCore.status
  direction,          \* the player's m_direction
  toggled,            \* what PlayerController::update has made of each toggle
  pushed,             \* history: all reliable inputs the client has queued
  turns,              \* history: how often m_unreliableInput has changed
  done                \* history: those that the game has acted on

handshake == <<phase, toClient, connected, hasPlayer>>
progress == <<lag, window, serverStatus>>
moving == <<m_unreliableInput, turns, datagrams, udpCall, unreliableUpdates, direction>>
toggling == <<m_reliableInputs, reliableUpdates, toggled, pushed, done>>
inputVars == <<handshake, toServer, tcpCall, progress, moving, toggling>>

Nothing == {}

Request(type) == [type |-> type, input |-> Nothing]

ReliableCommand(input) == [type |-> "reliable_input", input |-> input]

Requests == {Request("register_client"), Request("player_id")}
             \cup {ReliableCommand(input) : input \in Toggles}

UnreliableCommand(input, n) == [input |-> input, lag |-> n]

\* What InputUtil::inputToDirection makes of the keys: stop is stronger than all
\* others, and opposite keys cancel each other.
InputToDirection(input) ==
  IF "stop" \in input
  THEN [x |-> "none", y |-> "none"]
  ELSE [x |-> CASE "left" \in input /\ "right" \notin input -> "left"
                [] "right" \in input /\ "left" \notin input -> "right"
                [] OTHER -> "none",
        y |-> CASE "up" \in input /\ "down" \notin input -> "up"
                [] "down" \in input /\ "up" \notin input -> "down"
                [] OTHER -> "none"]

Directions == [x : {"none", "left", "right"}, y : {"none", "up", "down"}]

\* A flag is back after two toggles, an intent after all types.
Period(key) == IF key = "intent" THEN ResourceTypeCount ELSE 2

InputsTypeOK ==
  /\ phase \in {"connecting", "registering", "asking", "waiting", "not_started", "playing"}
  /\ lag \in 0 .. Threshold
  /\ m_unreliableInput \in Moves \cup {Nothing}
  /\ m_reliableInputs \in Seq(Toggles)
  /\ toServer \in Seq(Requests)
  /\ toClient \in Seq({"register_client", "player_id"})
  /\ datagrams \subseteq [input : Moves \cup {Nothing}, lag : 0 .. Threshold]
  /\ connected \in BOOLEAN
  /\ hasPlayer \in BOOLEAN
  /\ tcpCall \in Seq(Requests) /\ Len(tcpCall) <= 1
  /\ udpCall \in Seq(Moves \cup {Nothing}) /\ Len(udpCall) <= 1
  /\ reliableUpdates \in Seq(Toggles)
  /\ unreliableUpdates \in Seq(Moves \cup {Nothing})
  /\ window \in BOOLEAN
  /\ serverStatus \in {"playing", "game_over"}
  /\ direction \in Directions
  /\ toggled \in [ToggleKeys -> Nat]
  /\ \A key \in ToggleKeys : toggled[key] < Period(key)
  /\ pushed \in Seq(Toggles)
  /\ turns \in Nat
  /\ done \in Seq(Toggles)

\* The slot is not initialised: it may hold any keys.
InputsInit ==
  /\ phase = "connecting"
  /\ lag = 0
  /\ m_unreliableInput \in Moves \cup {Nothing}
  /\ m_reliableInputs = <<>>
  /\ toServer = <<>>
  /\ toClient = <<>>
  /\ datagrams = {}
  /\ connected = FALSE
  /\ hasPlayer = FALSE
  /\ tcpCall = <<>>
  /\ udpCall = <<>>
  /\ reliableUpdates = <<>>
  /\ unreliableUpdates = <<>>
  /\ window = FALSE
  /\ serverStatus = "playing"
  /\ direction = InputToDirection(Nothing)
  /\ toggled = [key \in ToggleKeys |-> 0]
  /\ pushed = <<>>
  /\ turns = 0
  /\ done = <<>>

-----------------------------------------------------------------------------
(***************************************************************************)
(* The client's main thread: registerClientAndFetchPlayerId ...            *)
(***************************************************************************)
RegisterClient ==
  /\ phase = "connecting"
  /\ phase' = "registering"
  /\ toServer' = Append(toServer, Request("register_client"))
  /\ UNCHANGED <<toClient, connected, hasPlayer, tcpCall, progress, moving, toggling>>

\* The tick in the response may be out of date.
ReadRegistrationResponse ==
  /\ phase = "registering"
  /\ toClient # <<>>
  /\ phase' = "asking"
  /\ toClient' = Tail(toClient)
  /\ lag' \in 0 .. Threshold
  /\ UNCHANGED <<connected, hasPlayer, toServer, tcpCall, window,
                 serverStatus, moving, toggling>>

RequestPlayerId ==
  /\ phase = "asking"
  /\ Len(toServer) < MaxRequests
  /\ phase' = "waiting"
  /\ toServer' = Append(toServer, Request("player_id"))
  /\ UNCHANGED <<toClient, connected, hasPlayer, tcpCall, progress, moving, toggling>>

\* It may be the answer to an earlier request, and is then not the last, but the
\* last that is read.
ReceivePlayerId ==
  /\ phase = "waiting"
  /\ toClient # <<>>
  /\ phase' = "not_started"
  /\ toClient' = <<>>
  /\ UNCHANGED <<connected, hasPlayer, toServer, tcpCall, progress, moving, toggling>>

\* Mutant: the client starts without having been told its player.
ReceiveTimeoutGivesUp ==
  /\ phase = "waiting"
  /\ toClient = <<>>
  /\ phase' = "not_started"
  /\ UNCHANGED <<toClient, connected, hasPlayer, toServer, tcpCall, progress, moving,
                 toggling>>

\* Mutant: the client waits for the answer to its first request.
ReceiveTimeoutWaits ==
  /\ phase = "waiting"
  /\ toClient = <<>>
  /\ UNCHANGED inputVars

ReceiveTimeout ==
  /\ phase = "waiting"
  /\ toClient = <<>>
  /\ phase' = "asking"
  /\ UNCHANGED <<toClient, connected, hasPlayer, toServer, tcpCall, progress, moving,
                 toggling>>

(***************************************************************************)
(* ... and step, of which ClientSync models the rest.  A client that has   *)
(* seen the end of the game passes on no more keys, as one does whose      *)
(* player presses none: that is not a phase of its own.                    *)
(***************************************************************************)
StartPlaying ==
  /\ phase = "not_started"
  /\ phase' = "playing"
  /\ UNCHANGED <<toClient, connected, hasPlayer, toServer, tcpCall, progress, moving, toggling>>

CatchUp ==
  /\ phase = "playing"
  /\ \E newLag \in 0 .. lag : newLag < lag /\ lag' = newLag
  /\ UNCHANGED <<handshake, toServer, tcpCall, window, serverStatus, moving,
                 toggling>>

\* sendInputs: keys that were not pressed are not passed on.
PushReliableInput(input) ==
  /\ phase = "playing"
  /\ turns + Len(pushed) < MaxPresses
  /\ m_reliableInputs' = Append(m_reliableInputs, input)
  /\ pushed' = Append(pushed, input)
  /\ UNCHANGED <<handshake, toServer, tcpCall, progress, moving, reliableUpdates, toggled, done>>

PushUnreliableInput(input) ==
  /\ phase = "playing"
  /\ turns + Len(pushed) < MaxPresses
  /\ input # m_unreliableInput
  /\ m_unreliableInput' = input
  /\ turns' = turns + 1
  /\ UNCHANGED <<handshake, toServer, tcpCall, progress, datagrams, udpCall, unreliableUpdates,
                 direction, toggling>>

-----------------------------------------------------------------------------
(***************************************************************************)
(* The client's sending threads, and the network.                          *)
(***************************************************************************)

\* Mutant: the queue is a stack.
SendNewestInput ==
  /\ m_reliableInputs # <<>>
  /\ Len(toServer) < MaxRequests
  /\ toServer' = Append(toServer, ReliableCommand(Last(m_reliableInputs)))
  /\ m_reliableInputs' = Front(m_reliableInputs)
  /\ UNCHANGED <<handshake, tcpCall, progress, moving, reliableUpdates, toggled, pushed, done>>

SendReliableInput ==
  /\ m_reliableInputs # <<>>
  /\ Len(toServer) < MaxRequests
  /\ toServer' = Append(toServer, ReliableCommand(Head(m_reliableInputs)))
  /\ m_reliableInputs' = Tail(m_reliableInputs)
  /\ UNCHANGED <<handshake, tcpCall, progress, moving, reliableUpdates, toggled, pushed, done>>

\* The server's port is known from the registration on.  What is in the slot
\* is sent again and again; a full network loses something.
SendUnreliableInput ==
  /\ phase \in {"asking", "waiting", "not_started", "playing"}
  /\ \E arriving \in SUBSET datagrams :
       /\ Cardinality(arriving) < MaxDatagrams
       /\ Cardinality(datagrams) < MaxDatagrams => arriving = datagrams
       /\ datagrams' = arriving \cup {UnreliableCommand(m_unreliableInput, lag)}
  /\ UNCHANGED <<handshake, toServer, tcpCall, progress, m_unreliableInput, turns, udpCall,
                 unreliableUpdates, direction, toggling>>

LoseDatagram ==
  /\ \E datagram \in datagrams : datagrams' = datagrams \ {datagram}
  /\ UNCHANGED <<handshake, toServer, tcpCall, progress, m_unreliableInput, turns, udpCall,
                 unreliableUpdates, direction, toggling>>

-----------------------------------------------------------------------------
(***************************************************************************)
(* The server's TCP thread: handleReliableCommand, up to where it waits    *)
(* for the window, and from there.                                         *)
(***************************************************************************)
TakeCommand(type) ==
  /\ tcpCall = <<>>
  /\ toServer # <<>>
  /\ Head(toServer).type = type
  /\ toServer' = Tail(toServer)

HandleRegisterClient ==
  /\ TakeCommand("register_client")
  /\ toClient' = Append(toClient, "register_client")
  /\ tcpCall' = <<Head(toServer)>>
  /\ UNCHANGED <<phase, connected, hasPlayer, progress, moving, toggling>>

SendPlayerId ==
  /\ TakeCommand("player_id")
  /\ toClient' = IF hasPlayer /\ phase \in {"asking", "waiting"}
                 THEN Append(toClient, "player_id")
                 ELSE toClient
  /\ UNCHANGED <<phase, connected, hasPlayer, tcpCall, progress, moving, toggling>>

SetClientReliableUpdate ==
  /\ TakeCommand("reliable_input")
  /\ tcpCall' = <<Head(toServer)>>
  /\ UNCHANGED <<handshake, progress, moving, toggling>>

QueueClientConnectedEvent ==
  /\ window
  /\ tcpCall = <<Request("register_client")>>
  /\ connected' = TRUE
  /\ tcpCall' = <<>>
  /\ UNCHANGED <<phase, toClient, hasPlayer, toServer, progress, moving, toggling>>

\* Mutant: the newest input comes first.
PushReliableUpdateInFront ==
  /\ window
  /\ \E input \in Toggles :
       /\ tcpCall = <<ReliableCommand(input)>>
       /\ reliableUpdates' = <<input>> \o reliableUpdates
  /\ tcpCall' = <<>>
  /\ UNCHANGED <<handshake, toServer, progress, moving, m_reliableInputs, toggled, pushed, done>>

PushReliableUpdate ==
  /\ window
  /\ \E input \in Toggles :
       /\ tcpCall = <<ReliableCommand(input)>>
       /\ reliableUpdates' = Append(reliableUpdates, input)
  /\ tcpCall' = <<>>
  /\ UNCHANGED <<handshake, toServer, progress, moving, m_reliableInputs, toggled, pushed, done>>

(***************************************************************************)
(* The server's UDP thread: setClientUnreliableUpdate likewise.            *)
(***************************************************************************)

\* Mutant: old inputs are as good as new ones.
AcceptedAlways(datagram) == hasPlayer

\* The lag is the drift.
Accepted(datagram) == hasPlayer /\ datagram.lag < Threshold

\* A datagram may be delivered again.
ReceiveDatagram(datagram) ==
  /\ udpCall = <<>>
  /\ datagram \in datagrams
  /\ datagrams' \in {datagrams, datagrams \ {datagram}}
  /\ udpCall' = IF Accepted(datagram) THEN <<datagram.input>> ELSE <<>>
  /\ UNCHANGED <<handshake, toServer, tcpCall, progress, m_unreliableInput, turns, unreliableUpdates,
                 direction, toggling>>

PushUnreliableUpdate ==
  /\ window
  /\ udpCall # <<>>
  /\ Len(unreliableUpdates) < MaxBatch
  /\ unreliableUpdates' = unreliableUpdates \o udpCall
  /\ udpCall' = <<>>
  /\ UNCHANGED <<handshake, toServer, tcpCall, progress, m_unreliableInput, turns, datagrams, direction,
                 toggling>>

-----------------------------------------------------------------------------
(***************************************************************************)
(* The server's main thread.                                               *)
(***************************************************************************)

\* Of all inputs of a window the last one that names a direction counts.
Steer(inputs) ==
  FoldLeft(LAMBDA d, input : IF input = Nothing THEN d ELSE InputToDirection(input),
           direction, inputs)

\* Mutant: what is toggled never comes back.
ToggleUp(inputs) ==
  [key \in ToggleKeys |->
     FoldLeft(LAMBDA n, input : IF key \in input THEN n + 1 ELSE n, toggled[key], inputs)]

Toggle(inputs) ==
  [key \in ToggleKeys |->
     FoldLeft(LAMBDA n, input : IF key \in input THEN (n + 1) % Period(key) ELSE n,
              toggled[key], inputs)]

\* incrementTick: everything falls behind by one more.
Later(n) == IF n < Threshold THEN n + 1 ELSE n

IncrementTick ==
  /\ lag' = Later(lag)
  /\ datagrams' = {[d EXCEPT !.lag = Later(@)] : d \in datagrams}

\* PlayerController::update takes the inputs, and then the events are handled.
\* Until the first update nobody has a window.
FirstUpdate ==
  /\ serverStatus = "playing"
  /\ window
  /\ window' = FALSE
  /\ direction' = Steer(unreliableUpdates)
  /\ toggled' = Toggle(reliableUpdates)
  /\ done' = done \o reliableUpdates
  /\ unreliableUpdates' = <<>>
  /\ reliableUpdates' = <<>>
  /\ hasPlayer' = (hasPlayer \/ connected)
  /\ connected' = FALSE
  /\ IncrementTick
  /\ UNCHANGED <<phase, toClient, toServer, tcpCall, serverStatus,
                 m_unreliableInput, turns, udpCall, m_reliableInputs, pushed>>

\* A long frame takes more updates, which have no inputs.
FurtherUpdate ==
  /\ serverStatus = "playing"
  /\ ~window
  /\ IncrementTick
  /\ UNCHANGED <<handshake, toServer, tcpCall, window, serverStatus,
                 m_unreliableInput, turns, udpCall, unreliableUpdates, direction, toggling>>

\* The end of a step, which may be the end of the game, and the next window.
PostUpdate ==
  /\ ~window
  /\ window' = TRUE
  /\ \/ UNCHANGED serverStatus
     \/ hasPlayer /\ serverStatus' = "game_over"
  /\ UNCHANGED <<handshake, toServer, tcpCall, lag, moving, toggling>>

\* A step of a game that is over drops the inputs and leaves the events.
DropInputs ==
  /\ serverStatus = "game_over"
  /\ window
  /\ window' = FALSE
  /\ unreliableUpdates' = <<>>
  /\ reliableUpdates' = <<>>
  /\ UNCHANGED <<handshake, toServer, tcpCall, lag, serverStatus,
                 m_unreliableInput, turns, datagrams, udpCall, direction, m_reliableInputs, toggled,
                 pushed, done>>

-----------------------------------------------------------------------------
FetchPlayerId == RequestPlayerId \/ ReceivePlayerId \/ ReceiveTimeout

TcpThread == HandleRegisterClient \/ SendPlayerId \/ SetClientReliableUpdate

MainThread == FirstUpdate \/ PostUpdate \/ DropInputs

InputsNext ==
  \/ RegisterClient \/ ReadRegistrationResponse \/ FetchPlayerId
  \/ StartPlaying \/ CatchUp
  \/ \E input \in Toggles : PushReliableInput(input)
  \/ \E input \in Moves : PushUnreliableInput(input)
  \/ SendReliableInput \/ SendUnreliableInput \/ LoseDatagram
  \/ TcpThread \/ QueueClientConnectedEvent \/ PushReliableUpdate
  \/ \E datagram \in datagrams : ReceiveDatagram(datagram)
  \/ PushUnreliableUpdate
  \/ MainThread \/ FurtherUpdate

InputsSpec == InputsInit /\ [][InputsNext]_inputVars

(***************************************************************************)
(* All threads keep running, and one that waits for the window gets it in  *)
(* the end: it is 16 ms long, and few are waiting.  The network may lose   *)
(* any datagram and be late with any, but not with all of those that say   *)
(* what the player presses now.  Nothing is assumed of the player, nor of  *)
(* the game's end; the client catches up or does not.                      *)
(***************************************************************************)
ReceiveCurrent ==
  \E datagram \in datagrams :
    /\ datagram.input = m_unreliableInput
    /\ datagram.lag < Threshold
    /\ ReceiveDatagram(datagram)

InputsFairness ==
  /\ WF_inputVars(RegisterClient)
  /\ WF_inputVars(ReadRegistrationResponse)
  /\ WF_inputVars(FetchPlayerId)
  /\ WF_inputVars(SendReliableInput)
  /\ WF_inputVars(SendUnreliableInput)
  /\ WF_inputVars(TcpThread)
  /\ SF_inputVars(QueueClientConnectedEvent)
  /\ SF_inputVars(PushReliableUpdate)
  /\ SF_inputVars(ReceiveCurrent)
  /\ SF_inputVars(PushUnreliableUpdate)
  /\ WF_inputVars(MainThread)

FairInputsSpec == InputsSpec /\ InputsFairness

-----------------------------------------------------------------------------
(***************************************************************************)
(* Properties.                                                             *)
(***************************************************************************)

\* setClientReliableUpdate looks the player up without asking whether there is
\* one, and would steer player 0 for a client without; but a client's inputs come
\* after the answer that it has waited for, however many requests that took.
InputsHavePlayer ==
  /\ m_reliableInputs # <<>> => hasPlayer
  /\ \A i \in DOMAIN toServer : toServer[i].type = "reliable_input" => hasPlayer
  /\ \A i \in DOMAIN tcpCall : tcpCall[i].type = "reliable_input" => hasPlayer

Channel ==
  INSTANCE InputChannel WITH
    Commands <- Toggles,
    Keys <- ToggleKeys,
    pressed <- pushed,
    obeyed <- done,
    setting <- toggled,
    status <- serverStatus

\* Over two queues, a connection and a window every toggle counts once and in its
\* turn, and while the game goes on none is left behind.
ImplementsChannel == Channel!ChannelSpec

\* Movement comes through in the end: a player who stays with one input, on a
\* client that keeps up, ends up going where it says, although datagrams get lost
\* and old ones still arrive.
DirectionSettles ==
  \A input \in Moves :
    <>[](/\ phase = "playing"
         /\ serverStatus = "playing"
         /\ m_unreliableInput = input
         /\ lag < Threshold)
    => <>[](direction = InputToDirection(input))

\* A client is told its player, by one of the answers, unless the game ends first:
\* then it asks in vain for ever.
GetsPlayerOrEnds == phase = "connecting" ~> phase \in {"not_started", "playing"} \/ serverStatus = "game_over"

-----------------------------------------------------------------------------
(***************************************************************************)
(* The inductive invariant behind InputsHavePlayer and ImplementsChannel.  *)
(***************************************************************************)
Reliable(command) == command.type = "reliable_input"

\* A client registers once, asks next, and plays last: what is in the connection
\* while it does one of these belongs to that or to what comes before.
HandshakeInOrder ==
  /\ phase = "connecting" => toServer = <<>> /\ toClient = <<>>
  /\ phase \in {"connecting", "registering"} =>
       IF toServer = <<>> THEN Len(toClient) <= 1
       ELSE toServer = <<Request("register_client")>> /\ toClient = <<>>
  /\ phase \notin {"connecting", "registering"} =>
       /\ \A i \in DOMAIN toServer : toServer[i].type # "register_client"
       /\ \A i \in DOMAIN toClient : toClient[i] = "player_id"
  /\ phase # "playing" =>
       /\ m_reliableInputs = <<>>
       /\ \A i \in DOMAIN toServer : ~Reliable(toServer[i])
       /\ \A i \in DOMAIN tcpCall : ~Reliable(tcpCall[i])

\* Who has been told its player has one.
ToldHasPlayer ==
  /\ \A i \in DOMAIN toClient : toClient[i] = "player_id" => hasPlayer
  /\ phase \in {"not_started", "playing"} => hasPlayer

\* How many inputs the game has taken, or will when the window is closed, and how
\* many it would have with the one that waits for the window.
Taken == Len(done) + Len(reliableUpdates)
TakenNext == Taken + IF \E i \in DOMAIN tcpCall : Reliable(tcpCall[i]) THEN 1 ELSE 0

\* All that were pushed are somewhere on their way, in their order: those in the
\* connection come after all requests, and those in the queue come last.
Underway(requests) ==
  LET sent == TakenNext + Len(toServer) - requests
  IN /\ Len(pushed) = sent + Len(m_reliableInputs)
     /\ \A i \in 1 .. requests : ~Reliable(toServer[i])
     /\ \A i \in requests + 1 .. Len(toServer) :
          toServer[i] = ReliableCommand(pushed[TakenNext + i - requests])
     /\ \A i \in DOMAIN m_reliableInputs : m_reliableInputs[i] = pushed[sent + i]

\* So it is until the game is over.
InTransit ==
  serverStatus = "playing" =>
    /\ \E requests \in 0 .. Len(toServer) : Underway(requests)
    /\ \A i \in DOMAIN done : done[i] = pushed[i]
    /\ \A i \in DOMAIN reliableUpdates : reliableUpdates[i] = pushed[Len(done) + i]
    /\ \A i \in DOMAIN tcpCall :
         Reliable(tcpCall[i]) => tcpCall[i] = ReliableCommand(pushed[Taken + 1])

\* Of a toggle counts how often it was made.
Times(key, inputs) == Cardinality({i \in DOMAIN inputs : key \in inputs[i]})

ToggledAsDone == \A key \in ToggleKeys : toggled[key] = Times(key, done) % Period(key)

InputsIInv ==
  /\ InputsTypeOK
  /\ HandshakeInOrder
  /\ ToldHasPlayer
  /\ InTransit
  /\ ToggledAsDone
=============================================================================
