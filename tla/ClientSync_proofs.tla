-------------------------- MODULE ClientSync_proofs --------------------------
(***************************************************************************)
(* Proofs, for every buffer size, threshold, number of ticks and set of    *)
(* players, of the safety properties that MCClientSync checks.             *)
(*                                                                         *)
(* The argument: every state under way is Genuine, that is one the server  *)
(* published before its present tick, or its last one.  A client that      *)
(* plays has a full buffer without the tick 0 of a server that had not     *)
(* started; a full buffer stays full, and lets no tick in that is older    *)
(* than the ones it holds.                                                 *)
(***************************************************************************)
EXTENDS ClientSync, FiniteSetTheorems, TLAPS

Genuine(state) ==
  \/ state = StartCore
  \/ /\ state.status = "playing"
     /\ state.winner = NoWinner
     /\ 0 < state.tick
     /\ \/ state.tick < serverTick
        \/ state.tick = serverTick /\ ~ticked /\ serverCore.status = "playing"
  \/ /\ state.status = "game_over"
     /\ state = serverCore

ServerInv ==
  /\ serverCore.status \in {"playing", "game_over"}
  /\ serverCore.status = "playing" => serverCore.winner = NoWinner
  /\ serverCore.status = "game_over" =>
       serverCore.winner \in Winners /\ serverCore.tick = serverTick /\ ~ticked
  /\ serverCore.status = "game_over" \/ ticked => 0 < serverTick
  /\ Genuine(published)
  /\ \A state \in network : Genuine(state)
  /\ answer <= serverTick

ClientInv ==
  /\ \A t \in DOMAIN buffer : Genuine(buffer[t])
  /\ Genuine(core)
  /\ core.status = "playing" =>
       0 \notin DOMAIN buffer /\ Cardinality(DOMAIN buffer) = BufferSize
  /\ clientPhase \in {"connecting", "registering"} =>
       core.status = "not_started" /\ clientTick = 0
  /\ clientTick <= serverTick
  /\ NeverThePast

SyncInv == SyncTypeOK /\ ServerInv /\ ClientInv /\ BufferIsNewest

-----------------------------------------------------------------------------
(***************************************************************************)
(* Facts about states and buffers.                                         *)
(***************************************************************************)
LEMMA CoreFacts ==
  /\ StartCore \in Cores
  /\ StartCore.tick = 0 /\ StartCore.status = "not_started" /\ StartCore.winner = NoWinner
  /\ \A t \in Ticks, winner \in Winners \cup {NoWinner},
        status \in {"not_started", "playing", "game_over"} :
       /\ Core(t, status, winner) \in Cores
       /\ Core(t, status, winner).tick = t
       /\ Core(t, status, winner).status = status
       /\ Core(t, status, winner).winner = winner
BY SyncAssumption DEF StartCore, Core, Cores, Ticks

\* Of a state with a tick, the status and winner are those of its tick.
LEMMA GenuineFacts ==
  ASSUME SyncTypeOK, ServerInv, NEW state \in Cores, Genuine(state)
  PROVE  /\ state.tick <= serverTick
         /\ state.status = "not_started" <=> state.tick = 0
         /\ state.status # "game_over" => state.winner = NoWinner
         /\ state.status = "game_over" => state = serverCore /\ state.tick = serverTick
BY CoreFacts, SyncAssumption DEF SyncTypeOK, ServerInv, Genuine, Cores, Ticks

\* What the server published stays genuine.
LEMMA GenuineStays ==
  ASSUME SyncTypeOK, ServerInv, [SyncNext]_syncVars, NEW state \in Cores, Genuine(state)
  PROVE  Genuine(state)'
<1>1. CASE ServerUpdate
  BY <1>1, SyncAssumption DEF ServerUpdate, Genuine, SyncTypeOK, ServerInv, Cores, Ticks
<1>2. CASE ServerPostUpdate
  <2>1. ticked /\ serverCore.status = "playing" /\ UNCHANGED serverTick
    BY <1>2 DEF ServerPostUpdate
  <2>2. state = StartCore \/ (state.status = "playing" /\ state.winner = NoWinner
                               /\ 0 < state.tick /\ state.tick < serverTick)
    BY <2>1 DEF Genuine
  <2> QED
    BY <2>1, <2>2 DEF Genuine
<1>3. CASE UNCHANGED server
  BY <1>3 DEF server, Genuine
<1> QED
  BY <1>1, <1>2, <1>3 DEF SyncNext, syncVars, RegisterClient, SendGameState, LoseGameState,
     SendNatPunch, NatRecv, HandleNatPunch, Receive, FinishRegistration, PreUpdate, Update

LEMMA FiniteTicks ==
  ASSUME NEW S \in SUBSET Ticks
  PROVE  IsFiniteSet(S) /\ Cardinality(S) \in Nat
<1>1. IsFiniteSet(Ticks)
  BY FS_Interval, SyncAssumption DEF Ticks
<1>2. IsFiniteSet(S)
  BY <1>1, FS_Subset
<1> QED
  BY <1>2, FS_CardinalityType

\* The buffer after a state has come in: its ticks, and that its states are
\* either the new one or were there before.
LEMMA BufferStep ==
  ASSUME SyncTypeOK, BufferIsNewest, NEW state \in Cores, UpdateGameStateBuffer(state),
         received' = received \cup {state.tick}
  PROVE  /\ DOMAIN buffer' \subseteq received'
         /\ \A t \in DOMAIN buffer' :
              \/ t = state.tick /\ buffer'[t] = state
              \/ t \in DOMAIN buffer /\ buffer'[t] = buffer[t]
         /\ BufferIsNewest'
         /\ Cardinality(DOMAIN buffer) = BufferSize =>
              /\ Cardinality(DOMAIN buffer') = BufferSize
              /\ \A t \in DOMAIN buffer' : \E u \in DOMAIN buffer : u <= t
<1> DEFINE new == state.tick
           held == DOMAIN buffer
           added == With(buffer, state)
<1>1. /\ DOMAIN added = held \cup {new}
      /\ \A t \in DOMAIN added : added[t] = IF t = new THEN state ELSE buffer[t]
  BY DEF With
<1>2. new \in Ticks /\ held \subseteq Ticks /\ received \subseteq Ticks /\ held \subseteq received
  BY DEF SyncTypeOK, Cores
<1>3. /\ IsFiniteSet(held) /\ Cardinality(held) \in Nat
      /\ IsFiniteSet(received) /\ Cardinality(received) \in Nat
      /\ IsFiniteSet(received') /\ Cardinality(received') \in Nat
      /\ IsFiniteSet(DOMAIN added) /\ Cardinality(DOMAIN added) \in Nat
  BY <1>1, <1>2, FiniteTicks
<1>4. /\ Cardinality(DOMAIN added) =
           IF new \in held THEN Cardinality(held) ELSE Cardinality(held) + 1
      /\ Cardinality(received') =
           IF new \in received THEN Cardinality(received) ELSE Cardinality(received) + 1
  BY <1>1, <1>3, FS_AddElement
<1>5. /\ Cardinality(held) <= BufferSize
      /\ Cardinality(held) < BufferSize => held = received
  <2>1. Cardinality(held) < BufferSize => Cardinality(held) = Cardinality(received)
    BY <1>3, SyncAssumption DEF BufferIsNewest
  <2>2. Cardinality(held) = Cardinality(received) => held = received
    BY <1>2, <1>3, FS_Subset
  <2> QED
    BY <1>3, <2>1, <2>2, SyncAssumption DEF BufferIsNewest
<1>6. \A t \in Ticks, u \in Ticks : t \in Nat /\ u \in Nat
  BY SyncAssumption DEF Ticks
<1> HIDE DEF added
<1>7. CASE Cardinality(DOMAIN added) > BufferSize
  <2>1. new \notin held /\ Cardinality(held) = BufferSize
    BY <1>7, <1>3, <1>4, <1>5, SyncAssumption
  <2>2. PICK oldest \in DOMAIN added : /\ IsLeast(oldest, DOMAIN added)
                                      /\ buffer' = Without(added, oldest)
    BY <1>7 DEF UpdateGameStateBuffer, added
  <2>3. /\ DOMAIN buffer' = (held \cup {new}) \ {oldest}
        /\ \A t \in DOMAIN buffer' : buffer'[t] = IF t = new THEN state ELSE buffer[t]
    BY <2>2, <1>1 DEF Without
  <2>4. Cardinality(DOMAIN buffer') = BufferSize
    <3>1. /\ oldest \in held \cup {new} /\ IsFiniteSet(held \cup {new})
          /\ Cardinality(held \cup {new}) = BufferSize + 1
      BY <2>1, <2>2, <1>1, <1>3, <1>4
    <3>2. \A S : IsFiniteSet(S) /\ oldest \in S => Cardinality(S \ {oldest}) = Cardinality(S) - 1
      BY FS_RemoveElement
    <3> QED
      BY <3>1, <3>2, <2>3, SyncAssumption
  <2>5. \A t \in received' \ DOMAIN buffer', u \in DOMAIN buffer' : t < u
    <3> SUFFICES ASSUME NEW t \in received' \ DOMAIN buffer', NEW u \in DOMAIN buffer'
                 PROVE  t < u
      OBVIOUS
    <3>1. oldest <= u /\ oldest # u /\ oldest \in Nat /\ u \in Nat /\ t \in Nat
      BY <2>2, <2>3, <1>1, <1>2, <1>6 DEF IsLeast
    <3>2. t = oldest \/ t \in received \ held
      BY <2>3
    <3>3. CASE t \in received \ held /\ oldest \in held
      BY <3>1, <3>3 DEF BufferIsNewest
    <3>4. CASE t \in received \ held /\ oldest = new
      BY <2>3, <3>4 DEF BufferIsNewest
    <3> QED
      BY <3>1, <3>2, <3>3, <3>4, <2>2, <1>1
  <2>6. Cardinality(received') >= BufferSize
    BY <2>3, <2>4, <1>2, <1>3, FS_Subset
  <2>7. \A t \in DOMAIN buffer' : \E u \in held : u <= t
    <3>1. CASE oldest = new
      BY <2>3, <3>1, <1>2, <1>6
    <3>2. CASE oldest \in held
      BY <2>2, <2>3, <3>2, <1>1 DEF IsLeast
    <3> QED
      BY <2>2, <1>1, <3>1, <3>2
  <2> QED
    BY <2>1, <2>3, <2>4, <2>5, <2>6, <2>7, <1>2, <1>3, SyncAssumption DEF BufferIsNewest
<1>8. CASE ~ (Cardinality(DOMAIN added) > BufferSize)
  <2>1. buffer' = added
    BY <1>8 DEF UpdateGameStateBuffer, added
  <2>2. /\ DOMAIN buffer' = held \cup {new}
        /\ \A t \in DOMAIN buffer' : buffer'[t] = IF t = new THEN state ELSE buffer[t]
    BY <2>1, <1>1
  <2>3. CASE new \in held
    <3>1. DOMAIN buffer' = held /\ received' = received
      BY <2>2, <2>3, <1>2
    <3> QED
      BY <3>1, <2>2, <1>2, <1>6 DEF BufferIsNewest
  <2>4. CASE new \notin held
    <3>1. Cardinality(held) < BufferSize
      BY <1>8, <2>4, <1>3, <1>4, SyncAssumption
    <3>2. held = received /\ DOMAIN buffer' = received'
      BY <3>1, <1>5, <2>2
    <3>3. Cardinality(received') <= BufferSize
      BY <3>1, <3>2, <1>3, <1>4, <2>4, SyncAssumption
    <3> QED
      BY <3>1, <3>2, <3>3, <2>2, <1>3, SyncAssumption DEF BufferIsNewest
  <2> QED
    BY <2>3, <2>4
<1> QED
  BY <1>7, <1>8

-----------------------------------------------------------------------------
(***************************************************************************)
(* The inductive invariant, part by part.                                  *)
(***************************************************************************)
LEMMA InitInv == SyncInit => SyncInv
<1> SUFFICES ASSUME SyncInit PROVE SyncInv
  OBVIOUS
<1>1. DOMAIN buffer = {} /\ received = {} /\ 0 \in Ticks
  BY SyncAssumption DEF SyncInit, Ticks
<1>2. Core(0, "playing", NoWinner) \in Cores
  BY <1>1, CoreFacts
<1>3. SyncTypeOK
  BY <1>1, <1>2, CoreFacts DEF SyncInit, SyncTypeOK
<1>4. ServerInv
  BY <1>1, CoreFacts, SyncAssumption DEF SyncInit, ServerInv, Genuine
<1>5. ClientInv
  BY <1>1, CoreFacts DEF SyncInit, ClientInv, Genuine, NeverThePast
<1>6. BufferIsNewest
  BY <1>1, FS_EmptySet, SyncAssumption DEF BufferIsNewest
<1> QED
  BY <1>3, <1>4, <1>5, <1>6 DEF SyncInv

\* The steps of the server.
LEMMA ServerStepInv ==
  ASSUME SyncInv, [SyncNext]_syncVars
  PROVE  ServerInv'
<1> USE DEF SyncInv
<1>1. \A state \in Cores : Genuine(state) => Genuine(state)'
  BY GenuineStays
<1>2. published \in Cores /\ Genuine(published) /\ \A state \in network : state \in Cores /\ Genuine(state)
  BY DEF SyncTypeOK, ServerInv
<1>3. CASE ServerUpdate
  BY <1>1, <1>2, <1>3, SyncAssumption DEF ServerUpdate, ServerInv, SyncTypeOK, Ticks, client
<1>4. CASE ServerPostUpdate
  <2>1. /\ ticked /\ serverTick \in Ticks /\ 0 < serverTick
        /\ UNCHANGED <<serverTick, network, answer>>
        /\ ~ticked' /\ published' = serverCore'
    BY <1>4 DEF ServerPostUpdate, ServerInv, SyncTypeOK, client
  <2>2. \/ serverCore' = Core(serverTick, "playing", NoWinner)
        \/ \E winner \in Winners : serverCore' = Core(serverTick, "game_over", winner)
    BY <1>4 DEF ServerPostUpdate
  <2>3. CASE serverCore' = Core(serverTick, "playing", NoWinner)
    BY <1>1, <1>2, <2>1, <2>3, CoreFacts DEF ServerInv, Genuine
  <2>4. CASE \E winner \in Winners : serverCore' = Core(serverTick, "game_over", winner)
    BY <1>1, <1>2, <2>1, <2>4, CoreFacts DEF ServerInv, Genuine
  <2> QED
    BY <2>2, <2>3, <2>4
<1>5. CASE RegisterClient
  BY <1>5, SyncAssumption DEF RegisterClient, ServerInv, SyncTypeOK, server, Genuine, Ticks
<1>6. CASE SendGameState
  BY <1>1, <1>2, <1>6 DEF SendGameState, ServerInv, server, client, Genuine
<1>7. CASE LoseGameState
  BY <1>1, <1>2, <1>7 DEF LoseGameState, ServerInv, server, client, Genuine
<1>8. CASE \E state \in network : Receive(state)
  BY <1>1, <1>2, <1>8 DEF Receive, ServerInv, server, client, Genuine
<1>9. CASE UNCHANGED <<server, network, answer>>
  BY <1>9 DEF ServerInv, server, Genuine
<1> QED
  BY <1>3, <1>4, <1>5, <1>6, <1>7, <1>8, <1>9
     DEF SyncNext, syncVars, client, SendNatPunch, NatRecv, HandleNatPunch,
         FinishRegistration, PreUpdate, Update

\* What a playing client's update does to its tick and core.
LEMMA UpdateStep ==
  ASSUME SyncInv, Update
  PROVE  /\ clientTick' \in Ticks /\ clientTick <= clientTick' /\ clientTick' <= serverTick
         /\ \/ core' = core
            \/ \E t \in DOMAIN buffer : core' = buffer[t]
         /\ clientPhase' = "running"
         /\ core'.status # "not_started"
         /\ core'.status = "game_over" => clientTick' = clientTick
<1> USE DEF SyncInv
<1>1. PICK smallest \in DOMAIN buffer, largest \in DOMAIN buffer :
        /\ IsLeast(smallest, DOMAIN buffer)
        /\ IsGreatest(largest, DOMAIN buffer)
        /\ \/ /\ buffer[largest].status = "game_over"
              /\ core' = buffer[largest]
              /\ UNCHANGED <<clientPhase, clientTick>>
           \/ /\ buffer[largest].status # "game_over"
              /\ \/ clientTick < smallest /\ Behind(smallest)
                 \/ smallest <= clientTick /\ Ahead(smallest)
  BY DEF Update
<1>2. /\ clientPhase = "running" /\ core.status = "playing"
      /\ clientTick \in Nat /\ clientTick <= serverTick /\ serverTick \in Nat
      /\ serverTick <= MaxTick
  BY SyncAssumption DEF Update, SyncTypeOK, ClientInv, Ticks
<1>3. \A t \in DOMAIN buffer :
        t \in Nat /\ 0 < t /\ t <= serverTick /\ buffer[t].status # "not_started"
  <2> SUFFICES ASSUME NEW t \in DOMAIN buffer
               PROVE  t \in Nat /\ 0 < t /\ t <= serverTick /\ buffer[t].status # "not_started"
    OBVIOUS
  <2>1. t # 0 /\ t \in Ticks /\ buffer[t] \in Cores /\ buffer[t].tick = t /\ Genuine(buffer[t])
    BY <1>2 DEF SyncTypeOK, ClientInv
  <2> QED
    BY <2>1, GenuineFacts, SyncAssumption DEF Ticks
<1>6. ASSUME buffer[largest].status # "game_over"
      PROVE  \A t \in DOMAIN buffer : buffer[t].status # "game_over"
  <2> SUFFICES ASSUME NEW t \in DOMAIN buffer, buffer[t].status = "game_over"
               PROVE  FALSE
    OBVIOUS
  <2>1. t = serverTick
    BY GenuineFacts DEF SyncTypeOK, ClientInv
  <2>2. t <= largest /\ largest <= serverTick /\ t \in Nat /\ largest \in Nat
    BY <1>1, <1>3 DEF IsGreatest
  <2> QED
    BY <1>2, <1>6, <2>1, <2>2
<1>4. CASE buffer[largest].status # "game_over" /\ clientTick < smallest /\ Behind(smallest)
  <2> DEFINE next == IF smallest - clientTick > BehindThreshold
                     THEN smallest - BehindThreshold
                     ELSE clientTick + 1
  <2>1. next \in Nat /\ clientTick < next /\ next <= smallest
    BY <1>2, <1>3, <1>4, SyncAssumption
  <2>2. core' = buffer[smallest] /\ clientTick' = next /\ UNCHANGED clientPhase
    BY <1>2, <1>3, <1>4, <2>1 DEF Behind, InterpolateGameState
  <2> QED
    BY <1>2, <1>3, <1>4, <1>6, <2>1, <2>2, SyncAssumption DEF Ticks
<1>5. CASE buffer[largest].status # "game_over" /\ smallest <= clientTick /\ Ahead(smallest)
  <2>1. CASE UNCHANGED <<clientPhase, clientTick, core>>
    BY <1>2, <2>1, SyncAssumption DEF Ticks
  <2>2. CASE \E next \in DOMAIN buffer :
               /\ clientTick < next
               /\ InterpolateGameState(TickBefore(clientTick), clientTick, next)
    <3>1. PICK next \in DOMAIN buffer :
            /\ clientTick < next
            /\ InterpolateGameState(TickBefore(clientTick), clientTick, next)
      BY <2>2
    <3>2. /\ ~ (clientTick < TickBefore(clientTick)) /\ ~ (next < clientTick)
      BY <1>2, <1>3, <1>5, <3>1 DEF TickBefore
    <3>3. core' = buffer[next] /\ clientTick' = clientTick /\ UNCHANGED clientPhase
      BY <3>1, <3>2 DEF InterpolateGameState
    <3> QED
      BY <1>2, <1>3, <3>3, SyncAssumption DEF Ticks
  <2> QED
    BY <1>5, <2>1, <2>2 DEF Ahead
<1> QED
  BY <1>1, <1>2, <1>3, <1>4, <1>5, SyncAssumption DEF Ticks

LEMMA TypeStep ==
  ASSUME SyncInv, [SyncNext]_syncVars
  PROVE  SyncTypeOK'
<1> USE DEF SyncInv
<1>1. CASE ServerUpdate
  BY <1>1, SyncAssumption DEF ServerUpdate, SyncTypeOK, client, ports, Ticks
<1>2. CASE ServerPostUpdate
  <2>1. serverCore' \in Cores
    BY <1>2, CoreFacts DEF ServerPostUpdate, SyncTypeOK
  <2> QED
    BY <1>2, <2>1 DEF ServerPostUpdate, SyncTypeOK, client, ports
<1>3. CASE RegisterClient
  BY <1>3 DEF RegisterClient, SyncTypeOK, server
<1>4. CASE SendGameState
  BY <1>4 DEF SendGameState, SyncTypeOK, server, client, ports
<1>5. CASE LoseGameState
  BY <1>5 DEF LoseGameState, SyncTypeOK, server, client, ports
<1>6. CASE \E state \in network : Receive(state)
  <2>1. PICK state \in Cores : Receive(state)
    BY <1>6 DEF SyncTypeOK
  <2>2. /\ UpdateGameStateBuffer(state)
        /\ received' = received \cup {state.tick} /\ state.tick \in Ticks
        /\ network' \in SUBSET Cores
        /\ UNCHANGED <<server, client, ports>>
    BY <2>1 DEF Receive, SyncTypeOK, Cores
  <2>3. /\ DOMAIN buffer' \subseteq received'
        /\ \A t \in DOMAIN buffer' :
             \/ t = state.tick /\ buffer'[t] = state
             \/ t \in DOMAIN buffer /\ buffer'[t] = buffer[t]
    BY <2>2, BufferStep
  <2> QED
    BY <2>2, <2>3 DEF SyncTypeOK, server, client, ports
<1>7. CASE FinishRegistration
  BY <1>7 DEF FinishRegistration, SyncTypeOK, server, ports
<1>8. CASE PreUpdate
  BY <1>8 DEF PreUpdate, SyncTypeOK, server, ports
<1>9. CASE Update
  BY <1>9, UpdateStep DEF Update, SyncTypeOK, server, ports
<1>10. CASE UNCHANGED syncVars
  BY <1>10 DEF syncVars, server, client, ports, SyncTypeOK
<1>11. CASE SendNatPunch \/ NatRecv
  <2>1. /\ clientPort' \in {0, LocalPort, OutsidePort}
        /\ punches' \subseteq {OutsidePort}
        /\ UNCHANGED <<server, network, client, buffer, received>>
    BY <1>11 DEF SendNatPunch, NatRecv, HandleNatPunch, SyncTypeOK
  <2> QED
    BY <2>1 DEF SyncTypeOK, server, client, ports
<1> QED
  BY <1>1, <1>2, <1>3, <1>4, <1>5, <1>6, <1>7, <1>8, <1>9, <1>10, <1>11 DEF SyncNext

\* The buffer and the client's main thread.
LEMMA ClientStepInv ==
  ASSUME SyncInv, [SyncNext]_syncVars
  PROVE  ClientInv' /\ BufferIsNewest'
<1> USE DEF SyncInv
<1>1. \A state \in Cores : Genuine(state) => Genuine(state)'
  BY GenuineStays
<1>2. /\ core \in Cores /\ Genuine(core)
      /\ \A t \in DOMAIN buffer : buffer[t] \in Cores /\ Genuine(buffer[t])
  BY DEF SyncTypeOK, ClientInv
<1>3. Genuine(core)' \/ core' # core
  BY <1>1, <1>2 DEF Genuine
<1>4. ASSUME UNCHANGED buffer
      PROVE  \A t \in DOMAIN buffer' : Genuine(buffer[t])'
  BY <1>1, <1>2, <1>4 DEF Genuine
<1>5. serverTick \in Nat /\ clientTick \in Nat /\ answer \in Nat /\ answer <= serverTick
  BY SyncAssumption DEF SyncTypeOK, ServerInv, Ticks
<1>0. \A t \in DOMAIN buffer : t \in Nat
  <2>1. \A t \in DOMAIN buffer : t \in Ticks
    BY DEF SyncTypeOK
  <2>2. \A t \in Ticks : t \in Nat
    BY SyncAssumption DEF Ticks
  <2> QED
    BY <2>1, <2>2
<1>6. CASE ServerUpdate \/ ServerPostUpdate \/ RegisterClient \/ SendGameState \/ LoseGameState
             \/ SendNatPunch \/ NatRecv
             \/ UNCHANGED syncVars
  <2>1. /\ UNCHANGED <<buffer, received, core, clientTick>>
        /\ clientPhase' = clientPhase \/ clientPhase' = "registering"
        /\ serverTick' = serverTick \/ serverTick' = serverTick + 1
    BY <1>6 DEF ServerUpdate, ServerPostUpdate, RegisterClient, SendGameState, LoseGameState,
       SendNatPunch, NatRecv, HandleNatPunch, syncVars, server, client
  <2>2. clientTick' <= serverTick'
    BY <1>5, <2>1 DEF ClientInv
  <2>3. clientPhase' \in {"connecting", "registering"} =>
          clientPhase \in {"connecting", "registering"}
    BY <1>6 DEF ServerUpdate, ServerPostUpdate, RegisterClient, SendGameState, LoseGameState,
       SendNatPunch, NatRecv, HandleNatPunch, syncVars, server, client
  <2> QED
    BY <1>3, <1>4, <2>1, <2>2, <2>3 DEF ClientInv, BufferIsNewest, NeverThePast
<1>7. CASE \E state \in network : Receive(state)
  <2>1. PICK state \in network : Receive(state)
    BY <1>7
  <2>2. /\ state \in Cores /\ Genuine(state)'
        /\ UpdateGameStateBuffer(state)
        /\ received' = received \cup {state.tick}
        /\ UNCHANGED <<server, client>>
    BY <2>1, <1>1 DEF Receive, SyncTypeOK, ServerInv
  <2>3. /\ \A t \in DOMAIN buffer' :
             \/ t = state.tick /\ buffer'[t] = state
             \/ t \in DOMAIN buffer /\ buffer'[t] = buffer[t]
        /\ BufferIsNewest'
        /\ Cardinality(DOMAIN buffer) = BufferSize =>
             /\ Cardinality(DOMAIN buffer') = BufferSize
             /\ \A t \in DOMAIN buffer' : \E u \in DOMAIN buffer : u <= t
    BY <2>2, BufferStep
  <2>4. \A t \in DOMAIN buffer' : Genuine(buffer[t])'
    BY <1>1, <1>2, <2>2, <2>3 DEF Genuine
  <2>5. core.status = "playing" => 0 \notin DOMAIN buffer'
    <3>1. \A t \in DOMAIN buffer' : t \in Nat
      BY <1>0, <2>2, <2>3, SyncAssumption DEF Cores, Ticks
    <3> QED
      BY <1>0, <2>3, <3>1 DEF ClientInv
  <2> QED
    BY <1>3, <2>2, <2>3, <2>4, <2>5 DEF ClientInv, NeverThePast, server, client
<1>8. CASE FinishRegistration
  BY <1>3, <1>4, <1>5, <1>8
     DEF FinishRegistration, ClientInv, BufferIsNewest, NeverThePast, server
<1>9. CASE PreUpdate
  <2>1. PICK smallest \in DOMAIN buffer :
          IsLeast(smallest, DOMAIN buffer) /\ core' = buffer[smallest]
    BY <1>9 DEF PreUpdate
  <2>2. /\ UNCHANGED <<server, buffer, received, clientTick, clientPhase>>
        /\ Cardinality(DOMAIN buffer) = BufferSize
    BY <1>9 DEF PreUpdate
  <2>3. Genuine(core)'
    BY <1>2, <2>1, <2>2 DEF Genuine, server
  <2>4. core'.status = "playing" => 0 \notin DOMAIN buffer
    <3> SUFFICES ASSUME core'.status = "playing", 0 \in DOMAIN buffer
                 PROVE  FALSE
      OBVIOUS
    <3>1. smallest = 0
      BY <1>0, <2>1 DEF IsLeast
    <3>2. buffer[0].tick = 0 /\ buffer[0] \in Cores /\ Genuine(buffer[0])
      BY <1>2 DEF SyncTypeOK
    <3> QED
      BY <2>1, <3>1, <3>2, GenuineFacts
  <2>5. clientPhase = "running"
    BY <1>9 DEF PreUpdate
  <2> QED
    BY <1>4, <2>2, <2>3, <2>4, <2>5 DEF ClientInv, BufferIsNewest, NeverThePast, server
<1>10. CASE Update
  <2>1. UNCHANGED <<server, buffer, received>>
    BY <1>10 DEF Update
  <2>2. /\ Genuine(core)' /\ clientTick' <= serverTick /\ clientPhase' = "running"
    BY <1>2, <1>10, <2>1, UpdateStep DEF Genuine, server
  <2>3. core.status = "playing"
    BY <1>10 DEF Update
  <2> QED
    BY <1>4, <2>1, <2>2, <2>3 DEF ClientInv, BufferIsNewest, NeverThePast, server
<1> QED
  BY <1>6, <1>7, <1>8, <1>9, <1>10 DEF SyncNext

-----------------------------------------------------------------------------
(***************************************************************************)
(* The theorems.                                                           *)
(***************************************************************************)

\* The invariant behind the others holds of whatever threads and network do.
THEOREM SyncInvariance == SyncSpec => []SyncInv
<1>1. SyncInv /\ [SyncNext]_syncVars => SyncInv'
  BY TypeStep, ServerStepInv, ClientStepInv DEF SyncInv
<1> QED
  BY InitInv, <1>1, PTL DEF SyncSpec

\* The state stays well-typed; in particular each buffered state is filed under
\* its own tick.
THEOREM SyncTypeCorrect == SyncSpec => []SyncTypeOK
<1>1. SyncInv => SyncTypeOK
  BY DEF SyncInv
<1> QED
  BY <1>1, SyncInvariance, PTL

\* interpolateGameState never throws: no client dies of what it receives.
THEOREM NeverInterpolatesToThePast == SyncSpec => []NeverThePast
<1>1. SyncInv => NeverThePast
  BY DEF SyncInv, ClientInv
<1> QED
  BY <1>1, SyncInvariance, PTL

\* The buffer is the newest ticks received, for every buffer size.
THEOREM BufferHoldsNewest == SyncSpec => []BufferIsNewest
<1>1. SyncInv => BufferIsNewest
  BY DEF SyncInv
<1> QED
  BY <1>1, SyncInvariance, PTL

\* The final state cannot be shadowed by an older copy with its tick.
THEOREM EndStaysFinal == SyncSpec => []EndIsFinal
<1>1. ASSUME SyncInv PROVE EndIsFinal
  <2> USE DEF SyncInv
  <2>1. core.status = "game_over" => core = serverCore
    BY <1>1, GenuineFacts DEF SyncTypeOK, ClientInv
  <2>2. ASSUME NEW t \in DOMAIN buffer, t = serverCore.tick, serverCore.status = "game_over"
        PROVE  buffer[t] = serverCore
    <3>1. buffer[t] \in Cores /\ buffer[t].tick = t /\ Genuine(buffer[t])
      BY <1>1 DEF SyncTypeOK, ClientInv
    <3>2. t = serverTick /\ 0 < serverTick /\ serverTick \in Nat
      BY <1>1, <2>2, SyncAssumption DEF ServerInv, SyncTypeOK, Ticks
    <3> QED
      BY <2>2, <3>1, <3>2, CoreFacts DEF Genuine
  <2> QED
    BY <2>1, <2>2 DEF EndIsFinal
<1> QED
  BY <1>1, SyncInvariance, PTL

-----------------------------------------------------------------------------
(***************************************************************************)
(* The refinement of GameStateFeed.                                        *)
(***************************************************************************)
shown == IF core.status = "not_started" THEN Unknown ELSE core.winner

LEMMA FeedInitially ==
  ASSUME SyncInit
  PROVE  Feed!FeedInit
BY SyncAssumption DEF SyncInit, Feed!FeedInit, Core, StartCore

\* Each step of the server, the network and the client is a step of the feed,
\* or changes nothing that the player could see.
LEMMA FeedStep ==
  ASSUME SyncInv, [SyncNext]_syncVars
  PROVE  [Feed!FeedNext]_(Feed!feedVars)
<1> USE DEF SyncInv
<1> DEFINE Visible == <<serverTick, serverCore.winner, clientTick, shown>>
<1>1. serverTick \in Nat /\ clientTick \in Nat /\ answer \in Nat /\ answer <= serverTick
      /\ clientTick <= serverTick
  BY SyncAssumption DEF SyncTypeOK, ServerInv, ClientInv, Ticks
<1>2. UNCHANGED Visible => UNCHANGED Feed!feedVars
  BY DEF Feed!feedVars, shown
<1>3. CASE ServerUpdate
  <2>1. serverCore.winner = NoWinner /\ serverTick' = serverTick + 1
        /\ UNCHANGED <<serverCore, clientTick, core>>
    BY <1>3 DEF ServerUpdate, ServerInv, client
  <2> QED
    BY <2>1 DEF Feed!FeedNext, Feed!Play
<1>4. CASE ServerPostUpdate
  <2>1. serverCore.winner = NoWinner /\ serverTick \in Ticks /\ UNCHANGED <<serverTick, clientTick, core>>
    BY <1>4 DEF ServerPostUpdate, ServerInv, SyncTypeOK, client
  <2>2. \/ serverCore'.winner = NoWinner
        \/ serverCore'.winner \in Winners
    BY <1>4, <2>1, CoreFacts DEF ServerPostUpdate
  <2> QED
    BY <1>2, <2>1, <2>2 DEF Feed!FeedNext, Feed!Win, shown
<1>5. CASE RegisterClient \/ SendGameState \/ LoseGameState
             \/ SendNatPunch \/ NatRecv
             \/ (\E state \in network : Receive(state)) \/ UNCHANGED syncVars
  <2>1. UNCHANGED Visible
    BY <1>5 DEF RegisterClient, SendGameState, LoseGameState, SendNatPunch, NatRecv, HandleNatPunch,
       Receive, syncVars, server, client, shown
  <2> QED
    BY <1>2, <2>1
<1>6. CASE FinishRegistration
  <2>1. /\ core.status = "not_started" /\ clientTick = 0 /\ clientTick' = answer
        /\ UNCHANGED <<server, core>>
    BY <1>6 DEF FinishRegistration, ClientInv
  <2> QED
    BY <1>1, <2>1 DEF server, Feed!FeedNext, Feed!Synchronise
<1>7. CASE PreUpdate
  <2>1. PICK smallest \in DOMAIN buffer :
          IsLeast(smallest, DOMAIN buffer) /\ core' = buffer[smallest]
    BY <1>7 DEF PreUpdate
  <2>2. /\ UNCHANGED <<server, clientTick>> /\ core.status = "not_started"
        /\ Cardinality(DOMAIN buffer) = BufferSize
    BY <1>7 DEF PreUpdate
  <2>3. \A t \in DOMAIN buffer : /\ t \in Nat /\ t <= serverTick
                                 /\ buffer[t].status = "game_over" => t = serverTick
                                 /\ buffer[t].status # "game_over" => buffer[t].winner = NoWinner
    <3> TAKE t \in DOMAIN buffer
    <3>1. t \in Ticks /\ buffer[t] \in Cores /\ buffer[t].tick = t /\ Genuine(buffer[t])
      BY DEF SyncTypeOK, ClientInv
    <3> QED
      BY <3>1, GenuineFacts, SyncAssumption DEF Ticks
  <2>4. core'.status # "game_over"
    <3> SUFFICES ASSUME core'.status = "game_over" PROVE FALSE
      OBVIOUS
    <3>1. \A t \in DOMAIN buffer : t = smallest
      BY <1>1, <2>1, <2>3 DEF IsLeast
    <3>2. DOMAIN buffer = {smallest}
      BY <3>1
    <3>3. Cardinality({smallest}) = 1
      BY FS_Singleton
    <3> QED
      BY <3>2, <3>3, <2>2, SyncAssumption
  <2>5. core'.winner = NoWinner
    BY <2>1, <2>3, <2>4
  <2> QED
    BY <2>2, <2>5 DEF Feed!FeedNext, Feed!StartShowing, Feed!feedVars, server
<1>8. CASE Update
  <2>1. UNCHANGED server /\ core.status = "playing" /\ core.winner = NoWinner
    BY <1>8, GenuineFacts DEF Update, SyncTypeOK, ClientInv
  <2>2. clientTick' \in clientTick .. serverTick
    BY <1>1, <1>8, UpdateStep, SyncAssumption DEF Ticks
  <2>3. core' \in Cores /\ Genuine(core') /\ core'.status # "not_started"
    BY <1>8, UpdateStep DEF SyncTypeOK, ClientInv
  <2>4. CASE core'.status = "game_over"
    <3>1. core' = serverCore /\ clientTick' = clientTick
      BY <1>8, <2>3, <2>4, UpdateStep, GenuineFacts
    <3>2. serverCore.winner \in Winners
      BY <2>4, <3>1 DEF ServerInv
    <3> QED
      BY <2>1, <2>3, <3>1, <3>2, SyncAssumption
         DEF Feed!FeedNext, Feed!ShowResult, server
  <2>5. CASE core'.status # "game_over"
    <3>1. core'.winner = NoWinner
      BY <2>3, <2>5, GenuineFacts
    <3> QED
      BY <2>1, <2>2, <2>3, <3>1 DEF Feed!FeedNext, Feed!Follow, server
  <2> QED
    BY <2>4, <2>5
<1> QED
  BY <1>3, <1>4, <1>5, <1>6, <1>7, <1>8 DEF SyncNext

\* What the player sees is a run of the game as the server plays it: every
\* behaviour of threads and network implements the safety part of the feed.
THEOREM FeedRefinement == SyncSpec => Feed!FeedSafety
<1>1. SyncInit => Feed!FeedInit
  BY FeedInitially
<1>2. SyncInv /\ [SyncNext]_syncVars => [Feed!FeedNext]_(Feed!feedVars)
  BY FeedStep
<1> QED
  BY <1>1, <1>2, SyncInvariance, PTL DEF SyncSpec, Feed!FeedSafety
=============================================================================
