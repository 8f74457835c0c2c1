------------------------- MODULE PlayerInputs_proofs -------------------------
(***************************************************************************)
(* Proofs, for all inputs, any threshold and any bounds, of what           *)
(* MCPlayerInputs checks for a few.                                        *)
(***************************************************************************)
EXTENDS PlayerInputs, FoldTheorems

(***************************************************************************)
(* Arithmetic.                                                             *)
(***************************************************************************)
LEMMA ProductGrows ==
  ASSUME NEW P \in Nat \ {0}, NEW a \in Int, NEW b \in Int, a < b
  PROVE  P * a + P <= P * b
<1> DEFINE e == b - a - 1
<1>1. e \in Nat /\ b = a + 1 + e
  OBVIOUS
<1>2. P * e >= 0
  BY <1>1
<1>3. P * b = P * a + P + P * e
  OBVIOUS
<1> HIDE DEF e
<1>4. P * a \in Int /\ P * e \in Int /\ P * b \in Int
  BY <1>1
<1> QED
  BY <1>2, <1>3, <1>4

LEMMA Remainder ==
  ASSUME NEW P \in Nat \ {0}, NEW q \in Nat, NEW r \in Nat, r < P
  PROVE  (P * q + r) % P = r
<1> DEFINE n == P * q + r
           d == n \div P
           m == n % P
<1>1. n \in Nat
  OBVIOUS
<1>2. d \in Int /\ m \in 0 .. P - 1 /\ n = P * d + m
  BY <1>1
<1>3. P * q \in Int /\ P * d \in Int /\ n = P * q + r
  BY <1>2
<1> HIDE DEF n, d, m
<1>4. ~ (q < d)
  <2> SUFFICES ASSUME q < d
               PROVE  FALSE
    OBVIOUS
  <2>1. P * q + P <= P * d
    BY <1>2, ProductGrows
  <2> QED
    BY <1>2, <1>3, <2>1
<1>5. ~ (d < q)
  <2> SUFFICES ASSUME d < q
               PROVE  FALSE
    OBVIOUS
  <2>1. P * d + P <= P * q
    BY <1>2, ProductGrows
  <2> QED
    BY <1>2, <1>3, <2>1
<1>6. d = q
  BY <1>2, <1>4, <1>5
<1> QED
  BY <1>2, <1>3, <1>6 DEF m, n

LEMMA RemainderType ==
  ASSUME NEW P \in Nat \ {0}, NEW c \in Nat
  PROVE  c % P \in Nat /\ c % P < P
OBVIOUS

\* Counting modulo P is counting.
LEMMA CountsModulo ==
  ASSUME NEW P \in Nat \ {0}, NEW c \in Nat
  PROVE  ((c % P) + 1) % P = (c + 1) % P
<1>1. c % P \in 0 .. P - 1
  OBVIOUS
<1>2. PICK q \in Nat : c = P * q + (c % P)
  <2>1. c \div P \in Nat /\ c = P * (c \div P) + (c % P)
    OBVIOUS
  <2> QED
    BY <2>1
<1>3. CASE (c % P) + 1 < P
  <2>1. ((c % P) + 1) % P = (c % P) + 1
    BY <1>1, <1>3
  <2>2. c + 1 = P * q + ((c % P) + 1)
    BY <1>2
  <2> DEFINE r == (c % P) + 1
  <2>3. r \in Nat /\ r < P
    BY <1>1, <1>3
  <2> HIDE DEF r
  <2>4. (P * q + r) % P = r
    BY <2>3, Remainder
  <2> QED
    BY <2>1, <2>2, <2>4 DEF r
<1>4. CASE (c % P) + 1 = P
  <2>1. ((c % P) + 1) % P = 0
    BY <1>4
  <2>2. c + 1 = P * (q + 1)
    BY <1>2, <1>4
  <2>3. (P * (q + 1)) % P = 0
    OBVIOUS
  <2> QED
    BY <2>1, <2>2, <2>3
<1> QED
  BY <1>1, <1>3, <1>4

-----------------------------------------------------------------------------
(***************************************************************************)
(* What the main thread makes of the inputs of a window.                   *)
(***************************************************************************)
LEMMA SteerDirects ==
  ASSUME NEW inputs \in Seq(Moves \cup {Nothing}), direction \in Directions
  PROVE  Steer(inputs) \in Directions
<1> DEFINE n == Len(inputs)
           F(it) == [s \in SUBSET DOMAIN inputs |->
                       IF s = {} THEN direction
                       ELSE IF inputs[Max(s)] = Nothing THEN it[s \ {Max(s)}]
                            ELSE InputToDirection(inputs[Max(s)])]
           fold == CHOOSE it : it = F(it)
           step == [z \in Directions \X (1 .. n) |->
                      IF inputs[z[2]] = Nothing THEN z[1] ELSE InputToDirection(inputs[z[2]])]
<1>1. Steer(inputs) = fold[DOMAIN inputs]
  BY Zenon DEF Steer, FoldLeft, MapThenFoldSet
<1>2. DOMAIN inputs = 1 .. n /\ n \in Nat
  OBVIOUS
<1>3. step \in [Directions \X (1 .. n) -> Directions]
  BY DEF Directions, InputToDirection
<1>4. PICK it \in [SUBSET (1 .. n) -> Directions] : SeqRecursion(it, n, direction, step)
  <2> HIDE DEF step, n
  <2> QED
    BY <1>2, <1>3, FoldExists
<1>5. it = F(it)
  <2>1. ASSUME NEW s \in SUBSET (1 .. n), s # {}
        PROVE  Max(s) \in 1 .. n /\ it[s \ {Max(s)}] \in Directions
    BY <1>2, <1>4, <2>1, MaxIsLargest
  <2> QED
    BY <1>2, <1>4, <2>1 DEF SeqRecursion
<1>6. fold = F(fold)
  BY <1>5
<1>7. SeqStep(fold, n, Directions, direction, step)
  <2> HIDE DEF fold
  <2>1. fold[{}] = direction
    BY <1>2, <1>6
  <2>2. ASSUME NEW s \in SUBSET (1 .. n), s # {}, fold[s \ {Max(s)}] \in Directions
        PROVE  fold[s] = step[<<fold[s \ {Max(s)}], Max(s)>>]
    <3>1. Max(s) \in 1 .. n
      BY <1>2, <2>2, MaxIsLargest
    <3> QED
      BY <1>2, <1>6, <2>2, <3>1
  <2> QED
    BY <2>1, <2>2 DEF SeqStep
<1>8. PICK v \in [0 .. n -> Directions] : Values(v, fold, n, direction, step)
  <2> HIDE DEF step, n, fold
  <2> QED
    BY <1>2, <1>3, <1>7, FoldValues
<1> HIDE DEF fold
<1> QED
  BY <1>1, <1>2, <1>8 DEF Values

\* One toggle, input by input.
LEMMA ToggleValues ==
  ASSUME NEW inputs \in Seq(Toggles), NEW key \in ToggleKeys, Period(key) \in Nat \ {0},
         toggled[key] \in Nat
  PROVE  \E v \in [0 .. Len(inputs) -> Nat] :
           /\ v[0] = toggled[key]
           /\ \A k \in 1 .. Len(inputs) :
                v[k] = IF key \in inputs[k] THEN (v[k - 1] + 1) % Period(key) ELSE v[k - 1]
           /\ Toggle(inputs)[key] = v[Len(inputs)]
<1> DEFINE n == Len(inputs)
           F(it) == [s \in SUBSET DOMAIN inputs |->
                       IF s = {} THEN toggled[key]
                       ELSE IF key \in inputs[Max(s)] THEN (it[s \ {Max(s)}] + 1) % Period(key)
                            ELSE it[s \ {Max(s)}]]
           fold == CHOOSE it : it = F(it)
           step == [z \in Nat \X (1 .. n) |->
                      IF key \in inputs[z[2]] THEN (z[1] + 1) % Period(key) ELSE z[1]]
<1>1. Toggle(inputs)[key] = fold[DOMAIN inputs]
  BY Zenon DEF Toggle, FoldLeft, MapThenFoldSet
<1>2. DOMAIN inputs = 1 .. n /\ n \in Nat
  OBVIOUS
<1>3. step \in [Nat \X (1 .. n) -> Nat]
  <2>1. \A c \in Nat : (c + 1) % Period(key) \in Nat
    OBVIOUS
  <2> QED
    BY <2>1
<1>4. PICK it \in [SUBSET (1 .. n) -> Nat] : SeqRecursion(it, n, toggled[key], step)
  <2> HIDE DEF step, n
  <2> QED
    BY <1>2, <1>3, FoldExists
<1>5. it = F(it)
  <2>1. ASSUME NEW s \in SUBSET (1 .. n), s # {}
        PROVE  Max(s) \in 1 .. n /\ it[s \ {Max(s)}] \in Nat
    BY <1>2, <1>4, <2>1, MaxIsLargest
  <2> QED
    BY <1>2, <1>4, <2>1 DEF SeqRecursion
<1>6. fold = F(fold)
  BY <1>5
<1>7. SeqStep(fold, n, Nat, toggled[key], step)
  <2> HIDE DEF fold
  <2>1. fold[{}] = toggled[key]
    BY <1>2, <1>6
  <2>2. ASSUME NEW s \in SUBSET (1 .. n), s # {}, fold[s \ {Max(s)}] \in Nat
        PROVE  fold[s] = step[<<fold[s \ {Max(s)}], Max(s)>>]
    <3>1. Max(s) \in 1 .. n
      BY <1>2, <2>2, MaxIsLargest
    <3> QED
      BY <1>2, <1>6, <2>2, <3>1
  <2> QED
    BY <2>1, <2>2 DEF SeqStep
<1>8. PICK v \in [0 .. n -> Nat] : Values(v, fold, n, toggled[key], step)
  <2> HIDE DEF step, n, fold
  <2> QED
    BY <1>2, <1>3, <1>7, FoldValues
<1>9. ASSUME NEW k \in 1 .. n
      PROVE  v[k] = IF key \in inputs[k] THEN (v[k - 1] + 1) % Period(key) ELSE v[k - 1]
  <2>1. v[k - 1] \in Nat
    BY <1>2
  <2> QED
    BY <1>2, <1>8, <2>1 DEF Values
<1> HIDE DEF fold
<1> QED
  BY <1>1, <1>2, <1>8, <1>9 DEF Values

\* Toggle goes on counting where it stopped.
LEMMA ToggleCounts ==
  ASSUME NEW key \in ToggleKeys, Period(key) \in Nat \ {0}, done \in Seq(Toggles),
         toggled[key] = Times(key, done) % Period(key),
         NEW inputs \in Seq(Toggles), NEW all, all = done \o inputs
  PROVE  Toggle(inputs)[key] = Times(key, all) % Period(key)
<1> DEFINE d == Len(done)
           n == Len(inputs)
           Made(k) == {i \in 1 .. d + k : key \in all[i]}
<1>1. /\ d \in Nat /\ n \in Nat /\ DOMAIN done = 1 .. d /\ DOMAIN all = 1 .. d + n
      /\ \A i \in 1 .. d : all[i] = done[i]
      /\ \A k \in 1 .. n : all[d + k] = inputs[k]
  <2>1. all \in Seq(Toggles) /\ Len(all) = d + n
    BY ConcatProperties
  <2>2. \A i \in 1 .. d + n : all[i] = IF i <= d THEN done[i] ELSE inputs[i - d]
    BY ConcatProperties
  <2>3. d \in Nat /\ n \in Nat /\ DOMAIN done = 1 .. d /\ DOMAIN all = 1 .. d + n
    BY <2>1
  <2> HIDE DEF d, n
  <2>4. \A i \in 1 .. d : all[i] = done[i]
    BY <2>2, <2>3
  <2>5. \A k \in 1 .. n : all[d + k] = inputs[k]
    <3> TAKE k \in 1 .. n
    <3>1. d + k \in 1 .. d + n /\ ~ (d + k <= d) /\ (d + k) - d = k
      BY <2>3
    <3> QED
      BY <2>2, <3>1
  <2> QED
    BY <2>3, <2>4, <2>5
<1>2. \A k \in Nat : IsFiniteSet(Made(k)) /\ Cardinality(Made(k)) \in Nat
  <2> TAKE k \in Nat
  <2>1. IsFiniteSet(1 .. d + k)
    BY FS_Interval
  <2>2. Made(k) \in SUBSET (1 .. d + k)
    OBVIOUS
  <2> QED
    <3> HIDE DEF Made
    <3>1. IsFiniteSet(Made(k))
      BY <2>1, <2>2, FS_Subset
    <3> QED
      BY <3>1, FS_CardinalityType
<1>3. Cardinality(Made(0)) = Times(key, done)
  <2>1. 1 .. d + 0 = DOMAIN done
    BY <1>1
  <2>2. Made(0) = {i \in DOMAIN done : key \in done[i]}
    BY <1>1, <2>1
  <2> QED
    BY <2>2 DEF Times
<1>4. Cardinality(Made(n)) = Times(key, all)
  BY <1>1 DEF Times
<1>5. ASSUME NEW k \in Nat, k + 1 <= n
      PROVE  Cardinality(Made(k + 1)) = IF key \in inputs[k + 1] THEN Cardinality(Made(k)) + 1
                                        ELSE Cardinality(Made(k))
  <2> HIDE DEF d, n
  <2>1. k + 1 \in 1 .. n /\ all[d + (k + 1)] = inputs[k + 1]
    <3>1. k + 1 \in 1 .. n
      BY <1>1, <1>5
    <3> QED
      BY <1>1, <3>1
  <2>2. 1 .. d + (k + 1) = (1 .. d + k) \cup {d + (k + 1)} /\ d + (k + 1) \notin 1 .. d + k
    <3>1. d \in Nat
      BY <1>1
    <3> QED
      BY <3>1
  <2>3. CASE key \in inputs[k + 1]
    <3>1. Made(k + 1) = Made(k) \cup {d + (k + 1)} /\ d + (k + 1) \notin Made(k)
      BY <2>1, <2>2, <2>3
    <3>2. IsFiniteSet(Made(k))
      BY <1>2
    <3> HIDE DEF Made
    <3>3. Cardinality(Made(k) \cup {d + (k + 1)}) = Cardinality(Made(k)) + 1
      BY <3>1, <3>2, FS_AddElement
    <3> QED
      BY <2>3, <3>1, <3>3
  <2>4. CASE key \notin inputs[k + 1]
    <3>1. Made(k + 1) = Made(k)
      BY <2>1, <2>2, <2>4
    <3> QED
      BY <2>4, <3>1
  <2> QED
    BY <2>3, <2>4
<1> DEFINE count == [k \in Nat |-> Cardinality(Made(k))]
<1>6. /\ count \in [Nat -> Nat]
      /\ toggled[key] = count[0] % Period(key)
      /\ count[n] = Times(key, all)
      /\ \A k \in Nat : k + 1 <= n =>
           count[k + 1] = IF key \in inputs[k + 1] THEN count[k] + 1 ELSE count[k]
  <2> HIDE DEF Made
  <2>1. n \in Nat /\ \A k \in Nat : count[k] = Cardinality(Made(k)) /\ count[k + 1] = Cardinality(Made(k + 1))
    BY <1>1
  <2> HIDE DEF count
  <2>2. count \in [Nat -> Nat]
    BY <1>2 DEF count
  <2> HIDE DEF n
  <2> QED
    BY <1>3, <1>4, <1>5, <2>1, <2>2
<1> HIDE DEF count
<1>7. toggled[key] \in Nat
  BY <1>6, RemainderType
<1>8. PICK v \in [0 .. n -> Nat] :
        /\ v[0] = toggled[key]
        /\ \A k \in 1 .. n :
             v[k] = IF key \in inputs[k] THEN (v[k - 1] + 1) % Period(key) ELSE v[k - 1]
        /\ Toggle(inputs)[key] = v[n]
  BY <1>7, ToggleValues
<1> DEFINE N == {k \in Nat : k <= n => v[k] = count[k] % Period(key)}
<1>9. 0 \in N
  BY <1>6, <1>8
<1>10. ASSUME NEW k \in Nat, k \in N
       PROVE  k + 1 \in N
  <2> HIDE DEF d, n
  <2> SUFFICES ASSUME k + 1 <= n
               PROVE  v[k + 1] = count[k + 1] % Period(key)
    OBVIOUS
  <2>1. k + 1 \in 1 .. n /\ (k + 1) - 1 = k /\ k <= n
    BY <1>1
  <2>2. v[k] = count[k] % Period(key)
    BY <1>10, <2>1
  <2>3. v[k + 1] = IF key \in inputs[k + 1] THEN (v[k] + 1) % Period(key) ELSE v[k]
    BY <1>8, <2>1
  <2>4. count[k] \in Nat
    BY <1>6
  <2>5. ((count[k] % Period(key)) + 1) % Period(key) = (count[k] + 1) % Period(key)
    BY <2>4, CountsModulo
  <2> QED
    BY <1>6, <2>2, <2>3, <2>5
<1> HIDE DEF N
<1>11. Nat \subseteq N
  BY <1>9, <1>10, NatSetInduction
<1>12. v[n] = count[n] % Period(key)
  <2> HIDE DEF n
  <2> QED
    BY <1>1, <1>11 DEF N
<1> QED
  BY <1>6, <1>8, <1>12

-----------------------------------------------------------------------------
(***************************************************************************)
(* The inductive invariant, action by action.                              *)
(***************************************************************************)
LEMMA RequestFacts ==
  /\ Request("register_client") \in Requests /\ Request("player_id") \in Requests
  /\ Request("register_client").type = "register_client"
  /\ Request("player_id").type = "player_id"
  /\ \A input \in Toggles :
       /\ ReliableCommand(input) \in Requests
       /\ ReliableCommand(input).type = "reliable_input"
       /\ ReliableCommand(input).input = input
  /\ \A r \in Requests :
       /\ r.type \in {"register_client", "player_id", "reliable_input"}
       /\ r.type = "register_client" => r = Request("register_client")
       /\ r.type = "reliable_input" => \E input \in Toggles : r = ReliableCommand(input)
<1>1. /\ Request("register_client").type = "register_client"
      /\ Request("player_id").type = "player_id"
      /\ \A input \in Toggles :
           /\ ReliableCommand(input).type = "reliable_input"
           /\ ReliableCommand(input).input = input
  BY DEF Request, ReliableCommand
<1>2. ASSUME NEW r \in Requests
      PROVE  \/ r = Request("register_client")
             \/ r = Request("player_id")
             \/ \E input \in Toggles : r = ReliableCommand(input)
  BY DEF Requests
<1>3. /\ Request("register_client") \in Requests /\ Request("player_id") \in Requests
      /\ \A input \in Toggles : ReliableCommand(input) \in Requests
  BY DEF Requests
<1> QED
  BY <1>1, <1>2, <1>3

LEMMA PeriodFacts == \A key \in ToggleKeys : Period(key) \in Nat \ {0}
BY InputsAssumption DEF Period

\* Movement leaves everything alone that the invariant is about.
LEMMA MovementInv ==
  ASSUME InputsIInv,
         \/ CatchUp \/ SendUnreliableInput \/ LoseDatagram \/ PushUnreliableUpdate \/ FurtherUpdate
         \/ \E input \in Moves : PushUnreliableInput(input)
         \/ \E datagram \in datagrams : ReceiveDatagram(datagram)
  PROVE  InputsIInv'
<1> USE DEF handshake, progress, moving, toggling
<1>1. UNCHANGED <<handshake, toServer, tcpCall, serverStatus, toggling>>
  BY DEF CatchUp, SendUnreliableInput, LoseDatagram, PushUnreliableUpdate, FurtherUpdate,
         PushUnreliableInput, ReceiveDatagram
<1>2. InputsTypeOK
  BY DEF InputsIInv
<1>3. /\ Threshold \in Nat
      /\ \A n \in 0 .. Threshold : Later(n) \in 0 .. Threshold
  BY InputsAssumption DEF Later
<1>4. /\ lag' \in 0 .. Threshold
      /\ window' \in BOOLEAN /\ direction' \in Directions
      /\ m_unreliableInput' \in Moves \cup {Nothing} /\ turns' \in Nat
      /\ datagrams' \subseteq [input : Moves \cup {Nothing}, lag : 0 .. Threshold]
      /\ udpCall' \in Seq(Moves \cup {Nothing}) /\ Len(udpCall') <= 1
      /\ unreliableUpdates' \in Seq(Moves \cup {Nothing})
  <2>1. CASE CatchUp
    BY <1>2, <1>3, <2>1 DEF CatchUp, InputsTypeOK
  <2>2. CASE SendUnreliableInput
    BY <1>2, <2>2 DEF SendUnreliableInput, UnreliableCommand, InputsTypeOK
  <2>3. CASE LoseDatagram
    BY <1>2, <2>3 DEF LoseDatagram, InputsTypeOK
  <2>4. CASE PushUnreliableUpdate
    BY <1>2, <2>4, ConcatProperties, EmptySeq DEF PushUnreliableUpdate, InputsTypeOK
  <2>5. CASE FurtherUpdate
    <3>1. datagrams' \subseteq [input : Moves \cup {Nothing}, lag : 0 .. Threshold]
      <4>1. datagrams \subseteq [input : Moves \cup {Nothing}, lag : 0 .. Threshold]
        BY <1>2 DEF InputsTypeOK
      <4>2. ASSUME NEW d \in datagrams
            PROVE  [d EXCEPT !.lag = Later(@)] \in [input : Moves \cup {Nothing}, lag : 0 .. Threshold]
        BY <1>3, <4>1
      <4>3. datagrams' = {[d EXCEPT !.lag = Later(@)] : d \in datagrams}
        BY <2>5 DEF FurtherUpdate, IncrementTick
      <4> QED
        BY <4>2, <4>3
    <3>2. lag' \in 0 .. Threshold
      BY <1>2, <1>3, <2>5 DEF FurtherUpdate, IncrementTick, InputsTypeOK
    <3> QED
      BY <1>2, <2>5, <3>1, <3>2 DEF FurtherUpdate, InputsTypeOK
  <2>6. CASE \E input \in Moves : PushUnreliableInput(input)
    BY <1>2, <2>6 DEF PushUnreliableInput, InputsTypeOK
  <2>7. CASE \E datagram \in datagrams : ReceiveDatagram(datagram)
    <3>1. PICK datagram \in datagrams : ReceiveDatagram(datagram)
      BY <2>7
    <3>2. datagram.input \in Moves \cup {Nothing}
      BY <1>2 DEF InputsTypeOK
    <3>3. /\ udpCall' \in Seq(Moves \cup {Nothing}) /\ Len(udpCall') <= 1
          /\ datagrams' \subseteq datagrams
      <4>1. <<datagram.input>> \in Seq(Moves \cup {Nothing}) /\ Len(<<datagram.input>>) = 1
        BY <3>2
      <4>2. <<>> \in Seq(Moves \cup {Nothing}) /\ Len(<<>>) = 0
        OBVIOUS
      <4>3. udpCall' = <<datagram.input>> \/ udpCall' = <<>>
        BY <3>1 DEF ReceiveDatagram
      <4>4. datagrams' \subseteq datagrams
        BY <3>1 DEF ReceiveDatagram
      <4>5. CASE udpCall' = <<datagram.input>>
        BY <4>1, <4>4, <4>5
      <4>6. CASE udpCall' = <<>>
        BY <4>2, <4>4, <4>6
      <4> QED
        BY <4>3, <4>5, <4>6
    <3> QED
      BY <1>2, <3>1, <3>3 DEF ReceiveDatagram, InputsTypeOK
  <2> QED
    BY <2>1, <2>2, <2>3, <2>4, <2>5, <2>6, <2>7
<1>5. InputsTypeOK'
  BY <1>1, <1>2, <1>4 DEF InputsTypeOK
<1>6. HandshakeInOrder' /\ ToldHasPlayer'
  BY <1>1 DEF InputsIInv, HandshakeInOrder, ToldHasPlayer, Reliable
<1>7. InTransit'
  BY <1>1 DEF InputsIInv, InTransit, Underway, Taken, TakenNext, Reliable
<1>8. ToggledAsDone'
  BY <1>1 DEF InputsIInv, ToggledAsDone
<1> QED
  BY <1>5, <1>6, <1>7, <1>8 DEF InputsIInv

LEMMA InputsInitInv == InputsInit => InputsIInv
<1> SUFFICES ASSUME InputsInit
             PROVE  InputsIInv
  OBVIOUS
<1>1. InputsTypeOK
  <2>1. InputToDirection(Nothing) \in Directions
    BY DEF InputToDirection, Directions, Nothing
  <2>2. Threshold \in Nat
    BY InputsAssumption
  <2>3. /\ m_reliableInputs \in Seq(Toggles) /\ toServer \in Seq(Requests)
        /\ toClient \in Seq({"register_client", "player_id"})
        /\ tcpCall \in Seq(Requests) /\ Len(tcpCall) <= 1
        /\ udpCall \in Seq(Moves \cup {Nothing}) /\ Len(udpCall) <= 1
        /\ reliableUpdates \in Seq(Toggles) /\ unreliableUpdates \in Seq(Moves \cup {Nothing})
        /\ pushed \in Seq(Toggles) /\ done \in Seq(Toggles)
    BY DEF InputsInit
  <2>4. /\ toggled \in [ToggleKeys -> Nat]
        /\ \A key \in ToggleKeys : toggled[key] < Period(key)
    <3>1. \A key \in ToggleKeys : 0 < Period(key)
      BY PeriodFacts
    <3> QED
      BY <3>1 DEF InputsInit
  <2>5. /\ phase = "connecting" /\ m_unreliableInput \in Moves \cup {Nothing}
        /\ connected \in BOOLEAN /\ hasPlayer \in BOOLEAN /\ window \in BOOLEAN
    BY DEF InputsInit
  <2>6. lag \in 0 .. Threshold /\ datagrams = {}
    BY <2>2 DEF InputsInit
  <2>7. serverStatus = "playing" /\ direction \in Directions /\ turns \in Nat
    BY <2>1 DEF InputsInit
  <2> QED
    BY <2>3, <2>4, <2>5, <2>6, <2>7 DEF InputsTypeOK
<1>2. HandshakeInOrder /\ ToldHasPlayer
  BY EmptySeq DEF InputsInit, HandshakeInOrder, ToldHasPlayer
<1>3. InTransit
  <2> USE DEF InputsInit
  <2>1. Len(done) = 0 /\ Len(reliableUpdates) = 0 /\ Len(toServer) = 0 /\ Len(pushed) = 0
        /\ Len(m_reliableInputs) = 0
    OBVIOUS
  <2> QED
    BY <2>1 DEF InTransit, Underway, Taken, TakenNext
<1>4. ToggledAsDone
  <2> SUFFICES ASSUME NEW key \in ToggleKeys
               PROVE  toggled[key] = Times(key, done) % Period(key)
    BY DEF ToggledAsDone
  <2>1. {i \in DOMAIN done : key \in done[i]} = {}
    BY DEF InputsInit
  <2>2. Times(key, done) = 0
    BY <2>1, FS_EmptySet DEF Times
  <2>3. toggled[key] = 0 /\ 0 % Period(key) = 0
    BY PeriodFacts DEF InputsInit
  <2> QED
    BY <2>2, <2>3
<1> QED
  BY <1>1, <1>2, <1>3, <1>4 DEF InputsIInv

\* What the call of the TCP thread counts for, before a step and after it.
LEMMA CallFacts ==
  /\ tcpCall = <<>> => TakenNext = Taken
  /\ \A c : tcpCall = <<c>> => TakenNext = Taken + IF Reliable(c) THEN 1 ELSE 0
  /\ tcpCall' = <<>> => TakenNext' = Taken'
  /\ \A c : tcpCall' = <<c>> => TakenNext' = Taken' + IF c.type = "reliable_input" THEN 1 ELSE 0
<1>1. \A c : DOMAIN <<c>> = {1} /\ <<c>>[1] = c
  OBVIOUS
<1>2. ASSUME tcpCall = <<>>
      PROVE  TakenNext = Taken
  <2>1. ~ \E i \in DOMAIN tcpCall : Reliable(tcpCall[i])
    BY <1>2
  <2> QED
    BY <2>1 DEF TakenNext, Taken
<1>3. ASSUME NEW c, tcpCall = <<c>>
      PROVE  TakenNext = Taken + IF Reliable(c) THEN 1 ELSE 0
  <2>1. (\E i \in DOMAIN tcpCall : Reliable(tcpCall[i])) <=> Reliable(c)
    BY <1>1, <1>3
  <2> QED
    BY <2>1 DEF TakenNext, Taken
<1>4. ASSUME tcpCall' = <<>>
      PROVE  TakenNext' = Taken'
  <2>1. ~ \E i \in DOMAIN tcpCall' : Reliable(tcpCall[i])'
    BY <1>4
  <2> QED
    BY <2>1 DEF TakenNext, Taken
<1>5. ASSUME NEW c, tcpCall' = <<c>>
      PROVE  TakenNext' = Taken' + IF c.type = "reliable_input" THEN 1 ELSE 0
  <2>1. (\E i \in DOMAIN tcpCall' : (tcpCall'[i]).type = "reliable_input") <=> c.type = "reliable_input"
    BY <1>1, <1>5
  <2> QED
    BY <2>1 DEF TakenNext, Taken, Reliable
<1> QED
  BY <1>2, <1>3, <1>4, <1>5

LEMMA SameTaken ==
  ASSUME UNCHANGED <<tcpCall, done, reliableUpdates>>
  PROVE  UNCHANGED <<TakenNext, Taken>>
<1>1. UNCHANGED Taken
  BY DEF Taken
<1>2. (\E i \in DOMAIN tcpCall : Reliable(tcpCall[i]))' <=> \E i \in DOMAIN tcpCall : Reliable(tcpCall[i])
  BY DEF Reliable
<1> QED
  BY <1>1, <1>2 DEF TakenNext

\* The lengths are numbers.
LEMMA LengthFacts ==
  ASSUME InputsTypeOK
  PROVE  /\ Taken \in Nat /\ TakenNext \in {Taken, Taken + 1}
         /\ Len(done) \in Nat /\ Len(reliableUpdates) \in Nat /\ Len(toServer) \in Nat
         /\ Len(pushed) \in Nat /\ Len(m_reliableInputs) \in Nat
         /\ DOMAIN toServer = 1 .. Len(toServer) /\ DOMAIN pushed = 1 .. Len(pushed)
         /\ DOMAIN m_reliableInputs = 1 .. Len(m_reliableInputs)
         /\ DOMAIN done = 1 .. Len(done) /\ DOMAIN reliableUpdates = 1 .. Len(reliableUpdates)
         /\ Taken = Len(done) + Len(reliableUpdates)
         /\ (\E i \in DOMAIN tcpCall : Reliable(tcpCall[i])) => TakenNext = Taken + 1
<1>1. /\ done \in Seq(Toggles) /\ reliableUpdates \in Seq(Toggles) /\ toServer \in Seq(Requests)
      /\ pushed \in Seq(Toggles) /\ m_reliableInputs \in Seq(Toggles)
  BY DEF InputsTypeOK
<1>2. /\ Len(done) \in Nat /\ Len(reliableUpdates) \in Nat /\ Len(toServer) \in Nat
      /\ Len(pushed) \in Nat /\ Len(m_reliableInputs) \in Nat
      /\ DOMAIN toServer = 1 .. Len(toServer) /\ DOMAIN pushed = 1 .. Len(pushed)
      /\ DOMAIN m_reliableInputs = 1 .. Len(m_reliableInputs)
      /\ DOMAIN done = 1 .. Len(done) /\ DOMAIN reliableUpdates = 1 .. Len(reliableUpdates)
  BY <1>1
<1>3. Taken \in Nat /\ Taken = Len(done) + Len(reliableUpdates)
  BY <1>2 DEF Taken
<1>4. /\ TakenNext \in {Taken, Taken + 1}
      /\ (\E i \in DOMAIN tcpCall : Reliable(tcpCall[i])) => TakenNext = Taken + 1
  <2> HIDE DEF Taken
  <2>1. CASE \E i \in DOMAIN tcpCall : Reliable(tcpCall[i])
    BY <1>3, <2>1 DEF TakenNext
  <2>2. CASE ~ \E i \in DOMAIN tcpCall : Reliable(tcpCall[i])
    BY <1>3, <2>2 DEF TakenNext
  <2> QED
    BY <2>1, <2>2
<1> QED
  BY <1>2, <1>3, <1>4

\* A client that does not play yet has sent nothing but requests: one more keeps
\* everything in its order.
LEMMA RequestInTransit ==
  ASSUME InputsIInv, phase # "playing", NEW r, ~Reliable(r), r \in Requests,
         toServer' = Append(toServer, r),
         UNCHANGED <<tcpCall, serverStatus, toggling>>
  PROVE  InTransit'
<1> SUFFICES ASSUME serverStatus' = "playing"
             PROVE  InTransit'
  BY DEF InTransit
<1>1. UNCHANGED <<m_reliableInputs, pushed, Taken, TakenNext>> /\ serverStatus = "playing"
  BY DEF toggling, Taken, TakenNext, Reliable
<1>2. InputsTypeOK /\ InTransit /\ HandshakeInOrder
  BY DEF InputsIInv
<1>3. PICK requests : requests \in 0 .. Len(toServer) /\ Underway(requests)
  BY <1>1, <1>2 DEF InTransit
<1>4. m_reliableInputs = <<>> /\ \A i \in DOMAIN toServer : ~Reliable(toServer[i])
  BY <1>2 DEF HandshakeInOrder
<1>5. requests = Len(toServer)
  <2>1. Len(toServer) \in Nat /\ DOMAIN toServer = 1 .. Len(toServer)
    BY <1>2, LengthFacts
  <2>2. ASSUME requests < Len(toServer)
        PROVE  FALSE
    <3>1. Len(toServer) \in requests + 1 .. Len(toServer) /\ Len(toServer) \in DOMAIN toServer
      BY <1>3, <2>1, <2>2
    <3>2. \E c : toServer[Len(toServer)] = ReliableCommand(c)
      BY <1>3, <3>1 DEF Underway
    <3>3. Reliable(toServer[Len(toServer)])
      BY <3>2 DEF Reliable, ReliableCommand
    <3> QED
      BY <1>4, <3>1, <3>3
  <2>3. ~ (requests < Len(toServer))
    BY <2>2
  <2> DEFINE length == Len(toServer)
  <2>4. length \in Nat /\ requests \in 0 .. length /\ ~ (requests < length)
    BY <1>3, <2>1, <2>3
  <2> HIDE DEF length
  <2>5. requests = length
    BY <2>4
  <2> QED
    BY <2>5 DEF length
<1>6. Len(pushed) = TakenNext
  BY <1>2, <1>3, <1>4, <1>5, LengthFacts DEF Underway
<1>7. toServer \in Seq(Requests)
  BY <1>2 DEF InputsTypeOK
<1>8. /\ Len(toServer') = Len(toServer) + 1
      /\ \A i \in 1 .. Len(toServer) + 1 : ~Reliable(toServer[i])'
  BY <1>4, <1>7, AppendElements DEF Reliable
<1>9. PICK n : n = Len(toServer) + 1
  OBVIOUS
<1>10. Underway(n)'
  <2>1. TakenNext \in Nat /\ n \in Nat /\ Len(toServer') = n
    BY <1>2, <1>8, <1>9, LengthFacts
  <2>2. m_reliableInputs' = <<>> /\ TakenNext' = TakenNext
    BY <1>1, <1>4
  <2>3. TakenNext' + Len(toServer') - n = TakenNext
    BY <2>1, <2>2
  <2>4. n + 1 .. Len(toServer') = {}
    BY <2>1
  <2>5. Len(m_reliableInputs') = 0 /\ DOMAIN m_reliableInputs' = {} /\ Len(pushed') = Len(pushed)
    BY <1>1, <2>2
  <2>6. \A i \in 1 .. n : ~Reliable(toServer[i])'
    BY <1>8, <1>9
  <2> QED
    BY <1>6, <2>1, <2>3, <2>4, <2>5, <2>6 DEF Underway
<1>11. \E k \in 0 .. Len(toServer') : Underway(k)'
  <2>1. n \in 0 .. Len(toServer')
    BY <1>2, <1>8, <1>9, LengthFacts
  <2> QED
    BY <1>10, <2>1
<1> QED
  BY <1>1, <1>2, <1>11 DEF InTransit, toggling, Reliable

\* The same with a constant for every length: of the connection, the queue, all that
\* was pushed, what was done and what waits for the update, and how many are taken ...
Sized(requests, l, m, p, d, u, n) ==
  /\ l \in Nat /\ m \in Nat /\ p \in Nat /\ d \in Nat /\ u \in Nat /\ n \in Nat
  /\ n <= d + u + 1 /\ d + u <= n /\ requests \in 0 .. l
  /\ p = n + l - requests + m

\* ... and what is where.
Placed(requests, l, m, p, d, u, n) ==
  /\ l = Len(toServer) /\ m = Len(m_reliableInputs) /\ p = Len(pushed)
  /\ d = Len(done) /\ u = Len(reliableUpdates) /\ n = TakenNext /\ Taken = d + u
  /\ (\E i \in DOMAIN tcpCall : Reliable(tcpCall[i])) => n = d + u + 1
  /\ DOMAIN toServer = 1 .. l /\ DOMAIN m_reliableInputs = 1 .. m /\ DOMAIN pushed = 1 .. p
  /\ DOMAIN done = 1 .. d /\ DOMAIN reliableUpdates = 1 .. u
  /\ \A i \in 1 .. requests : ~Reliable(toServer[i])
  /\ \A i \in requests + 1 .. l : toServer[i] = ReliableCommand(pushed[n + i - requests])
  /\ \A i \in 1 .. m : m_reliableInputs[i] = pushed[n + l - requests + i]
  /\ \A i \in 1 .. d : done[i] = pushed[i]
  /\ \A i \in 1 .. u : reliableUpdates[i] = pushed[d + i]
  /\ \A i \in DOMAIN tcpCall :
       Reliable(tcpCall[i]) => tcpCall[i] = ReliableCommand(pushed[d + u + 1])

LEMMA AllPlaced ==
  ASSUME InputsTypeOK, InTransit, serverStatus = "playing"
  PROVE  \E requests, l, m, p, d, u, n :
            Sized(requests, l, m, p, d, u, n) /\ Placed(requests, l, m, p, d, u, n)
<1>1. PICK requests : requests \in 0 .. Len(toServer) /\ Underway(requests)
  BY DEF InTransit
<1>2. PICK l, m, p, d, u, n : l = Len(toServer) /\ m = Len(m_reliableInputs) /\ p = Len(pushed)
                              /\ d = Len(done) /\ u = Len(reliableUpdates) /\ n = TakenNext
  OBVIOUS
<1>3. Taken \in Nat /\ TakenNext \in {Taken, Taken + 1} /\ Taken = d + u
  BY <1>2, LengthFacts
<1>4. /\ l \in Nat /\ m \in Nat /\ p \in Nat /\ d \in Nat /\ u \in Nat
      /\ (\E i \in DOMAIN tcpCall : Reliable(tcpCall[i])) => n = d + u + 1
      /\ DOMAIN toServer = 1 .. l /\ DOMAIN m_reliableInputs = 1 .. m /\ DOMAIN pushed = 1 .. p
      /\ DOMAIN done = 1 .. d /\ DOMAIN reliableUpdates = 1 .. u
  BY <1>2, <1>3, LengthFacts
<1>5. n \in Nat /\ n <= d + u + 1 /\ d + u <= n /\ requests \in 0 .. l
  BY <1>1, <1>2, <1>3
<1>6. /\ p = n + l - requests + m
      /\ \A i \in 1 .. requests : ~Reliable(toServer[i])
      /\ \A i \in requests + 1 .. l : toServer[i] = ReliableCommand(pushed[n + i - requests])
      /\ \A i \in 1 .. m : m_reliableInputs[i] = pushed[n + l - requests + i]
  BY <1>1, <1>2, <1>4 DEF Underway
<1>7. /\ \A i \in 1 .. d : done[i] = pushed[i]
      /\ \A i \in 1 .. u : reliableUpdates[i] = pushed[d + i]
      /\ \A i \in DOMAIN tcpCall :
           Reliable(tcpCall[i]) => tcpCall[i] = ReliableCommand(pushed[d + u + 1])
  BY <1>2, <1>3, <1>4 DEF InTransit
<1>8. Sized(requests, l, m, p, d, u, n)
  BY <1>4, <1>5, <1>6 DEF Sized
<1>9. Placed(requests, l, m, p, d, u, n)
  BY <1>2, <1>3, <1>4, <1>6, <1>7 DEF Placed
<1> QED
  BY <1>8, <1>9

\* A new input is the last of all.
LEMMA PushInTransit ==
  ASSUME InputsIInv, NEW input \in Toggles, PushReliableInput(input)
  PROVE  InTransit'
<1> SUFFICES ASSUME serverStatus' = "playing"
             PROVE  InTransit'
  BY DEF InTransit
<1>1. /\ UNCHANGED <<toServer, tcpCall, reliableUpdates, done>> /\ serverStatus = "playing"
      /\ m_reliableInputs' = Append(m_reliableInputs, input)
      /\ pushed' = Append(pushed, input)
  BY DEF PushReliableInput, progress
<1>2. InputsTypeOK /\ InTransit
  BY DEF InputsIInv
<1>3. PICK requests, l, m, p, d, u, n :
        Sized(requests, l, m, p, d, u, n) /\ Placed(requests, l, m, p, d, u, n)
  BY <1>1, <1>2, AllPlaced
<1>4. UNCHANGED <<TakenNext, Taken>>
  BY <1>1, SameTaken
<1>5. Len(pushed') = p + 1 /\ pushed'[p + 1] = input /\ \A i \in 1 .. p : pushed'[i] = pushed[i]
  <2>1. pushed \in Seq(Toggles) /\ p = Len(pushed)
    BY <1>2, <1>3 DEF InputsTypeOK, Placed
  <2> QED
    BY <1>1, <2>1, AppendProperties
<1>6. /\ Len(m_reliableInputs') = m + 1 /\ DOMAIN m_reliableInputs' = 1 .. m + 1
      /\ m_reliableInputs'[m + 1] = input
      /\ \A i \in 1 .. m : m_reliableInputs'[i] = m_reliableInputs[i]
  <2>1. m_reliableInputs \in Seq(Toggles) /\ m = Len(m_reliableInputs)
    BY <1>2, <1>3 DEF InputsTypeOK, Placed
  <2> QED
    BY <1>1, <2>1, AppendProperties
<1> USE <1>3 DEF Sized
<1>7. Underway(requests)'
  <2>1. n + l - requests + (m + 1) = p + 1
    OBVIOUS
  <2>2. ASSUME NEW i \in requests + 1 .. l
        PROVE  toServer[i] = ReliableCommand(pushed'[n + i - requests])
    <3>1. n + i - requests \in 1 .. p
      OBVIOUS
    <3> QED
      BY <1>5, <3>1 DEF Placed
  <2>3. ASSUME NEW i \in 1 .. m + 1
        PROVE  m_reliableInputs'[i] = pushed'[n + l - requests + i]
    <3>1. CASE i = m + 1
      BY <1>5, <1>6, <2>1, <3>1
    <3>2. CASE i # m + 1
      <4>1. i \in 1 .. m /\ n + l - requests + i \in 1 .. p
        BY <3>2
      <4> QED
        BY <1>5, <1>6, <4>1 DEF Placed
    <3> QED
      BY <3>1, <3>2
  <2>4. \A i \in requests + 1 .. l : toServer'[i] = ReliableCommand(pushed'[n + i - requests])
    BY <1>1, <2>2 DEF Placed
  <2> QED
    BY <1>1, <1>4, <1>5, <1>6, <2>1, <2>3, <2>4 DEF Placed, Underway, Reliable
<1>8. /\ \A i \in DOMAIN done' : done'[i] = pushed'[i]
      /\ \A i \in DOMAIN reliableUpdates' : reliableUpdates'[i] = pushed'[Len(done') + i]
      /\ \A i \in DOMAIN tcpCall' :
           Reliable(tcpCall'[i]) => tcpCall'[i] = ReliableCommand(pushed'[Taken' + 1])
  <2>1. \A i \in 1 .. d : i \in 1 .. p
    OBVIOUS
  <2>2. \A i \in 1 .. u : d + i \in 1 .. p
    OBVIOUS
  <2>3. (\E i \in DOMAIN tcpCall : Reliable(tcpCall[i])) => d + u + 1 \in 1 .. p
    BY DEF Placed
  <2>4. \A i \in DOMAIN tcpCall :
          Reliable(tcpCall[i]) => tcpCall[i] = ReliableCommand(pushed'[d + u + 1])
    BY <1>5, <2>3 DEF Placed
  <2>5. \A i \in 1 .. u : reliableUpdates[i] = pushed'[d + i]
    BY <1>5, <2>2 DEF Placed
  <2> QED
    BY <1>1, <1>4, <1>5, <2>1, <2>4, <2>5 DEF Placed
<1>9. \E k \in 0 .. Len(toServer') : Underway(k)'
  BY <1>1, <1>7 DEF Placed
<1> QED
  BY <1>8, <1>9 DEF InTransit, Reliable

\* The first of the queue becomes the last in the connection.
LEMMA SendInTransit ==
  ASSUME InputsIInv, SendReliableInput
  PROVE  InTransit'
<1> SUFFICES ASSUME serverStatus' = "playing"
             PROVE  InTransit'
  BY DEF InTransit
<1>1. /\ UNCHANGED <<tcpCall, reliableUpdates, pushed, done>> /\ serverStatus = "playing"
      /\ m_reliableInputs # <<>>
      /\ m_reliableInputs' = Tail(m_reliableInputs)
      /\ toServer' = Append(toServer, ReliableCommand(Head(m_reliableInputs)))
  BY DEF SendReliableInput, progress
<1>2. InputsTypeOK /\ InTransit
  BY DEF InputsIInv
<1>3. PICK requests, l, m, p, d, u, n :
        Sized(requests, l, m, p, d, u, n) /\ Placed(requests, l, m, p, d, u, n)
  BY <1>1, <1>2, AllPlaced
<1>4. UNCHANGED <<TakenNext, Taken>>
  BY <1>1, SameTaken
<1>5. /\ 1 \in 1 .. m /\ Head(m_reliableInputs) = m_reliableInputs[1]
      /\ Len(m_reliableInputs') = m - 1 /\ DOMAIN m_reliableInputs' = 1 .. m - 1
      /\ \A i \in 1 .. m - 1 : i + 1 \in 1 .. m /\ m_reliableInputs'[i] = m_reliableInputs[i + 1]
      /\ ReliableCommand(Head(m_reliableInputs)) \in Requests
  <2>1. m_reliableInputs \in Seq(Toggles) /\ m = Len(m_reliableInputs) /\ m \in Nat
    BY <1>2, <1>3 DEF InputsTypeOK, Placed, Sized
  <2>2. Tail(m_reliableInputs) \in Seq(Toggles) /\ Len(Tail(m_reliableInputs)) = m - 1 /\ m > 0
    BY <1>1, <2>1, HeadTailProperties, EmptySeq
  <2>3. /\ Head(m_reliableInputs) = m_reliableInputs[1] /\ Head(m_reliableInputs) \in Toggles
        /\ \A i \in 1 .. m - 1 : m_reliableInputs'[i] = m_reliableInputs[i + 1]
    BY <1>1, <2>1, HeadTailProperties
  <2>4. DOMAIN Tail(m_reliableInputs) = 1 .. m - 1
    BY <2>2, LenProperties
  <2>5. 1 \in 1 .. m /\ \A i \in 1 .. m - 1 : i + 1 \in 1 .. m
    BY <2>1, <2>2
  <2>6. ReliableCommand(Head(m_reliableInputs)) \in Requests
    BY <2>3, RequestFacts
  <2> QED
    BY <1>1, <2>2, <2>3, <2>4, <2>5, <2>6
<1>6. /\ Len(toServer') = l + 1 /\ toServer'[l + 1] = ReliableCommand(m_reliableInputs[1])
      /\ \A i \in 1 .. l : toServer'[i] = toServer[i]
  <2>1. toServer \in Seq(Requests) /\ l = Len(toServer)
    BY <1>2, <1>3 DEF InputsTypeOK, Placed
  <2> QED
    BY <1>1, <1>5, <2>1, AppendProperties
<1> USE <1>3 DEF Sized
<1>7. Underway(requests)'
  <2>1. p = n + (l + 1) - requests + (m - 1)
    OBVIOUS
  <2>2. ASSUME NEW i \in 1 .. requests
        PROVE  ~Reliable(toServer'[i])
    <3>1. i \in 1 .. l
      OBVIOUS
    <3> QED
      BY <1>6, <3>1 DEF Placed
  <2>3. ASSUME NEW i \in requests + 1 .. l + 1
        PROVE  toServer'[i] = ReliableCommand(pushed[n + i - requests])
    <3>1. CASE i = l + 1
      <4>1. n + (l + 1) - requests = n + l - requests + 1
        OBVIOUS
      <4>2. m_reliableInputs[1] = pushed[n + l - requests + 1]
        BY <1>5 DEF Placed
      <4> QED
        BY <1>6, <3>1, <4>1, <4>2
    <3>2. CASE i # l + 1
      <4>1. i \in 1 .. l /\ i \in requests + 1 .. l
        BY <3>2
      <4> QED
        BY <1>6, <4>1 DEF Placed
    <3> QED
      BY <3>1, <3>2
  <2>4. ASSUME NEW i \in 1 .. m - 1
        PROVE  m_reliableInputs'[i] = pushed[n + (l + 1) - requests + i]
    <3>1. i + 1 \in 1 .. m /\ n + l - requests + (i + 1) = n + (l + 1) - requests + i
      OBVIOUS
    <3> QED
      BY <1>5, <3>1 DEF Placed
  <2> QED
    BY <1>1, <1>4, <1>5, <1>6, <2>1, <2>2, <2>3, <2>4 DEF Placed, Underway, Reliable
<1>8. \E k \in 0 .. Len(toServer') : Underway(k)'
  <2>1. requests \in 0 .. Len(toServer')
    BY <1>6
  <2> QED
    BY <1>7, <2>1
<1> QED
  BY <1>1, <1>2, <1>4, <1>8 DEF InTransit, Reliable

\* The server takes a request from the front: one request less.
LEMMA RequestTaken ==
  ASSUME InputsIInv, NEW type, type # "reliable_input", TakeCommand(type),
         tcpCall' \in {<<>>, <<Head(toServer)>>},
         UNCHANGED <<serverStatus, toggling>>
  PROVE  InTransit'
<1> SUFFICES ASSUME serverStatus' = "playing"
             PROVE  InTransit'
  BY DEF InTransit
<1>1. /\ UNCHANGED <<m_reliableInputs, reliableUpdates, pushed, done>> /\ serverStatus = "playing"
      /\ tcpCall = <<>> /\ toServer # <<>> /\ Head(toServer).type = type
      /\ toServer' = Tail(toServer)
  BY DEF TakeCommand, toggling
<1>2. InputsTypeOK /\ InTransit
  BY DEF InputsIInv
<1>3. PICK requests, l, m, p, d, u, n :
        Sized(requests, l, m, p, d, u, n) /\ Placed(requests, l, m, p, d, u, n)
  BY <1>1, <1>2, AllPlaced
<1>4. UNCHANGED Taken /\ Taken = n /\ TakenNext' = n
  <2>1. UNCHANGED Taken
    BY <1>1 DEF Taken
  <2>2. Taken = n
    BY <1>1, <1>3, CallFacts DEF Placed
  <2>3. CASE tcpCall' = <<>>
    BY <2>1, <2>2, <2>3, CallFacts
  <2>4. CASE tcpCall' = <<Head(toServer)>>
    <3>1. PICK c : c = Head(toServer)
      OBVIOUS
    <3>2. TakenNext' = Taken' + IF c.type = "reliable_input" THEN 1 ELSE 0
      BY <2>4, <3>1, CallFacts
    <3>3. Taken' = n /\ n \in Nat /\ c.type # "reliable_input"
      BY <1>1, <1>3, <2>1, <2>2, <3>1 DEF Sized
    <3> QED
      BY <2>1, <2>2, <3>2, <3>3
  <2> QED
    BY <2>1, <2>2, <2>3, <2>4
<1>5. /\ l > 0 /\ Head(toServer) = toServer[1] /\ Len(toServer') = l - 1
      /\ \A i \in 1 .. l - 1 : toServer'[i] = toServer[i + 1]
  <2>1. toServer \in Seq(Requests) /\ l = Len(toServer) /\ l \in Nat
    BY <1>2, <1>3 DEF InputsTypeOK, Placed, Sized
  <2> QED
    BY <1>1, <2>1, HeadTailProperties, EmptySeq
<1> USE <1>3 DEF Sized
<1>6. requests > 0
  <2> SUFFICES ASSUME requests = 0
               PROVE  FALSE
    OBVIOUS
  <2>1. 1 \in requests + 1 .. l
    BY <1>5
  <2>2. PICK c : toServer[1] = ReliableCommand(c)
    BY <2>1 DEF Placed
  <2> QED
    BY <1>1, <1>5, <2>2 DEF ReliableCommand
<1>7. PICK fewer : fewer = requests - 1
  OBVIOUS
<1>8. Underway(fewer)'
  <2>1. p = n + (l - 1) - fewer + m /\ n + (l - 1) - fewer = n + l - requests
    BY <1>6, <1>7
  <2>2. ASSUME NEW i \in 1 .. fewer
        PROVE  ~Reliable(toServer'[i])
    <3>1. i + 1 \in 1 .. requests /\ i \in 1 .. l - 1
      BY <1>6, <1>7
    <3> QED
      BY <1>5, <3>1 DEF Placed
  <2>3. ASSUME NEW i \in fewer + 1 .. l - 1
        PROVE  toServer'[i] = ReliableCommand(pushed[n + i - fewer])
    <3>1. i + 1 \in requests + 1 .. l /\ i \in 1 .. l - 1 /\ n + (i + 1) - requests = n + i - fewer
      BY <1>6, <1>7
    <3> QED
      BY <1>5, <3>1 DEF Placed
  <2>4. \A i \in 1 .. m : m_reliableInputs[i] = pushed[n + (l - 1) - fewer + i]
    BY <2>1 DEF Placed
  <2> QED
    BY <1>1, <1>4, <1>5, <2>1, <2>2, <2>3, <2>4 DEF Placed, Underway, Reliable
<1>9. \E k \in 0 .. Len(toServer') : Underway(k)'
  <2>1. fewer \in 0 .. Len(toServer')
    BY <1>5, <1>6, <1>7
  <2> QED
    BY <1>8, <2>1
<1>10. \A i \in DOMAIN tcpCall' : ~Reliable(tcpCall'[i])
  <2>1. CASE tcpCall' = <<>>
    BY <2>1
  <2>2. CASE tcpCall' = <<Head(toServer)>>
    BY <1>1, <2>2 DEF Reliable
  <2> QED
    BY <2>1, <2>2
<1> QED
  BY <1>1, <1>2, <1>4, <1>9, <1>10 DEF InTransit, Reliable

\* The server takes an input from the front: there is no request before it.
LEMMA InputTaken ==
  ASSUME InputsIInv, SetClientReliableUpdate
  PROVE  InTransit'
<1> SUFFICES ASSUME serverStatus' = "playing"
             PROVE  InTransit'
  BY DEF InTransit
<1>1. /\ UNCHANGED <<m_reliableInputs, reliableUpdates, pushed, done>> /\ serverStatus = "playing"
      /\ tcpCall = <<>> /\ toServer # <<>> /\ Head(toServer).type = "reliable_input"
      /\ toServer' = Tail(toServer) /\ tcpCall' = <<Head(toServer)>>
  BY DEF SetClientReliableUpdate, TakeCommand, progress, toggling
<1>2. InputsTypeOK /\ InTransit
  BY DEF InputsIInv
<1>3. PICK requests, l, m, p, d, u, n :
        Sized(requests, l, m, p, d, u, n) /\ Placed(requests, l, m, p, d, u, n)
  BY <1>1, <1>2, AllPlaced
<1>4. UNCHANGED Taken /\ Taken = n /\ TakenNext' = n + 1
  <2>1. UNCHANGED Taken
    BY <1>1 DEF Taken
  <2>2. Taken = n
    BY <1>1, <1>3, CallFacts DEF Placed
  <2>3. PICK c : c = Head(toServer)
    OBVIOUS
  <2>4. TakenNext' = Taken' + IF c.type = "reliable_input" THEN 1 ELSE 0
    BY <1>1, <2>3, CallFacts
  <2> QED
    BY <1>1, <2>1, <2>2, <2>3, <2>4
<1>5. /\ l > 0 /\ Head(toServer) = toServer[1] /\ Len(toServer') = l - 1
      /\ \A i \in 1 .. l - 1 : toServer'[i] = toServer[i + 1]
  <2>1. toServer \in Seq(Requests) /\ l = Len(toServer) /\ l \in Nat
    BY <1>2, <1>3 DEF InputsTypeOK, Placed, Sized
  <2> QED
    BY <1>1, <2>1, HeadTailProperties, EmptySeq
<1> USE <1>3 DEF Sized
<1>6. requests = 0
  <2> SUFFICES ASSUME requests > 0
               PROVE  FALSE
    OBVIOUS
  <2>1. 1 \in 1 .. requests
    OBVIOUS
  <2> QED
    BY <1>1, <1>5, <2>1 DEF Reliable, Placed
<1>7. toServer[1] = ReliableCommand(pushed[n + 1])
  <2>1. 1 \in requests + 1 .. l /\ n + 1 - requests = n + 1
    BY <1>5, <1>6
  <2> QED
    BY <2>1 DEF Placed
<1>8. Underway(0)'
  <2>1. p = (n + 1) + (l - 1) - 0 + m /\ (n + 1) + (l - 1) - 0 = n + l - requests
    BY <1>6
  <2>2. ASSUME NEW i \in 0 + 1 .. l - 1
        PROVE  toServer'[i] = ReliableCommand(pushed[(n + 1) + i - 0])
    <3>1. i + 1 \in requests + 1 .. l /\ i \in 1 .. l - 1 /\ n + (i + 1) - requests = (n + 1) + i - 0
      BY <1>6
    <3> QED
      BY <1>5, <3>1 DEF Placed
  <2>3. \A i \in 1 .. m : m_reliableInputs[i] = pushed[(n + 1) + (l - 1) - 0 + i]
    BY <2>1 DEF Placed
  <2>4. 1 .. 0 = {}
    OBVIOUS
  <2> QED
    BY <1>1, <1>4, <1>5, <2>1, <2>2, <2>3, <2>4 DEF Placed, Underway, Reliable
<1>9. \E k \in 0 .. Len(toServer') : Underway(k)'
  <2>1. 0 \in 0 .. Len(toServer')
    BY <1>5
  <2> QED
    BY <1>8, <2>1
<1>10. \A i \in DOMAIN tcpCall' : tcpCall'[i] = ReliableCommand(pushed'[Taken' + 1])
  <2>1. \A i \in DOMAIN tcpCall' : tcpCall'[i] = toServer[1]
    BY <1>1, <1>5
  <2> QED
    BY <1>1, <1>4, <1>7, <2>1
<1> QED
  BY <1>1, <1>2, <1>4, <1>9, <1>10 DEF InTransit, Reliable

\* The input that has waited for the window is the next.
LEMMA UpdateInTransit ==
  ASSUME InputsIInv, PushReliableUpdate
  PROVE  InTransit'
<1> SUFFICES ASSUME serverStatus' = "playing"
             PROVE  InTransit'
  BY DEF InTransit
<1>1. PICK input \in Toggles : /\ tcpCall = <<ReliableCommand(input)>>
                               /\ reliableUpdates' = Append(reliableUpdates, input)
  BY DEF PushReliableUpdate
<1>2. /\ UNCHANGED <<toServer, m_reliableInputs, pushed, done>> /\ serverStatus = "playing"
      /\ tcpCall' = <<>>
  BY DEF PushReliableUpdate, progress
<1>3. InputsTypeOK /\ InTransit
  BY DEF InputsIInv
<1>4. PICK requests, l, m, p, d, u, n :
        Sized(requests, l, m, p, d, u, n) /\ Placed(requests, l, m, p, d, u, n)
  BY <1>2, <1>3, AllPlaced
<1> USE <1>4 DEF Sized
<1>5. /\ Len(reliableUpdates') = u + 1 /\ DOMAIN reliableUpdates' = 1 .. u + 1
      /\ reliableUpdates'[u + 1] = input
      /\ \A i \in 1 .. u : reliableUpdates'[i] = reliableUpdates[i]
  <2>1. reliableUpdates \in Seq(Toggles) /\ u = Len(reliableUpdates)
    BY <1>3 DEF InputsTypeOK, Placed
  <2> QED
    BY <1>1, <2>1, AppendProperties
<1>6. n = d + u + 1 /\ input = pushed[n]
  <2>1. 1 \in DOMAIN tcpCall /\ tcpCall[1] = ReliableCommand(input)
    BY <1>1
  <2>2. Reliable(tcpCall[1])
    BY <2>1 DEF Reliable, ReliableCommand
  <2>3. n = d + u + 1 /\ ReliableCommand(input) = ReliableCommand(pushed[d + u + 1])
    BY <2>1, <2>2 DEF Placed
  <2> QED
    BY <2>3 DEF ReliableCommand
<1>7. Taken' = n /\ TakenNext' = n
  <2>1. Taken' = d + (u + 1)
    BY <1>2, <1>5 DEF Taken, Placed
  <2> QED
    BY <1>2, <1>6, <2>1, CallFacts
<1>8. Underway(requests)'
  BY <1>2, <1>7 DEF Placed, Underway, Reliable
<1>9. \E k \in 0 .. Len(toServer') : Underway(k)'
  BY <1>2, <1>8 DEF Placed
<1>10. ASSUME NEW i \in 1 .. u + 1
       PROVE  reliableUpdates'[i] = pushed[d + i]
  <2>1. CASE i = u + 1
    <3>1. d + (u + 1) = n
      BY <1>6
    <3> QED
      BY <1>5, <1>6, <2>1, <3>1
  <2>2. CASE i # u + 1
    <3>1. i \in 1 .. u
      BY <2>2
    <3> QED
      BY <1>5, <3>1 DEF Placed
  <2> QED
    BY <2>1, <2>2
<1>11. \A i \in DOMAIN reliableUpdates' : reliableUpdates'[i] = pushed'[Len(done') + i]
  BY <1>2, <1>5, <1>10 DEF Placed
<1>12. \A i \in DOMAIN done' : done'[i] = pushed'[i]
  BY <1>2 DEF Placed
<1> QED
  BY <1>2, <1>9, <1>11, <1>12 DEF InTransit

\* What the main thread takes becomes what it has done.
LEMMA DoneInTransit ==
  ASSUME InputsIInv, FirstUpdate
  PROVE  InTransit'
<1> SUFFICES ASSUME serverStatus' = "playing"
             PROVE  InTransit'
  BY DEF InTransit
<1>1. /\ UNCHANGED <<toServer, tcpCall, m_reliableInputs, pushed>> /\ serverStatus = "playing"
      /\ done' = done \o reliableUpdates /\ reliableUpdates' = <<>>
  BY DEF FirstUpdate
<1>2. InputsTypeOK /\ InTransit
  BY DEF InputsIInv
<1>3. PICK requests, l, m, p, d, u, n :
        Sized(requests, l, m, p, d, u, n) /\ Placed(requests, l, m, p, d, u, n)
  BY <1>1, <1>2, AllPlaced
<1> USE <1>3 DEF Sized
<1>4. /\ Len(done') = d + u /\ DOMAIN done' = 1 .. d + u
      /\ \A i \in 1 .. d + u : done'[i] = IF i <= d THEN done[i] ELSE reliableUpdates[i - d]
  <2>1. done \in Seq(Toggles) /\ reliableUpdates \in Seq(Toggles)
        /\ d = Len(done) /\ u = Len(reliableUpdates)
    BY <1>2 DEF InputsTypeOK, Placed
  <2> QED
    BY <1>1, <2>1, ConcatProperties
<1>5. UNCHANGED <<Taken, TakenNext>>
  <2>1. Taken' = d + u + 0
    <3>1. Len(reliableUpdates') = 0
      BY <1>1
    <3> QED
      BY <1>4, <3>1 DEF Taken
  <2>2. UNCHANGED Taken
    BY <2>1 DEF Placed
  <2>3. (\E i \in DOMAIN tcpCall : Reliable(tcpCall[i]))' <=> \E i \in DOMAIN tcpCall : Reliable(tcpCall[i])
    BY <1>1 DEF Reliable
  <2> QED
    BY <2>2, <2>3 DEF TakenNext
<1>6. Underway(requests)'
  BY <1>1, <1>5 DEF Placed, Underway, Reliable
<1>7. \E k \in 0 .. Len(toServer') : Underway(k)'
  BY <1>1, <1>6 DEF Placed
<1>8. ASSUME NEW i \in 1 .. d + u
      PROVE  done'[i] = pushed[i]
  <2>1. CASE i <= d
    <3>1. i \in 1 .. d
      BY <2>1
    <3> QED
      BY <1>4, <2>1, <3>1 DEF Placed
  <2>2. CASE ~ (i <= d)
    <3>1. i - d \in 1 .. u /\ d + (i - d) = i
      BY <2>2
    <3>2. reliableUpdates[i - d] = pushed[d + (i - d)]
      BY <3>1 DEF Placed
    <3> QED
      BY <1>4, <2>2, <3>1, <3>2
  <2> QED
    BY <2>1, <2>2
<1>9. \A i \in DOMAIN tcpCall' :
        Reliable(tcpCall'[i]) => tcpCall'[i] = ReliableCommand(pushed'[Taken' + 1])
  BY <1>1, <1>2, <1>5 DEF InTransit
<1>10. \A i \in DOMAIN done' : done'[i] = pushed'[i]
  BY <1>1, <1>4, <1>8
<1>11. \A i \in DOMAIN reliableUpdates' : reliableUpdates'[i] = pushed'[Len(done') + i]
  BY <1>1
<1> QED
  BY <1>7, <1>9, <1>10, <1>11 DEF InTransit, Reliable

-----------------------------------------------------------------------------
\* A step of the client's main thread before it plays.
LEMMA HandshakeInv ==
  ASSUME InputsIInv,
         RegisterClient \/ ReadRegistrationResponse \/ FetchPlayerId \/ StartPlaying
  PROVE  InputsIInv'
<1> USE DEF handshake, progress, moving, toggling, FetchPlayerId
<1>1. InputsTypeOK /\ HandshakeInOrder /\ ToldHasPlayer /\ InTransit /\ ToggledAsDone
  BY DEF InputsIInv
<1>2. toServer \in Seq(Requests) /\ toClient \in Seq({"register_client", "player_id"})
  BY <1>1 DEF InputsTypeOK
<1>3. UNCHANGED <<tcpCall, window, serverStatus, moving, toggling, connected, hasPlayer>>
  BY DEF RegisterClient, ReadRegistrationResponse, RequestPlayerId, ReceivePlayerId,
         ReceiveTimeout, StartPlaying
<1>4. ToggledAsDone'
  BY <1>1, <1>3 DEF ToggledAsDone
<1>5. CASE RegisterClient
  <2>1. /\ phase = "connecting" /\ phase' = "registering" /\ UNCHANGED <<toClient, lag>>
        /\ toServer' = Append(toServer, Request("register_client"))
    BY <1>5 DEF RegisterClient
  <2>2. toServer = <<>> /\ toClient = <<>>
    BY <1>1, <2>1 DEF HandshakeInOrder
  <2>3. toServer' = <<Request("register_client")>> /\ toServer' \in Seq(Requests)
    BY <1>2, <2>1, <2>2, RequestFacts
  <2>4. InputsTypeOK'
    BY <1>1, <1>3, <2>1, <2>3 DEF InputsTypeOK
  <2>5. InTransit'
    BY <1>3, <2>1, RequestFacts, RequestInTransit DEF Reliable
  <2>6. \A i \in DOMAIN toServer' : ~Reliable(toServer'[i])
    BY <2>3, RequestFacts DEF Reliable
  <2>7. HandshakeInOrder'
    BY <1>1, <1>3, <2>1, <2>2, <2>3, <2>6 DEF HandshakeInOrder, Reliable
  <2>8. ToldHasPlayer'
    BY <1>1, <1>3, <2>1 DEF ToldHasPlayer
  <2> QED
    BY <1>4, <2>4, <2>5, <2>7, <2>8 DEF InputsIInv
<1>6. CASE ReadRegistrationResponse
  <2>1. /\ phase = "registering" /\ phase' = "asking" /\ UNCHANGED toServer
        /\ toClient # <<>> /\ toClient' = Tail(toClient) /\ lag' \in 0 .. Threshold
    BY <1>6 DEF ReadRegistrationResponse
  <2>2. toServer = <<>> /\ Len(toClient) <= 1
    BY <1>1, <2>1 DEF HandshakeInOrder
  <2>3. toClient' = <<>>
    BY <1>2, <2>1, <2>2, EmptySeq, HeadTailProperties
  <2>4. InputsTypeOK'
    BY <1>1, <1>3, <2>1, <2>3 DEF InputsTypeOK
  <2>5. InTransit'
    BY <1>1, <1>3, <2>1 DEF InTransit, Underway, Taken, TakenNext, Reliable
  <2>6. HandshakeInOrder'
    BY <1>1, <1>3, <2>1, <2>2, <2>3 DEF HandshakeInOrder, Reliable
  <2>7. ToldHasPlayer'
    BY <1>1, <1>3, <2>1, <2>3 DEF ToldHasPlayer
  <2> QED
    BY <1>4, <2>4, <2>5, <2>6, <2>7 DEF InputsIInv
<1>7. CASE RequestPlayerId
  <2>1. /\ phase = "asking" /\ phase' = "waiting" /\ UNCHANGED <<toClient, lag>>
        /\ toServer' = Append(toServer, Request("player_id"))
    BY <1>7 DEF RequestPlayerId
  <2>2. /\ toServer' \in Seq(Requests)
        /\ \A i \in DOMAIN toServer' : toServer'[i] = Request("player_id") \/ i \in DOMAIN toServer
        /\ \A i \in DOMAIN toServer : toServer'[i] = toServer[i]
    BY <1>2, <2>1, RequestFacts, AppendElements
  <2>3. InputsTypeOK'
    BY <1>1, <1>3, <2>1, <2>2 DEF InputsTypeOK
  <2>4. InTransit'
    BY <1>3, <2>1, RequestFacts, RequestInTransit DEF Reliable
  <2>5. \A i \in DOMAIN toServer' :
          ~Reliable(toServer'[i]) /\ toServer'[i].type # "register_client"
    BY <1>1, <2>1, <2>2, RequestFacts DEF HandshakeInOrder, Reliable
  <2>6. HandshakeInOrder'
    BY <1>1, <1>3, <2>1, <2>5 DEF HandshakeInOrder, Reliable
  <2>7. ToldHasPlayer'
    BY <1>1, <1>3, <2>1 DEF ToldHasPlayer
  <2> QED
    BY <1>4, <2>3, <2>4, <2>6, <2>7 DEF InputsIInv
<1>8. CASE ReceivePlayerId \/ ReceiveTimeout \/ StartPlaying
  <2>1. /\ phase \in {"waiting", "not_started"}
        /\ phase' \in {"asking", "not_started", "playing"}
        /\ UNCHANGED <<toServer, lag>> /\ toClient' \in {toClient, <<>>}
        /\ phase' \in {"not_started", "playing"} => phase = "not_started" \/ toClient # <<>>
    BY <1>8 DEF ReceivePlayerId, ReceiveTimeout, StartPlaying
  <2>2. InputsTypeOK'
    <3>1. toClient' \in Seq({"register_client", "player_id"})
      BY <1>2, <2>1, EmptySeq
    <3> QED
      BY <1>1, <1>3, <2>1, <3>1 DEF InputsTypeOK
  <2>3. InTransit'
    BY <1>1, <1>3, <2>1 DEF InTransit, Underway, Taken, TakenNext, Reliable
  <2>4. \A i \in DOMAIN toClient' : i \in DOMAIN toClient /\ toClient'[i] = toClient[i]
    BY <2>1
  <2>5. HandshakeInOrder'
    BY <1>1, <1>3, <2>1, <2>4 DEF HandshakeInOrder, Reliable
  <2>6. toClient # <<>> => hasPlayer
    <3>1. toClient # <<>> => 1 \in DOMAIN toClient
      BY <1>2, TailElements
    <3> QED
      BY <1>1, <2>1, <3>1 DEF HandshakeInOrder, ToldHasPlayer
  <2>7. ToldHasPlayer'
    BY <1>1, <1>3, <2>1, <2>4, <2>6 DEF ToldHasPlayer
  <2> QED
    BY <1>4, <2>2, <2>3, <2>5, <2>7 DEF InputsIInv
<1> QED
  BY <1>5, <1>6, <1>7, <1>8

\* An input goes into the queue, or from it into the connection.
LEMMA ReliableInv ==
  ASSUME InputsIInv,
         SendReliableInput \/ \E input \in Toggles : PushReliableInput(input)
  PROVE  InputsIInv'
<1> USE DEF handshake, progress, moving, toggling
<1>1. InputsTypeOK /\ HandshakeInOrder /\ ToldHasPlayer /\ ToggledAsDone
  BY DEF InputsIInv
<1>2. /\ m_reliableInputs \in Seq(Toggles) /\ toServer \in Seq(Requests)
      /\ pushed \in Seq(Toggles)
  BY <1>1 DEF InputsTypeOK
<1>3. UNCHANGED <<handshake, tcpCall, progress, moving, reliableUpdates, toggled, done>>
  BY DEF SendReliableInput, PushReliableInput
<1>4. ToldHasPlayer' /\ ToggledAsDone'
  BY <1>1, <1>3 DEF ToldHasPlayer, ToggledAsDone
<1>5. CASE SendReliableInput
  <2>1. /\ m_reliableInputs # <<>> /\ m_reliableInputs' = Tail(m_reliableInputs) /\ UNCHANGED pushed
        /\ toServer' = Append(toServer, ReliableCommand(Head(m_reliableInputs)))
    BY <1>5 DEF SendReliableInput
  <2>2. /\ m_reliableInputs' \in Seq(Toggles) /\ Head(m_reliableInputs) \in Toggles
    BY <1>2, <2>1, TailElements
  <2>3. PICK c \in Requests : c = ReliableCommand(Head(m_reliableInputs)) /\ c.type = "reliable_input"
    BY <2>2, RequestFacts
  <2>4. /\ toServer' \in Seq(Requests)
        /\ \A i \in DOMAIN toServer' : toServer'[i] = c \/ i \in DOMAIN toServer
        /\ \A i \in DOMAIN toServer : toServer'[i] = toServer[i]
    BY <1>2, <2>1, <2>3, AppendElements
  <2>5. InputsTypeOK'
    BY <1>1, <1>3, <2>1, <2>2, <2>4 DEF InputsTypeOK
  <2>6. phase = "playing"
    BY <1>1, <2>1 DEF HandshakeInOrder
  <2>7. HandshakeInOrder'
    BY <1>1, <1>3, <2>3, <2>4, <2>6 DEF HandshakeInOrder, Reliable
  <2>8. InTransit'
    BY <1>5, SendInTransit
  <2> QED
    BY <1>4, <2>5, <2>7, <2>8 DEF InputsIInv
<1>6. ASSUME NEW input \in Toggles, PushReliableInput(input)
      PROVE  InputsIInv'
  <2>1. /\ phase = "playing" /\ UNCHANGED toServer
        /\ m_reliableInputs' = Append(m_reliableInputs, input)
        /\ pushed' = Append(pushed, input)
    BY <1>6 DEF PushReliableInput
  <2>2. m_reliableInputs' \in Seq(Toggles) /\ pushed' \in Seq(Toggles)
    BY <1>2, <2>1, AppendElements
  <2>3. InputsTypeOK'
    BY <1>1, <1>3, <2>1, <2>2 DEF InputsTypeOK
  <2>4. HandshakeInOrder'
    BY <1>1, <1>3, <2>1 DEF HandshakeInOrder, Reliable
  <2>5. InTransit'
    BY <1>6, PushInTransit
  <2> QED
    BY <1>4, <2>3, <2>4, <2>5 DEF InputsIInv
<1> QED
  BY <1>5, <1>6

\* The server's TCP thread reads a command.
LEMMA TcpInv ==
  ASSUME InputsIInv, TcpThread
  PROVE  InputsIInv'
<1> USE DEF handshake, progress, moving, toggling, TcpThread
<1>1. InputsTypeOK /\ HandshakeInOrder /\ ToldHasPlayer /\ ToggledAsDone
  BY DEF InputsIInv
<1>2. /\ toServer \in Seq(Requests)
      /\ toClient \in Seq({"register_client", "player_id"})
  BY <1>1 DEF InputsTypeOK
<1>3. /\ UNCHANGED <<phase, connected, hasPlayer, progress, moving, toggling>>
      /\ toServer # <<>> /\ tcpCall = <<>> /\ toServer' = Tail(toServer)
  BY DEF HandleRegisterClient, SendPlayerId, SetClientReliableUpdate, TakeCommand
<1>4. PICK c \in Requests : c = Head(toServer)
  BY <1>2, <1>3, TailElements
<1>5. /\ 1 \in DOMAIN toServer /\ toServer[1] = c /\ toServer' \in Seq(Requests)
      /\ \A i \in DOMAIN toServer' : i + 1 \in DOMAIN toServer /\ toServer'[i] = toServer[i + 1]
  BY <1>2, <1>3, <1>4, TailElements
<1>6. <<c>> \in Seq(Requests) /\ Len(<<c>>) = 1 /\ DOMAIN <<c>> = {1} /\ <<c>>[1] = c
  BY <1>4
<1>7. ToggledAsDone'
  BY <1>1, <1>3 DEF ToggledAsDone
<1>8. CASE HandleRegisterClient
  <2>1. /\ c.type = "register_client" /\ tcpCall' = <<c>>
        /\ toClient' = Append(toClient, "register_client")
    BY <1>4, <1>8 DEF HandleRegisterClient, TakeCommand
  <2>2. /\ phase = "registering" /\ toServer = <<Request("register_client")>> /\ toClient = <<>>
    BY <1>1, <1>3, <1>5, <2>1 DEF HandshakeInOrder, InputsTypeOK
  <2>3. /\ toClient' = <<"register_client">> /\ toServer' = <<>>
    BY <1>3, <2>1, <2>2
  <2>4. InputsTypeOK'
    <3>1. toClient' \in Seq({"register_client", "player_id"})
      BY <2>3
    <3> QED
      BY <1>1, <1>3, <1>5, <1>6, <2>1, <3>1 DEF InputsTypeOK
  <2>5. ~Reliable(c)
    BY <2>1 DEF Reliable
  <2>6. HandshakeInOrder'
    BY <1>1, <1>3, <1>6, <2>1, <2>2, <2>3, <2>5 DEF HandshakeInOrder, Reliable
  <2>7. ToldHasPlayer'
    BY <1>1, <1>3, <2>2, <2>3 DEF ToldHasPlayer
  <2>8. InTransit'
    BY <1>3, <1>4, <1>8, <2>1, RequestTaken DEF HandleRegisterClient
  <2> QED
    BY <1>7, <2>4, <2>6, <2>7, <2>8 DEF InputsIInv
<1>9. CASE SendPlayerId
  <2>1. /\ c.type = "player_id" /\ UNCHANGED tcpCall
        /\ \/ UNCHANGED toClient
           \/ /\ toClient' = Append(toClient, "player_id")
              /\ hasPlayer /\ phase \in {"asking", "waiting"}
    BY <1>4, <1>9 DEF SendPlayerId, TakeCommand
  <2>2. phase \notin {"connecting", "registering"}
    BY <1>1, <1>3, <1>4, <1>5, <2>1, RequestFacts DEF HandshakeInOrder
  <2>3. /\ toClient' \in Seq({"register_client", "player_id"})
        /\ \A i \in DOMAIN toClient' :
             \/ i \in DOMAIN toClient /\ toClient'[i] = toClient[i]
             \/ toClient'[i] = "player_id" /\ hasPlayer
    <3>1. CASE UNCHANGED toClient
      <4>1. toClient' = toClient
        BY <3>1
      <4>2. \A i \in DOMAIN toClient' : i \in DOMAIN toClient /\ toClient'[i] = toClient[i]
        BY <4>1
      <4>3. toClient' \in Seq({"register_client", "player_id"})
        BY <1>2, <4>1
      <4> QED
        BY <4>2, <4>3
    <3>2. CASE toClient' = Append(toClient, "player_id") /\ hasPlayer
      <4>1. "player_id" \in {"register_client", "player_id"}
        OBVIOUS
      <4> QED
        BY <1>2, <3>2, <4>1, AppendElements
    <3> QED
      BY <2>1, <3>1, <3>2
  <2>4. InputsTypeOK'
    BY <1>1, <1>3, <1>5, <2>1, <2>3 DEF InputsTypeOK
  <2>5. HandshakeInOrder'
    BY <1>1, <1>3, <1>5, <2>1, <2>2, <2>3 DEF HandshakeInOrder, Reliable
  <2>6. ToldHasPlayer'
    BY <1>1, <1>3, <2>3 DEF ToldHasPlayer
  <2>7. InTransit'
    BY <1>3, <1>9, <2>1, RequestTaken DEF SendPlayerId
  <2> QED
    BY <1>7, <2>4, <2>5, <2>6, <2>7 DEF InputsIInv
<1>10. CASE SetClientReliableUpdate
  <2>1. c.type = "reliable_input" /\ tcpCall' = <<c>> /\ UNCHANGED toClient
    BY <1>4, <1>10 DEF SetClientReliableUpdate, TakeCommand
  <2>2. phase = "playing"
    BY <1>1, <1>5, <2>1 DEF HandshakeInOrder, Reliable
  <2>3. InputsTypeOK'
    BY <1>1, <1>3, <1>5, <1>6, <2>1 DEF InputsTypeOK
  <2>4. HandshakeInOrder'
    BY <1>1, <1>3, <1>5, <2>1, <2>2 DEF HandshakeInOrder, Reliable
  <2>5. ToldHasPlayer'
    BY <1>1, <1>3, <2>1 DEF ToldHasPlayer
  <2>6. InTransit'
    BY <1>10, InputTaken
  <2> QED
    BY <1>7, <2>3, <2>4, <2>5, <2>6 DEF InputsIInv
<1> QED
  BY <1>8, <1>9, <1>10

\* The TCP thread gets the window.
LEMMA WindowInv ==
  ASSUME InputsIInv, QueueClientConnectedEvent \/ PushReliableUpdate
  PROVE  InputsIInv'
<1> USE DEF handshake, progress, moving, toggling
<1>1. InputsTypeOK /\ HandshakeInOrder /\ ToldHasPlayer /\ InTransit /\ ToggledAsDone
  BY DEF InputsIInv
<1>2. /\ UNCHANGED <<phase, toClient, hasPlayer, toServer, progress, moving, m_reliableInputs,
                     toggled, pushed, done>>
      /\ tcpCall' = <<>>
  BY DEF QueueClientConnectedEvent, PushReliableUpdate
<1>3. tcpCall' \in Seq(Requests) /\ Len(tcpCall') <= 1 /\ DOMAIN tcpCall' = {}
  BY <1>2
<1>4. HandshakeInOrder' /\ ToldHasPlayer' /\ ToggledAsDone'
  BY <1>1, <1>2, <1>3 DEF HandshakeInOrder, ToldHasPlayer, ToggledAsDone, Reliable
<1>5. CASE QueueClientConnectedEvent
  <2>1. /\ UNCHANGED reliableUpdates /\ connected' = TRUE
        /\ tcpCall = <<Request("register_client")>>
    BY <1>5 DEF QueueClientConnectedEvent
  <2>2. InputsTypeOK'
    BY <1>1, <1>2, <1>3, <2>1 DEF InputsTypeOK
  <2>3. UNCHANGED <<Taken, TakenNext>>
    <3>1. UNCHANGED Taken
      BY <1>2, <2>1 DEF Taken
    <3>2. PICK c : c = Request("register_client") /\ ~Reliable(c)
      BY RequestFacts DEF Reliable
    <3>3. TakenNext = Taken + 0 /\ TakenNext' = Taken'
      BY <1>2, <2>1, <3>2, CallFacts
    <3>4. Taken \in Nat
      BY <1>1, LengthFacts
    <3> QED
      BY <3>1, <3>3, <3>4
  <2>4. InTransit'
    BY <1>1, <1>2, <1>3, <2>1, <2>3 DEF InTransit, Underway, Reliable
  <2> QED
    BY <1>4, <2>2, <2>4 DEF InputsIInv
<1>6. CASE PushReliableUpdate
  <2>1. reliableUpdates' \in Seq(Toggles) /\ UNCHANGED connected
    <3>1. PICK input \in Toggles : reliableUpdates' = Append(reliableUpdates, input)
      BY <1>6 DEF PushReliableUpdate
    <3>2. reliableUpdates \in Seq(Toggles)
      BY <1>1 DEF InputsTypeOK
    <3> QED
      BY <1>6, <3>1, <3>2, AppendElements DEF PushReliableUpdate
  <2>2. InputsTypeOK'
    BY <1>1, <1>2, <1>3, <2>1 DEF InputsTypeOK
  <2>3. InTransit'
    BY <1>6, UpdateInTransit
  <2> QED
    BY <1>4, <2>2, <2>3 DEF InputsIInv
<1> QED
  BY <1>5, <1>6

\* What the first update makes of the toggles.
LEMMA ToggledNext ==
  ASSUME InputsIInv, FirstUpdate
  PROVE  /\ ToggledAsDone' /\ done' \in Seq(Toggles)
         /\ toggled' \in [ToggleKeys -> Nat]
         /\ \A key \in ToggleKeys : toggled'[key] < Period(key)
<1>1. /\ done \in Seq(Toggles) /\ reliableUpdates \in Seq(Toggles) /\ ToggledAsDone
  BY DEF InputsIInv, InputsTypeOK
<1>2. done' = done \o reliableUpdates /\ toggled' = Toggle(reliableUpdates)
  BY DEF FirstUpdate
<1>3. done' \in Seq(Toggles)
  BY <1>1, <1>2, ConcatProperties
<1>4. PICK all \in Seq(Toggles) : all = done'
  BY <1>3
<1>5. ASSUME NEW key \in ToggleKeys
      PROVE  /\ toggled'[key] = Times(key, all) % Period(key)
             /\ toggled'[key] \in Nat /\ toggled'[key] < Period(key)
  <2>1. toggled[key] = Times(key, done) % Period(key)
    BY <1>1 DEF ToggledAsDone
  <2>2. Period(key) \in Nat \ {0}
    BY PeriodFacts
  <2>3. all = done \o reliableUpdates /\ done \in Seq(Toggles) /\ reliableUpdates \in Seq(Toggles)
    BY <1>1, <1>2, <1>4
  <2>4. Toggle(reliableUpdates)[key] = Times(key, all) % Period(key)
    BY <2>1, <2>2, <2>3, ToggleCounts
  <2>5. Times(key, all) \in Nat
    <3>1. IsFiniteSet(1 .. Len(all)) /\ DOMAIN all = 1 .. Len(all)
      BY FS_Interval
    <3> QED
      BY <3>1, FS_Subset, FS_CardinalityType DEF Times
  <2> QED
    BY <1>2, <2>2, <2>4, <2>5, RemainderType
<1>6. toggled' = [key \in ToggleKeys |-> toggled'[key]]
  BY <1>2 DEF Toggle
<1>7. ToggledAsDone'
  BY <1>4, <1>5 DEF ToggledAsDone
<1> QED
  BY <1>3, <1>5, <1>6, <1>7

\* The server's main thread.
LEMMA MainInv ==
  ASSUME InputsIInv, MainThread
  PROVE  InputsIInv'
<1> USE DEF handshake, progress, moving, toggling
<1>1. InputsTypeOK /\ HandshakeInOrder /\ ToldHasPlayer /\ InTransit /\ ToggledAsDone
  BY DEF InputsIInv
<1>2. /\ UNCHANGED <<phase, toClient, toServer, tcpCall, m_unreliableInput, turns, udpCall,
                     m_reliableInputs, pushed>>
      /\ hasPlayer => hasPlayer'
  <2>1. CASE FirstUpdate
    BY <2>1 DEF FirstUpdate
  <2>2. CASE PostUpdate
    BY <2>2 DEF PostUpdate
  <2>3. CASE DropInputs
    BY <2>3 DEF DropInputs
  <2> QED
    BY <2>1, <2>2, <2>3 DEF MainThread
<1>3. HandshakeInOrder'
  BY <1>1, <1>2 DEF HandshakeInOrder, Reliable
<1>4. ToldHasPlayer'
  BY <1>1, <1>2 DEF ToldHasPlayer
<1>5. CASE FirstUpdate
  <2>1. ToggledAsDone' /\ done' \in Seq(Toggles) /\ toggled' \in [ToggleKeys -> Nat]
        /\ \A key \in ToggleKeys : toggled'[key] < Period(key)
    BY <1>5, ToggledNext
  <2>2. direction' \in Directions
    BY <1>1, <1>5, SteerDirects DEF FirstUpdate, InputsTypeOK
  <2>3. lag' \in 0 .. Threshold
        /\ datagrams' \subseteq [input : Moves \cup {Nothing}, lag : 0 .. Threshold]
    <3>1. \A k \in 0 .. Threshold : Later(k) \in 0 .. Threshold
      BY InputsAssumption DEF Later
    <3>2. lag' = Later(lag) /\ datagrams' = {[d EXCEPT !.lag = Later(@)] : d \in datagrams}
      BY <1>5 DEF FirstUpdate, IncrementTick
    <3>3. datagrams \subseteq [input : Moves \cup {Nothing}, lag : 0 .. Threshold]
          /\ lag \in 0 .. Threshold
      BY <1>1 DEF InputsTypeOK
    <3>4. ASSUME NEW d \in datagrams
          PROVE  [d EXCEPT !.lag = Later(@)] \in [input : Moves \cup {Nothing}, lag : 0 .. Threshold]
      BY <3>1, <3>3
    <3> QED
      BY <3>1, <3>2, <3>3, <3>4
  <2>4. /\ reliableUpdates' \in Seq(Toggles) /\ unreliableUpdates' \in Seq(Moves \cup {Nothing})
        /\ UNCHANGED serverStatus
    BY <1>5 DEF FirstUpdate
  <2>5. window' \in BOOLEAN /\ hasPlayer' \in BOOLEAN /\ connected' \in BOOLEAN
    BY <1>5 DEF FirstUpdate
  <2>6. InputsTypeOK'
    BY <1>1, <1>2, <2>1, <2>2, <2>3, <2>4, <2>5 DEF InputsTypeOK
  <2>7. InTransit'
    BY <1>5, DoneInTransit
  <2> QED
    BY <1>3, <1>4, <2>1, <2>6, <2>7 DEF InputsIInv
<1>6. CASE PostUpdate
  <2>1. InputsTypeOK'
    BY <1>1, <1>6 DEF PostUpdate, InputsTypeOK
  <2>2. ToggledAsDone'
    BY <1>1, <1>6 DEF PostUpdate, ToggledAsDone
  <2>3. InTransit'
    <3>1. UNCHANGED serverStatus \/ serverStatus' = "game_over"
      BY <1>6 DEF PostUpdate
    <3>2. UNCHANGED <<reliableUpdates, done>>
      BY <1>6 DEF PostUpdate
    <3>3. UNCHANGED <<toServer, tcpCall, m_reliableInputs, pushed, reliableUpdates, done>>
      BY <1>2, <3>2
    <3>4. CASE UNCHANGED serverStatus
      BY <1>1, <3>3, <3>4 DEF InTransit, Underway, Taken, TakenNext, Reliable
    <3>5. CASE serverStatus' = "game_over"
      BY <3>5 DEF InTransit
    <3> QED
      BY <3>1, <3>4, <3>5
  <2> QED
    BY <1>3, <1>4, <2>1, <2>2, <2>3 DEF InputsIInv
<1>7. CASE DropInputs
  <2>1. InputsTypeOK'
    <3>1. reliableUpdates' \in Seq(Toggles) /\ unreliableUpdates' \in Seq(Moves \cup {Nothing})
      BY <1>7 DEF DropInputs
    <3> QED
      BY <1>1, <1>7, <3>1 DEF DropInputs, InputsTypeOK
  <2>2. ToggledAsDone'
    BY <1>1, <1>7 DEF DropInputs, ToggledAsDone
  <2>3. InTransit'
    BY <1>7 DEF DropInputs, InTransit
  <2> QED
    BY <1>3, <1>4, <2>1, <2>2, <2>3 DEF InputsIInv
<1> QED
  BY <1>5, <1>6, <1>7 DEF MainThread

\* Nothing happens.
LEMMA StutterInv ==
  ASSUME InputsIInv, UNCHANGED inputVars
  PROVE  InputsIInv'
<1> USE DEF inputVars, handshake, progress, moving, toggling
<1>1. InputsTypeOK' /\ HandshakeInOrder' /\ ToldHasPlayer'
  BY DEF InputsIInv, InputsTypeOK, HandshakeInOrder, ToldHasPlayer, Reliable
<1>2. InTransit' /\ ToggledAsDone'
  BY DEF InputsIInv, InTransit, Underway, Taken, TakenNext, Reliable, ToggledAsDone
<1> QED
  BY <1>1, <1>2 DEF InputsIInv

LEMMA NextInv ==
  ASSUME InputsIInv, [InputsNext]_inputVars
  PROVE  InputsIInv'
BY HandshakeInv, ReliableInv, TcpInv, WindowInv, MainInv, MovementInv, StutterInv DEF InputsNext

\* In every reachable state, all that the player has toggled is on its way in order,
\* once, and what the game has acted on is what it was asked for first.
THEOREM InputsInvariance == InputsSpec => []InputsIInv
<1>1. InputsInit => InputsIInv
  BY InputsInitInv
<1>2. InputsIInv /\ [InputsNext]_inputVars => InputsIInv'
  BY NextInv
<1> QED
  BY <1>1, <1>2, PTL DEF InputsSpec

\* Every variable keeps its type; the lag of no datagram gets out of hand.
THEOREM InputsTypeCorrect == InputsSpec => []InputsTypeOK
<1>1. InputsIInv => InputsTypeOK
  BY DEF InputsIInv
<1> QED
  BY <1>1, InputsInvariance, PTL

\* No reliable input is on its way for a client without a player, which
\* setClientReliableUpdate relies on: it comes behind the answer to the request.
THEOREM PlayerBeforeInputs == InputsSpec => []InputsHavePlayer
<1>1. InputsIInv => InputsHavePlayer
  BY DEF InputsIInv, HandshakeInOrder, ToldHasPlayer, InputsHavePlayer, Reliable
<1> QED
  BY <1>1, InputsInvariance, PTL

-----------------------------------------------------------------------------
(***************************************************************************)
(* What the channel promises.                                              *)
(***************************************************************************)

\* An update with inputs obeys the next of them, and one without changes nothing.
LEMMA UpdateObeys ==
  ASSUME InputsIInv, InputsIInv', FirstUpdate
  PROVE  Channel!Obey \/ UNCHANGED <<pushed, done, toggled, serverStatus>>
<1>1. /\ serverStatus = "playing" /\ UNCHANGED <<pushed, serverStatus>>
      /\ done' = done \o reliableUpdates
  BY DEF FirstUpdate
<1>2. /\ InputsTypeOK /\ InTransit /\ ToggledAsDone
      /\ InputsTypeOK' /\ InTransit' /\ ToggledAsDone'
  BY DEF InputsIInv
<1>3. /\ toggled \in [ToggleKeys -> Nat] /\ toggled' \in [ToggleKeys -> Nat]
      /\ pushed \in Seq(Toggles) /\ done \in Seq(Toggles) /\ done' \in Seq(Toggles)
      /\ reliableUpdates \in Seq(Toggles)
  BY <1>2 DEF InputsTypeOK
<1>4. toggled' = [k \in ToggleKeys |-> Times(k, done)' % Period(k)]
  BY <1>2, <1>3 DEF ToggledAsDone
<1>5. CASE reliableUpdates = <<>>
  <2>1. done' = done
    BY <1>1, <1>3, <1>5
  <2>2. toggled = [k \in ToggleKeys |-> Times(k, done) % Period(k)]
    BY <1>2, <1>3 DEF ToggledAsDone
  <2>3. \A k \in ToggleKeys : Times(k, done)' = Times(k, done)
    BY <2>1 DEF Times
  <2>4. toggled' = toggled
    BY <1>4, <2>2, <2>3
  <2> QED
    BY <1>1, <2>1, <2>4
<1>6. CASE reliableUpdates # <<>>
  <2>1. PICK requests, l, m, p, d, u, n :
          Sized(requests, l, m, p, d, u, n) /\ Placed(requests, l, m, p, d, u, n)
    BY <1>1, <1>2, AllPlaced
  <2>2. PICK e : e = d + u
    OBVIOUS
  <2>3. u > 0 /\ Len(done') = e /\ DOMAIN done' = 1 .. e
    <3>1. d = Len(done) /\ u = Len(reliableUpdates) /\ d \in Nat /\ u \in Nat
      BY <2>1 DEF Placed, Sized
    <3> QED
      BY <1>1, <1>3, <1>6, <2>2, <3>1, ConcatProperties, EmptySeq
  <2>4. e \in d + 1 .. p /\ e \in Nat
    BY <2>1, <2>2, <2>3 DEF Sized
  <2>5. e \in Len(done) + 1 .. Len(pushed)
    BY <2>1, <2>4 DEF Placed
  <2>6. done' = SubSeq(pushed, 1, e)
    <3>1. \A i \in 1 .. e : done'[i] = pushed[i]
      BY <1>1, <1>2, <2>3 DEF InTransit
    <3>2. 1 .. e \subseteq DOMAIN pushed
      BY <2>1, <2>4 DEF Placed, Sized
    <3>3. SubSeq(pushed, 1, e) = [i \in 1 .. e |-> pushed[i]]
      BY <1>3, <2>4, <3>2
    <3>4. done' = [i \in 1 .. e |-> done'[i]]
      BY <1>3, <2>3
    <3> QED
      BY <3>1, <3>3, <3>4
  <2>7. toggled' = [k \in ToggleKeys |->
                      Cardinality({i \in DOMAIN done' : k \in done'[i]}) % Period(k)]
    BY <1>4 DEF Times
  <2> QED
    <3>1. \E k \in Len(done) + 1 .. Len(pushed) : done' = SubSeq(pushed, 1, k)
      BY <2>5, <2>6
    <3>2. \A S : Channel!Cardinality(S) = Cardinality(S)
      BY Zenon DEF Channel!Cardinality, Cardinality
    <3>3. toggled' = [k \in ToggleKeys |->
                        Channel!Cardinality({i \in DOMAIN done' : k \in done'[i]}) % Period(k)]
      BY <2>7, <3>2
    <3>4. Channel!Obey
      BY Zenon, <1>1, <3>1, <3>3 DEF Channel!Obey
    <3> QED
      BY <3>4
<1> QED
  BY <1>5, <1>6

\* Every step of the detailed specification is one of the abstract one, or none.
LEMMA StepImplementsChannel ==
  ASSUME InputsIInv, InputsIInv', [InputsNext]_inputVars
  PROVE  [Channel!Press \/ Channel!Obey \/ Channel!End]_Channel!channelVars
<1> USE DEF handshake, progress, moving, toggling
<1>1. CASE FirstUpdate
  BY <1>1, UpdateObeys DEF Channel!channelVars
<1>2. CASE PostUpdate
  BY <1>2 DEF PostUpdate, Channel!End, Channel!channelVars
<1>3. ASSUME NEW input \in Toggles, PushReliableInput(input)
      PROVE  Channel!Press
  BY <1>3 DEF PushReliableInput, Channel!Press
<1>4. CASE \/ RegisterClient \/ ReadRegistrationResponse \/ FetchPlayerId \/ StartPlaying
           \/ SendReliableInput \/ TcpThread \/ QueueClientConnectedEvent \/ PushReliableUpdate
           \/ DropInputs
  <2>1. UNCHANGED <<pushed, done, toggled, serverStatus>>
    BY <1>4 DEF RegisterClient, ReadRegistrationResponse, FetchPlayerId, RequestPlayerId,
                ReceivePlayerId, ReceiveTimeout, StartPlaying, SendReliableInput, TcpThread,
                HandleRegisterClient, SendPlayerId, SetClientReliableUpdate,
                QueueClientConnectedEvent, PushReliableUpdate, DropInputs
  <2> QED
    BY <2>1 DEF Channel!channelVars
<1>5. CASE \/ CatchUp \/ SendUnreliableInput \/ LoseDatagram \/ PushUnreliableUpdate
           \/ FurtherUpdate
           \/ \E input \in Moves : PushUnreliableInput(input)
           \/ \E datagram \in datagrams : ReceiveDatagram(datagram)
  <2>1. UNCHANGED <<pushed, done, toggled, serverStatus>>
    BY <1>5 DEF CatchUp, SendUnreliableInput, LoseDatagram, PushUnreliableUpdate, FurtherUpdate,
                PushUnreliableInput, ReceiveDatagram
  <2> QED
    BY <2>1 DEF Channel!channelVars
<1>6. CASE UNCHANGED inputVars
  BY <1>6 DEF inputVars, Channel!channelVars
<1> QED
  BY <1>1, <1>2, <1>3, <1>4, <1>5, <1>6 DEF InputsNext, MainThread

\* Over the queue, the connection and the window no toggle is lost while the game goes
\* on, none counts twice and none overtakes another: the safety of InputChannel.
THEOREM ChannelImplemented == InputsSpec => Channel!ChannelSafety
<1>1. InputsInit => Channel!ChannelInit
  BY DEF InputsInit, Channel!ChannelInit
<1>2. InputsIInv /\ InputsIInv' /\ [InputsNext]_inputVars
        => [Channel!Press \/ Channel!Obey \/ Channel!End]_Channel!channelVars
  BY StepImplementsChannel
<1> QED
  BY <1>1, <1>2, InputsInvariance, PTL DEF InputsSpec, Channel!ChannelSafety
=============================================================================
