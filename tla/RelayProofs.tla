---------------------------- MODULE RelayProofs ----------------------------
(***************************************************************************)
(* Theorems about Relay, for every set of connections, ids, quests and     *)
(* loot entries, every configuration and every number of faults.           *)
(***************************************************************************)
EXTENDS Relay, FiniteSetTheorems, WellFoundedInduction, TLAPS

-----------------------------------------------------------------------------
(* The first entry of a dict.                                              *)

\* A nonempty set of natural numbers has a least element.
LEMMA MinNat ==
  ASSUME NEW T \in SUBSET Nat, T # {}
  PROVE  \E m \in T : \A k \in T : m <= k
<1>1. PICK top \in T : TRUE
  OBVIOUS
<1> DEFINE S == 0 .. top
           F == {0 .. m : m \in {k \in T : k <= top}}
<1>2. IsFiniteSet(S)
  BY <1>1, FS_Interval
<1>3. IsWellFoundedOn(StrictSubsetOrdering(S), FiniteSubsetsOf(S))
  BY <1>2, FS_StrictSubsetOrderingWellFounded
<1>4. F \subseteq FiniteSubsetsOf(S)
  <2>1. SUFFICES ASSUME NEW m \in T, m <= top
                 PROVE  0 .. m \in FiniteSubsetsOf(S)
    OBVIOUS
  <2>2. 0 .. m \subseteq S
    BY <2>1
  <2>3. QED
    BY <2>1, <2>2, FS_Interval DEF FiniteSubsetsOf
<1>5. F # {}
  BY <1>1
<1>6. PICK x \in F : \A y \in F : ~ (<<y, x>> \in StrictSubsetOrdering(S))
  <2> HIDE DEF F, S
  <2> QED BY <1>3, <1>4, <1>5, WFMin
<1>7. PICK m \in T : m <= top /\ x = 0 .. m
  BY <1>6
<1>8. ASSUME NEW k \in T, k < m
      PROVE  FALSE
  <2> DEFINE y == 0 .. k
  <2>1. y \in F
    BY <1>7, <1>8
  <2>2. y \subseteq x /\ y # x
    BY <1>7, <1>8
  <2>3. x \subseteq S
    BY <1>7
  <2>4. <<y, x>> \in StrictSubsetOrdering(S)
    <3> HIDE DEF y, S, F
    <3> QED BY <2>2, <2>3 DEF StrictSubsetOrdering
  <2>5. QED
    BY <1>6, <2>1, <2>4
<1>9. QED
  BY <1>7, <1>8

\* First picks a member of a nonempty set of sessions.
LEMMA FirstIsMember ==
  ASSUME TypeOK, NEW S \in SUBSET Conns, S # {}
  PROVE  First(S) \in S
<1> DEFINE T == {slot[c] : c \in S}
<1>1. T \in SUBSET Nat /\ T # {}
  BY DEF TypeOK
<1>2. PICK m \in T : \A k \in T : m <= k
  <2> HIDE DEF T
  <2> QED BY <1>1, MinNat
<1>3. PICK c \in S : \A d \in S : slot[c] <= slot[d]
  BY <1>2
<1>4. QED
  BY <1>3 DEF First

\* The sets whose sizes the iterators remember are finite.
LEMMA Sizes ==
  ASSUME TypeOK
  PROVE  /\ \A S \in SUBSET Members : IsFiniteSet(S) /\ Cardinality(S) \in Nat
         /\ \A phase \in Phases : /\ IsFiniteSet(Stored(phase))
                                  /\ Cardinality(Stored(phase)) \in Nat
<1>1. ASSUME NEW S \in SUBSET Members
      PROVE  IsFiniteSet(S) /\ Cardinality(S) \in Nat
  <2>1. S \in SUBSET Conns
    BY DEF Members
  <2>2. QED
    BY <2>1, RelayAssumption, FS_Subset, FS_CardinalityType DEF RelayAssumption
<1>2. ASSUME NEW phase \in Phases
      PROVE  IsFiniteSet(Stored(phase)) /\ Cardinality(Stored(phase)) \in Nat
  <2>1. \/ Stored(phase) \in SUBSET (Ids \cup {NoId})
        \/ Stored(phase) \in SUBSET Quests
        \/ Stored(phase) \in SUBSET Loots
    BY DEF Stored, Phases, TypeOK, RoomState
  <2>2. IsFiniteSet(Stored(phase))
    BY <2>1, RelayAssumption, FS_Subset, FS_AddElement DEF RelayAssumption
  <2>3. QED
    BY <2>2, FS_CardinalityType
<1>3. QED
  BY <1>1, <1>2

-----------------------------------------------------------------------------
(* Type correctness.                                                       *)

\* The frames of the iterators.
CastType == [msg : Message, at : Nat, size : Nat, left : Nat, epoch : Nat,
             target : Conns \cup {NoConn}, dead : SUBSET (Ids \cup {NoId})]

ReplayType == [size : Nat, left : Nat, sent : SUBSET (Ids \cup World \cup {NoId})]

\* A replay loop starts with a frame.
LEMMA StartReplayType ==
  ASSUME TypeOK, NEW phase \in Phases
  PROVE  StartReplay(phase) \in ReplayType
BY Sizes DEF StartReplay, ReplayType

\* The messages a handler builds are messages.
LEMMA MessageTypes ==
  /\ \A i \in Ids \cup {NoId}, kind \in {"peer_joined", "peer_left", "player_state",
                                         "combat_event", "other"} :
       About(kind, i) \in Message
  /\ \A w \in World, v \in 0..MaxVersion :
       [kind |-> "world_state", about |-> w, version |-> v] \in Message
  /\ NoCast \in CastType
  /\ NoWorld \in [World -> 0..MaxVersion]
  /\ EmptyRoom \in RoomState
  /\ NoReplay \in ReplayType
BY RelayAssumption DEF RelayAssumption, About, Message, NoCast, CastType, NoWorld, EmptyRoom,
                       RoomState, NoReplay, ReplayType

\* What a client is sent keeps the type of its copy.
LEMMA DeliverType ==
  ASSUME TypeOK, NEW t \in Conns, NEW m \in Message, Deliver(t, m)
  PROVE  /\ view' \in [Conns -> [World -> 0..MaxVersion]]
         /\ avatars' \in [Conns -> SUBSET (Ids \cup {NoId})]
<1>1. m.kind = "world_state" => m.about \in World /\ m.version \in 0..MaxVersion
  BY DEF Message
<1>2. m.kind # "world_state" => m.about \in Ids \cup {NoId}
  BY DEF Message
<1>3. view' \in [Conns -> [World -> 0..MaxVersion]]
  BY <1>1 DEF Deliver, TypeOK
<1>4. avatars' \in [Conns -> SUBSET (Ids \cup {NoId})]
  <2>1. CASE m.kind = "player_state" /\ Up(t)
    BY <2>1, <1>2 DEF Deliver, TypeOK
  <2>2. CASE m.kind = "peer_left" /\ Up(t)
    BY <2>2, <1>2 DEF Deliver, TypeOK
  <2>3. CASE ~ (m.kind = "player_state" /\ Up(t)) /\ ~ (m.kind = "peer_left" /\ Up(t))
    BY <2>3 DEF Deliver, TypeOK
  <2>4. QED
    BY <2>1, <2>2, <2>3
<1>5. QED
  BY <1>3, <1>4

\* The types of what StartCast, Finish and Raise assign.
ControlType ==
  /\ pc \in [Conns -> {"hello", "welcome", "cast", "reap", "reading",
                       "closing", "done"} \cup Phases]
  /\ cpu \in Conns \cup {NoConn}
  /\ cast \in [Conns -> CastType]

ClientType ==
  /\ link \in [Conns -> {"up", "closed", "reset", "timedout"}]
  /\ view \in [Conns -> [World -> 0..MaxVersion]]
  /\ avatars \in [Conns -> SUBSET (Ids \cup {NoId})]

\* The frame that _broadcast starts with is well typed.
LEMMA StartCastType ==
  ASSUME TypeOK, NEW c \in Conns, NEW m \in Message, NEW size \in Nat,
         StartCast(c, m, size)
  PROVE  ControlType'
<1> DEFINE frame == [msg |-> m, at |-> 0, size |-> size, left |-> size, epoch |-> epoch,
                     target |-> NoConn, dead |-> {}]
<1>1. frame \in CastType
  BY DEF CastType, TypeOK
<1>2. cast' \in [Conns -> CastType]
  <2> HIDE DEF frame
  <2>1. cast' = [cast EXCEPT ![c] = frame]
    BY DEF StartCast, frame
  <2>2. cast \in [Conns -> CastType]
    BY DEF TypeOK, CastType
  <2>3. QED
    BY <1>1, <2>1, <2>2
<1>3. QED
  BY <1>2 DEF StartCast, ControlType, TypeOK

\* A handler that returns leaves well-typed control and client state.
LEMMA FinishType ==
  ASSUME TypeOK, NEW c \in Conns, Finish(c)
  PROVE  /\ ClientType'
         /\ pc' \in [Conns -> {"hello", "welcome", "cast", "reap", "reading",
                               "closing", "done"} \cup Phases]
         /\ cpu' \in Conns \cup {NoConn}
BY MessageTypes DEF Finish, TypeOK, ClientType

\* So does an exception, whether the finally clause follows or the task ends.
LEMMA RaiseType ==
  ASSUME TypeOK, NEW c \in Conns, Raise(c)
  PROVE  /\ ClientType'
         /\ ControlType'
         /\ replay' \in [Conns -> ReplayType]
<1>1. cast' \in [Conns -> CastType]
  BY MessageTypes DEF Raise, TypeOK, CastType
<1>2. replay' \in [Conns -> ReplayType]
  BY MessageTypes DEF Raise, TypeOK, ReplayType
<1>3. CASE cast[c].msg.kind = "peer_left"
  BY <1>1, <1>2, <1>3, FinishType DEF Raise, ControlType
<1>4. CASE cast[c].msg.kind # "peer_left"
  <2>1. ClientType'
    BY <1>4 DEF Raise, ClientType, TypeOK, clientVars
  <2>2. QED
    BY <2>1, <1>1, <1>2, <1>4 DEF Raise, ControlType, TypeOK
<1>5. QED
  BY <1>3, <1>4

\* The rest of TypeOK: what belongs to the room and to the sessions.
RoomType ==
  /\ id \in [Conns -> Ids \cup {NoId}]
  /\ claims \in [Conns -> BOOLEAN]
  /\ isHost \in [Conns -> BOOLEAN]
  /\ slot \in [Conns -> Nat]
  /\ nextSlot \in Nat \ {0}
  /\ epoch \in Nat
  /\ replay \in [Conns -> ReplayType]
  /\ room \in RoomState
  /\ disk \in RoomState
  /\ losses \in Nat
  /\ crashes \in Nat
  /\ cut \in BOOLEAN

\* The parts put together again.
LEMMA TypeParts ==
  /\ TypeOK <=> ControlType /\ ClientType /\ RoomType
  /\ TypeOK' <=> ControlType' /\ ClientType' /\ RoomType'
BY DEF TypeOK, ControlType, CastType, ClientType, RoomType, ReplayType

\* The successor chosen by _choose_next_host is a player or nobody.
LEMMA NextHostType ==
  ASSUME TypeOK, NEW S \in SUBSET Conns
  PROVE  NextHost(S) \in Ids \cup {NoId}
<1> DEFINE hosts == {m \in S : claims[m]}
<1>1. hosts # {} => First(hosts) \in Conns
  BY FirstIsMember
<1>2. HostPlayerId \in Ids \cup {NoId}
  BY RelayAssumption DEF RelayAssumption
<1>3. QED
  BY <1>1, <1>2 DEF NextHost, TypeOK

\* An empty relay is well typed.
LEMMA TypeInit == Init => TypeOK
<1> SUFFICES ASSUME Init
             PROVE  TypeOK
  OBVIOUS
<1>1. ControlType
  BY MessageTypes DEF Init, ControlType
<1>2. ClientType
  BY MessageTypes DEF Init, ClientType
<1>3. RoomType
  <2>1. replay \in [Conns -> ReplayType]
    BY MessageTypes DEF Init
  <2>2. room \in RoomState /\ disk \in RoomState
    BY MessageTypes DEF Init
  <2>3. cut \in BOOLEAN
    BY Zenon DEF Init
  <2>4. QED
    BY <2>1, <2>2, <2>3 DEF Init, RoomType
<1>4. QED
  BY <1>1, <1>2, <1>3, TypeParts

\* One step of a client keeps the types.
LEMMA TypeClient ==
  ASSUME TypeOK, NEW c \in Conns, ClientStep(c)
  PROVE  TypeOK'
<1> USE TypeParts
<1>1. ASSUME Reject(c)
      PROVE  TypeOK'
  <2>1. RoomType'
    BY <1>1 DEF Reject, RoomType, helloVars, dictVars, envVars
  <2>2. QED
    BY <1>1, <2>1, FinishType DEF Reject, ControlType
<1>2. ASSUME NEW i \in Ids, NEW claimed \in BOOLEAN, Register(c, i, claimed)
      PROVE  TypeOK'
  <2>1. room' \in RoomState
    BY <1>2 DEF Register, RoomType, RoomState
  <2>2. RoomType'
    BY <1>2, <2>1 DEF Register, RoomType, Save, envVars
  <2>3. ControlType'
    BY <1>2 DEF Register, ControlType, AfterSend
  <2>4. ClientType'
    BY <1>2 DEF Register, ClientType, clientVars
  <2>5. QED
    BY <2>2, <2>3, <2>4
<1>3. ASSUME NEW m \in Message, RelayMessage(c, m), room' \in RoomState,
             view' \in [Conns -> [World -> 0..MaxVersion]]
      PROVE  TypeOK'
  <2>1. Cardinality(Members) \in Nat
    BY Sizes
  <2>2. ControlType'
    BY <1>3, <2>1, StartCastType DEF RelayMessage
  <2>3. RoomType' /\ ClientType'
    BY <1>3 DEF RelayMessage, Save, RoomType, ClientType, helloVars, dictVars, envVars
  <2>4. QED
    BY <2>2, <2>3
<1>4. ASSUME PlayerState(c)
      PROVE  TypeOK'
  <2>1. id[c] \in Ids \cup {NoId}
    BY DEF RoomType
  <2>2. room' \in RoomState
    BY <1>4, <2>1 DEF PlayerState, RoomType, RoomState
  <2>3. QED
    BY <1>3, <1>4, <2>1, <2>2, MessageTypes DEF PlayerState, ClientType
<1>5. ASSUME NEW w \in World, WorldState(c, w)
      PROVE  TypeOK'
  <2>1. room.world[w] + 1 \in 0..MaxVersion
    BY <1>5, RelayAssumption DEF WorldState, RoomType, RoomState, RelayAssumption
  <2>2. room' \in RoomState
    BY <1>5, <2>1 DEF WorldState, RoomType, RoomState
  <2>3. view' \in [Conns -> [World -> 0..MaxVersion]]
    BY <1>5, <2>1 DEF WorldState, ClientType
  <2>4. QED
    BY <1>3, <1>5, <2>1, <2>2, <2>3, MessageTypes DEF WorldState
<1>6. ASSUME NEW authoritative \in BOOLEAN, CombatEvent(c, authoritative)
      PROVE  TypeOK'
  <2>1. id[c] \in Ids \cup {NoId}
    BY DEF RoomType
  <2>2. About(IF authoritative THEN "combat_event" ELSE "other", id[c]) \in Message
    BY <2>1, MessageTypes
  <2>3. room' \in RoomState /\ view' \in [Conns -> [World -> 0..MaxVersion]]
    BY <1>6 DEF CombatEvent, RoomType, ClientType
  <2>4. QED
    BY <1>3, <1>6, <2>2, <2>3 DEF CombatEvent
<1>7. ASSUME ReadFails(c)
      PROVE  TypeOK'
  BY <1>7, RaiseType DEF ReadFails, RoomType, helloVars, dictVars, envVars
<1>8. QED
  BY <1>1, <1>2, <1>4, <1>5, <1>6, <1>7 DEF ClientStep

\* One step of a handler keeps the types.
LEMMA TypeHandler ==
  ASSUME TypeOK, NEW c \in Conns, HandlerStep(c)
  PROVE  TypeOK'
<1> USE TypeParts
<1>1. ASSUME Raise(c), slot' \in [Conns -> Nat], cut' \in BOOLEAN,
             UNCHANGED <<helloVars, isHost, nextSlot, epoch, room, disk, losses, crashes>>
      PROVE  TypeOK'
  BY <1>1, RaiseType DEF RoomType, helloVars
<1>2. ASSUME Welcomed(c)
      PROVE  TypeOK'
  <2>1. CASE Raise(c)
    BY <1>1, <1>2, <2>1 DEF Welcomed, RoomType, dictVars, envVars
  <2>2. CASE /\ pc' = [pc EXCEPT ![c] = "players"]
             /\ replay' = [replay EXCEPT ![c] = StartReplay("players")]
             /\ cpu' = c
             /\ UNCHANGED <<cast, link, clientVars>>
    <3>1. StartReplay("players") \in ReplayType
      BY StartReplayType DEF Phases
    <3>2. RoomType'
      <4>1. replay' \in [Conns -> ReplayType]
        <5> DEFINE frame == StartReplay("players")
        <5> HIDE DEF frame
        <5>1. replay' = [replay EXCEPT ![c] = frame]
          BY <2>2 DEF frame
        <5>2. frame \in ReplayType
          BY <3>1 DEF frame
        <5>3. QED
          BY <5>1, <5>2 DEF RoomType
      <4>2. QED
        BY <1>2, <4>1 DEF Welcomed, RoomType, helloVars, dictVars, envVars
    <3>3. ControlType' /\ ClientType'
      BY <2>2 DEF ControlType, ClientType, clientVars, Phases
    <3>4. QED
      BY <3>2, <3>3
  <2>3. QED
    BY <1>2, <2>1, <2>2 DEF Welcomed
<1>3. ASSUME ReplayFails(c)
      PROVE  TypeOK'
  BY <1>1, <1>3 DEF ReplayFails, RoomType, dictVars, envVars
<1>4. ASSUME NEW key \in Ids \cup World, ReplayNext(c, key)
      PROVE  TypeOK'
  <2> DEFINE m == IF pc[c] = "players" THEN About("player_state", key)
                  ELSE [kind |-> "world_state", about |-> key,
                        version |-> room.world[key]]
  <2>1. m \in Message
    <3>1. CASE pc[c] = "players"
      <4>1. key \in Ids \cup {NoId}
        BY <1>4, <3>1 DEF ReplayNext, ToReplay, Stored, RoomType, RoomState
      <4>2. QED
        BY <3>1, <4>1, MessageTypes
    <3>2. CASE pc[c] # "players"
      <4>1. key \in World
        BY <1>4, <3>2 DEF ReplayNext, Replaying, ToReplay, Stored, Phases, World
      <4>2. room.world[key] \in 0..MaxVersion
        BY <4>1 DEF RoomType, RoomState
      <4>3. QED
        BY <3>2, <4>1, <4>2, MessageTypes
    <3>3. QED
      BY <3>1, <3>2
  <2>2. ClientType'
    <3> HIDE DEF m
    <3>1. (Deliver(c, m) \/ UNCHANGED clientVars) /\ link' = link
      BY <1>4 DEF ReplayNext, m
    <3>2. QED
      BY <2>1, <3>1, DeliverType DEF ClientType, clientVars
  <2>3. RoomType'
    <3> DEFINE frame == [replay[c] EXCEPT !.left = @ - 1, !.sent = @ \cup {key}]
    <3>1. replay[c].left \in Nat \ {0} /\ replay[c] \in ReplayType
      BY <1>4 DEF ReplayNext, Replaying, Intact, RoomType, ReplayType
    <3>2. frame \in ReplayType
      <4>1. replay[c].left - 1 \in Nat
        BY <3>1
      <4>2. replay[c].sent \cup {key} \in SUBSET (Ids \cup World \cup {NoId})
        BY <3>1 DEF ReplayType
      <4>3. QED
        BY <3>1, <4>1, <4>2 DEF ReplayType
    <3>3. replay' = [replay EXCEPT ![c] = frame]
      BY <1>4 DEF ReplayNext, RoomType
    <3>4. replay' \in [Conns -> ReplayType]
      BY <3>2, <3>3 DEF RoomType
    <3>5. UNCHANGED <<helloVars, isHost, dictVars, room, disk, envVars>>
      BY <1>4 DEF ReplayNext
    <3>6. QED
      BY <3>4, <3>5 DEF RoomType, helloVars, dictVars, envVars
  <2>4. ControlType'
    <3>1. UNCHANGED <<pc, cast>> /\ cpu' \in {c, NoConn}
      BY <1>4 DEF ReplayNext, AfterSend
    <3>2. QED
      BY <3>1 DEF ControlType
  <2>5. QED
    BY <2>2, <2>3, <2>4
<1>5. ASSUME ReplayEnd(c)
      PROVE  TypeOK'
  <2>1. ClientType'
    BY <1>5 DEF ReplayEnd, ClientType, clientVars
  <2>2. CASE pc[c] = "loots"
    <3>1. Cardinality(Members) \in Nat /\ About("peer_joined", id[c]) \in Message
      BY Sizes, MessageTypes DEF RoomType
    <3>2. ControlType'
      BY <1>5, <2>2, <3>1, StartCastType DEF ReplayEnd
    <3>3. RoomType'
      <4>1. replay' = [replay EXCEPT ![c] = NoReplay]
        BY <1>5, <2>2 DEF ReplayEnd
      <4>2. replay' \in [Conns -> ReplayType]
        BY <4>1, MessageTypes DEF RoomType
      <4>3. UNCHANGED <<helloVars, isHost, dictVars, room, disk, envVars>>
        BY <1>5 DEF ReplayEnd
      <4>4. QED
        BY <4>2, <4>3 DEF RoomType, helloVars, dictVars, envVars
    <3>4. QED
      BY <2>1, <3>2, <3>3
  <2>3. CASE pc[c] # "loots"
    <3> DEFINE next == IF pc[c] = "players" THEN "quests" ELSE "loots"
    <3>1. StartReplay(next) \in ReplayType
      BY StartReplayType DEF Phases
    <3>2. RoomType'
      <4> DEFINE frame == StartReplay(next)
      <4>1. replay' = [replay EXCEPT ![c] = frame]
        BY <1>5, <2>3 DEF ReplayEnd
      <4>2. frame \in ReplayType
        BY <3>1
      <4> HIDE DEF frame
      <4>3. replay' \in [Conns -> ReplayType]
        BY <4>1, <4>2 DEF RoomType
      <4>4. UNCHANGED <<helloVars, isHost, dictVars, room, disk, envVars>>
        BY <1>5, Zenon DEF ReplayEnd
      <4>5. QED
        BY <4>3, <4>4 DEF RoomType, helloVars, dictVars, envVars
    <3>3. ControlType'
      BY <1>5, <2>3 DEF ReplayEnd, ControlType, Phases
    <3>4. QED
      BY <2>1, <3>2, <3>3
  <2>4. QED
    BY <2>2, <2>3
<1>6. ASSUME CastFails(c)
      PROVE  TypeOK'
  BY <1>1, <1>6 DEF CastFails, RoomType, dictVars
<1>7. \A outcome \in DrainOutcome(cast[c].target) : DeadAfter(c, outcome) \in SUBSET (Ids \cup {NoId})
  <2>1. ASSUME NEW outcome \in DrainOutcome(cast[c].target), outcome = "dead"
        PROVE  cast[c].target \in Conns
    BY <2>1 DEF DrainOutcome, ControlType, CastType
  <2>2. QED
    BY <2>1 DEF DeadAfter, ControlType, CastType, RoomType
<1>8. ASSUME CastNext(c)
      PROVE  TypeOK'
  <2> DEFINE t == First(Targets(c))
  <2>1. t \in Conns
    BY <1>8, FirstIsMember DEF CastNext, Targets, After, Members
  <2>2. cast[c].msg \in Message
    BY DEF ControlType, CastType
  <2>3. ClientType'
    <3> HIDE DEF t
    <3>1. Deliver(t, cast[c].msg) /\ link' = link
      BY <1>8 DEF CastNext, t
    <3>2. QED
      BY <2>1, <2>2, <3>1, DeliverType DEF ClientType
  <2>4. RoomType'
    BY <1>8 DEF CastNext, RoomType, helloVars, dictVars, envVars
  <2>5. ControlType'
    <3>1. PICK outcome \in DrainOutcome(cast[c].target) \ {"error"} :
            /\ cast' = [cast EXCEPT ![c].at = slot[t], ![c].target = t,
                                    ![c].left = @ - Cardinality(Passed(c)),
                                    ![c].dead = DeadAfter(c, outcome)]
            /\ cpu' \in AfterSend(c, t)
      BY <1>8 DEF CastNext
    <3>2. DeadAfter(c, outcome) \in SUBSET (Ids \cup {NoId})
      BY <1>7, <3>1
    <3>3. cast' \in [Conns -> CastType]
      <4> DEFINE frame == [cast[c] EXCEPT !.at = slot[t], !.target = t,
                                          !.left = @ - Cardinality(Passed(c)),
                                          !.dead = DeadAfter(c, outcome)]
      <4> HIDE DEF t
      <4>1. slot[t] \in Nat /\ cast[c].left - Cardinality(Passed(c)) \in Nat
        <5>1. Cardinality(Passed(c)) \in Nat
          BY Sizes DEF Passed, After
        <5>2. Cardinality(Passed(c)) <= cast[c].left /\ cast[c].left \in Nat
          BY <1>8 DEF CastNext, Iterates, ControlType, CastType
        <5>3. QED
          BY <2>1, <5>1, <5>2 DEF RoomType
      <4>2. frame \in CastType
        BY <2>1, <3>2, <4>1 DEF ControlType, CastType
      <4>3. cast' = [cast EXCEPT ![c] = frame]
        BY <3>1 DEF ControlType
      <4>4. QED
        BY <4>2, <4>3 DEF ControlType
    <3>4. QED
      BY <1>8, <3>1, <3>3 DEF CastNext, ControlType, AfterSend
  <2>6. QED
    BY <2>3, <2>4, <2>5
<1>9. ASSUME CastEnd(c)
      PROVE  TypeOK'
  <2>1. PICK outcome \in DrainOutcome(cast[c].target) \ {"error"} :
          cast' = [cast EXCEPT ![c].target = NoConn, ![c].dead = DeadAfter(c, outcome)]
    BY <1>9 DEF CastEnd
  <2>2. DeadAfter(c, outcome) \in SUBSET (Ids \cup {NoId})
    BY <1>7, <2>1
  <2>3. cast' \in [Conns -> CastType]
    BY <2>1, <2>2 DEF ControlType, CastType
  <2>4. QED
    BY <1>9, <2>3 DEF CastEnd, ControlType, ClientType, RoomType, helloVars, dictVars,
                      clientVars, envVars
<1>10. ASSUME NEW i \in Ids, Reap(c, i)
       PROVE  TypeOK'
  <2>1. cast' \in [Conns -> CastType]
    BY <1>10 DEF Reap, ControlType, CastType
  <2>2. ControlType'
    BY <1>10, <2>1 DEF Reap, ControlType
  <2>3. ClientType' /\ RoomType'
    BY <1>10 DEF Reap, ClientType, RoomType, helloVars, clientVars
  <2>4. QED
    BY <2>2, <2>3
<1>10a. ASSUME NEW i \in Ids, ReapFails(c, i)
       PROVE  TypeOK'
  <2>1. slot' \in [Conns -> Nat]
    BY <1>10a DEF ReapFails, RoomType
  <2>2. QED
    BY <1>1, <1>10a, <2>1 DEF ReapFails, RoomType
<1>11. ASSUME ReapEnd(c)
       PROVE  TypeOK'
  <2>1. cast' \in [Conns -> CastType]
    BY <1>11, MessageTypes DEF ReapEnd, ControlType, CastType
  <2>2. RoomType'
    BY <1>11 DEF ReapEnd, RoomType, helloVars, dictVars, envVars
  <2>3. CASE Finish(c)
    BY <2>1, <2>2, <2>3, FinishType DEF ControlType
  <2>4. CASE ~ Finish(c)
    BY <1>11, <2>1, <2>2, <2>4 DEF ReapEnd, ControlType, ClientType, clientVars
  <2>5. QED
    BY <2>3, <2>4
<1>12. ASSUME UnregisterNobody(c)
       PROVE  TypeOK'
  <2>1. RoomType'
    BY <1>12 DEF UnregisterNobody, RoomType, helloVars, dictVars, envVars
  <2>2. QED
    BY <1>12, <2>1, FinishType DEF UnregisterNobody, ControlType
<1>13. ASSUME Unregister(c)
       PROVE  TypeOK'
  <2> DEFINE remaining == Members \ Holder(c)
  <2>1. remaining \in SUBSET Members /\ remaining \in SUBSET Conns
    BY DEF Members
  <2>2. NextHost(remaining) \in Ids \cup {NoId}
    <3> HIDE DEF remaining
    <3> QED BY <2>1, NextHostType
  <2>3. room' \in RoomState
    BY <1>13, <2>2 DEF Unregister, RoomType, RoomState
  <2>4. isHost' \in [Conns -> BOOLEAN] /\ epoch' \in Nat
    <3>1. HandOver(remaining, room'.host) \in [Conns -> BOOLEAN]
      BY DEF HandOver, RoomType
    <3>2. isHost' \in {HandOver(remaining, room'.host), isHost} /\ epoch' \in {epoch, epoch + 1}
      BY <1>13 DEF Unregister
    <3>3. isHost' \in [Conns -> BOOLEAN]
      <4> HIDE DEF remaining
      <4> QED BY <3>1, <3>2, Zenon DEF RoomType
    <3>4. epoch' \in Nat
      BY <3>2 DEF RoomType
    <3>5. QED
      BY <3>3, <3>4
  <2>5. slot' \in [Conns -> Nat]
    BY <1>13 DEF Unregister, RoomType
  <2>6. RoomType'
    <3>1. replay' \in [Conns -> ReplayType]
      <4>1. replay' = Reopened(id[c])
        BY <1>13 DEF Unregister
      <4>2. Reopened(id[c]) \in [Conns -> ReplayType]
        BY DEF Reopened, RoomType, ReplayType
      <4>3. QED
        BY <4>1, <4>2
    <3>2. QED
      BY <1>13, <2>3, <2>4, <2>5, <3>1 DEF Unregister, Save, RoomType, helloVars, envVars
  <2>7. CASE remaining = {}
    BY <1>13, <2>6, <2>7, FinishType DEF Unregister, ControlType
  <2>8. CASE remaining # {}
    <3>1. Cardinality(remaining) \in Nat /\ About("peer_left", id[c]) \in Message
      BY <2>1, Sizes, MessageTypes DEF RoomType
    <3>2. ControlType'
      BY <1>13, <2>8, <3>1, StartCastType DEF Unregister
    <3>3. QED
      BY <1>13, <2>6, <2>8, <3>2 DEF Unregister, ClientType, clientVars
  <2>9. QED
    BY <2>7, <2>8
<1>14. QED
  BY <1>2, <1>3, <1>4, <1>5, <1>6, <1>8, <1>9, <1>10, <1>11, <1>12, <1>13, <1>10a
     DEF HandlerStep

\* A fault keeps the types.
LEMMA TypeEnvironment ==
  ASSUME TypeOK, Environment
  PROVE  TypeOK'
<1> USE TypeParts
<1>1. ASSUME NEW c \in Conns, NEW how \in {"reset", "timedout"}, LoseLink(c, how)
      PROVE  TypeOK'
  BY <1>1 DEF LoseLink, ControlType, ClientType, RoomType, handlerVars, helloVars,
              dictVars, clientVars
<1>2. ASSUME Crash
      PROVE  TypeOK'
  <2>1. ControlType' /\ ClientType'
    BY <1>2, MessageTypes DEF Crash, ControlType, ClientType
  <2>2. RoomType'
    <3>1. replay' \in [Conns -> ReplayType]
      BY <1>2, MessageTypes DEF Crash
    <3>2. cut' \in BOOLEAN
      BY <1>2, Zenon DEF Crash
    <3>3. QED
      BY <1>2, <3>1, <3>2 DEF Crash, RoomType, helloVars
  <2>3. QED
    BY <2>1, <2>2
<1>3. QED
  BY <1>1, <1>2 DEF Environment

\* Every variable keeps its type: no handler ever iterates, replays or saves
\* anything but messages and entries of the room.
THEOREM TypeCorrect == Spec => []TypeOK
<1>1. TypeOK /\ [Next]_vars => TypeOK'
  <2> SUFFICES ASSUME TypeOK, [Next]_vars
               PROVE  TypeOK'
    OBVIOUS
  <2>1. CASE UNCHANGED vars
    BY <2>1 DEF vars, handlerVars, helloVars, dictVars, clientVars, envVars, TypeOK
  <2>2. QED
    BY <2>1, TypeClient, TypeHandler, TypeEnvironment DEF Next
<1>2. QED
  BY <1>1, TypeInit, PTL DEF Spec

-----------------------------------------------------------------------------
(* The saved room.                                                         *)

\* A crash never costs an update: after every step the file holds the room.
THEOREM DiskIsCurrent == Spec => []DiskCurrent
<1>1. Init => DiskCurrent
  BY DEF Init, DiskCurrent
<1>2. DiskCurrent /\ [Next]_vars => DiskCurrent'
  <2> SUFFICES ASSUME DiskCurrent, [Next]_vars
               PROVE  DiskCurrent'
    OBVIOUS
  <2> USE DEF DiskCurrent
  <2>1. ASSUME NEW c \in Conns, ClientStep(c)
        PROVE  DiskCurrent'
    BY <2>1 DEF ClientStep, Reject, Register, PlayerState, WorldState, CombatEvent,
                ReadFails, RelayMessage, Save
  <2>2. ASSUME NEW c \in Conns, HandlerStep(c)
        PROVE  DiskCurrent'
    BY <2>2 DEF HandlerStep, Welcomed, ReplayFails, ReplayNext, ReplayEnd, CastFails,
                CastNext, CastEnd, Reap, ReapFails, ReapEnd, UnregisterNobody, Unregister, Save
  <2>3. ASSUME Environment
        PROVE  DiskCurrent'
    BY <2>3 DEF Environment, LoseLink, Crash
  <2>4. CASE UNCHANGED vars
    BY <2>4 DEF vars
  <2>5. QED
    BY <2>1, <2>2, <2>3, <2>4 DEF Next
<1>3. QED
  BY <1>1, <1>2, PTL DEF Spec

-----------------------------------------------------------------------------
(* The room's sessions and its host.                                       *)

\* A step that registers nobody, hands nothing over, and at most removes
\* sessions from the room.
Undisturbed ==
  /\ UNCHANGED <<id, claims, isHost>>
  /\ room'.host = room.host
  /\ Members' \subseteq Members
  /\ \A d \in Conns : pc'[d] = "hello" => pc[d] = "hello"

\* Only Register and Unregister disturb the room's sessions or its host.
LEMMA UndisturbedClient ==
  ASSUME TypeOK, NEW c \in Conns, ClientStep(c)
  PROVE  Undisturbed \/ \E i \in Ids, claimed \in BOOLEAN : Register(c, i, claimed)
<1> USE DEF Undisturbed, Members, TypeOK, helloVars, dictVars
<1>1. CASE Reject(c)
  BY <1>1 DEF Reject, Finish
<1>2. CASE PlayerState(c)
  BY <1>2 DEF PlayerState, RelayMessage, StartCast, RoomState
<1>3. ASSUME NEW w \in World, WorldState(c, w)
      PROVE  Undisturbed
  BY <1>3 DEF WorldState, RelayMessage, StartCast, RoomState
<1>4. ASSUME NEW authoritative \in BOOLEAN, CombatEvent(c, authoritative)
      PROVE  Undisturbed
  BY <1>4 DEF CombatEvent, RelayMessage, StartCast
<1>5. CASE ReadFails(c)
  BY <1>5 DEF ReadFails, Raise, Finish
<1>6. QED
  BY <1>1, <1>2, <1>3, <1>4, <1>5 DEF ClientStep

\* Of the steps a handler takes by itself only Unregister changes a flag or the
\* host, and none adds a session.
LEMMA UndisturbedHandler ==
  ASSUME TypeOK, NEW c \in Conns, HandlerStep(c)
  PROVE  Undisturbed \/ Unregister(c)
<1> USE DEF Undisturbed, Members, TypeOK, helloVars, dictVars
<1>1. CASE Welcomed(c)
  BY <1>1 DEF Welcomed, Raise, Finish
<1>2. CASE ReplayFails(c)
  BY <1>2 DEF ReplayFails, Raise, Finish
<1>3. ASSUME NEW key \in Ids \cup World, ReplayNext(c, key)
      PROVE  Undisturbed
  BY <1>3 DEF ReplayNext
<1>4. CASE ReplayEnd(c)
  BY <1>4 DEF ReplayEnd, StartCast
<1>5. CASE CastFails(c)
  BY <1>5 DEF CastFails, Raise, Finish
<1>6. CASE CastNext(c)
  BY <1>6 DEF CastNext
<1>7. CASE CastEnd(c)
  BY <1>7 DEF CastEnd
<1>8. ASSUME NEW i \in Ids, Reap(c, i)
      PROVE  Undisturbed
  BY <1>8 DEF Reap
<1>11. ASSUME NEW i \in Ids, ReapFails(c, i)
       PROVE  Undisturbed
  BY <1>11 DEF ReapFails, Raise, Finish
<1>9. CASE ReapEnd(c)
  BY <1>9 DEF ReapEnd, Finish
<1>10. CASE UnregisterNobody(c)
  BY <1>10 DEF UnregisterNobody, Finish
<1>12. QED
  BY <1>1, <1>2, <1>3, <1>4, <1>5, <1>6, <1>7, <1>8, <1>9, <1>10, <1>11 DEF HandlerStep

\* What a handover does to the room's sessions.
LEMMA UnregisterEffect ==
  ASSUME TypeOK, NEW c \in Conns, Unregister(c)
  PROVE  /\ UNCHANGED <<id, claims>>
         /\ Members' = Members \ Holder(c)
         /\ room'.host = IF room.host = id[c] THEN NextHost(Members \ Holder(c))
                         ELSE room.host
         /\ room.host # id[c] => isHost' = isHost
         /\ room.host = id[c] =>
              \A m \in Members' : isHost'[m] = (id[m] = room'.host)
         /\ \A d \in Conns : pc'[d] = "hello" => pc[d] = "hello"
<1>1. UNCHANGED <<id, claims>>
  BY DEF Unregister, helloVars
<1>2. Members' = Members \ Holder(c)
  BY DEF Unregister, Members, Holder, TypeOK
<1>3. room'.host = IF room.host = id[c] THEN NextHost(Members \ Holder(c)) ELSE room.host
  BY DEF Unregister, TypeOK, RoomState
<1>4. room.host # id[c] => isHost' = isHost
  BY DEF Unregister
<1>5. ASSUME room.host = id[c], NEW m \in Members'
      PROVE  isHost'[m] = (id[m] = room'.host)
  <2>1. isHost' = HandOver(Members \ Holder(c), room'.host)
    BY <1>5 DEF Unregister
  <2>2. m \in Conns /\ m \in Members \ Holder(c)
    BY <1>2, <1>5 DEF Members
  <2>3. QED
    BY <2>1, <2>2, Zenon DEF HandOver
<1>6. \A d \in Conns : pc'[d] = "hello" => pc[d] = "hello"
  BY DEF Unregister, Finish, StartCast, TypeOK
<1>7. QED
  BY <1>1, <1>2, <1>3, <1>4, <1>5, <1>6

\* What Register does to the room's sessions.
LEMMA RegisterEffect ==
  ASSUME TypeOK, NEW c \in Conns, NEW i \in Ids, NEW claimed \in BOOLEAN,
         Register(c, i, claimed)
  PROVE  /\ Members' = Members \cup {c}
         /\ id' = [id EXCEPT ![c] = i]
         /\ claims' = [claims EXCEPT ![c] = claimed]
         /\ room'.host = IF i = HostPlayerId \/ (room.host = NoId /\ claimed)
                         THEN i ELSE room.host
         /\ isHost' = [isHost EXCEPT ![c] = (room'.host = i)]
         /\ pc' = [pc EXCEPT ![c] = "welcome"]
<1>1. Members' = Members \cup {c}
  BY DEF Register, Members, TypeOK
<1>2. isHost' = [isHost EXCEPT ![c] = (room'.host = i)]
  BY Zenon DEF Register
<1>3. room'.host = IF i = HostPlayerId \/ (room.host = NoId /\ claimed)
                   THEN i ELSE room.host
  BY DEF Register, TypeOK, RoomState
<1>4. QED
  BY <1>1, <1>2, <1>3 DEF Register

\* RoomBounded with what makes it inductive: a registered session has said
\* hello under a player's id, so a connection registers at most once.
RoomInv ==
  /\ \A c \in Members : pc[c] # "hello" /\ id[c] \in Ids
  /\ RoomBounded

\* Removing sessions cannot break RoomInv.
LEMMA RoomInvShrinks ==
  ASSUME TypeOK, RoomInv, id' = id, Members' \subseteq Members,
         \A d \in Conns : pc'[d] = "hello" => pc[d] = "hello"
  PROVE  RoomInv'
<1>1. Cardinality(Members') <= Cardinality(Members) /\ Cardinality(Members') \in Nat
  <2>1. Members \in SUBSET Members /\ IsFiniteSet(Members)
    BY Sizes
  <2>2. QED
    BY <2>1, Sizes, FS_Subset
<1>2. Cardinality(Members') <= RoomCapacity
  BY <1>1, Sizes, RelayAssumption DEF RoomInv, RoomBounded, RelayAssumption
<1>3. \A c \in Members' : c \in Conns
  BY DEF Members
<1>4. QED
  BY <1>2, <1>3 DEF RoomInv, RoomBounded

\* Every step keeps RoomInv: Register adds one session where there is a place
\* and an id is free, every other step only removes sessions.
LEMMA RoomInvStep ==
  ASSUME TypeOK, RoomInv, [Next]_vars
  PROVE  RoomInv'
<1>1. CASE Undisturbed
  BY <1>1, RoomInvShrinks DEF Undisturbed
<1>2. ASSUME NEW c \in Conns, NEW i \in Ids, NEW claimed \in BOOLEAN,
             Register(c, i, claimed)
      PROVE  RoomInv'
  <2>1. Members' = Members \cup {c} /\ id' = [id EXCEPT ![c] = i]
        /\ pc' = [pc EXCEPT ![c] = "welcome"]
    BY <1>2, RegisterEffect
  <2>2. c \notin Members /\ Cardinality(Members) < RoomCapacity /\ i \notin IdsOf(Members)
    BY <1>2 DEF Register, HasPlace, RoomInv
  <2>3. Cardinality(Members') <= RoomCapacity
    <3>1. IsFiniteSet(Members) /\ Cardinality(Members) \in Nat
      BY Sizes
    <3>2. Cardinality(Members \cup {c}) = Cardinality(Members) + 1
      BY <2>2, <3>1, FS_AddElement
    <3>3. QED
      BY <2>1, <2>2, <3>1, <3>2, RelayAssumption DEF RelayAssumption
  <2>4. \A d \in Members' : pc'[d] # "hello" /\ id'[d] \in Ids
    BY <2>1, <2>2 DEF RoomInv, Members, TypeOK
  <2>5. \A d \in Members : id'[d] = id[d] /\ id[d] # i
    BY <2>1, <2>2 DEF IdsOf, Members, TypeOK
  <2>6. id'[c] = i
    BY <2>1 DEF TypeOK
  <2>7. \A d, e \in Members' : id'[d] = id'[e] => d = e
    BY <2>1, <2>5, <2>6 DEF RoomInv, RoomBounded
  <2>8. QED
    BY <2>3, <2>4, <2>7 DEF RoomInv, RoomBounded
<1>3. ASSUME NEW c \in Conns, Unregister(c)
      PROVE  RoomInv'
  BY <1>3, UnregisterEffect, RoomInvShrinks
<1>4. CASE Environment
  <2>1. ASSUME NEW c \in Conns, NEW how \in {"reset", "timedout"}, LoseLink(c, how)
        PROVE  Undisturbed
    BY <2>1 DEF LoseLink, Undisturbed, Members, handlerVars, helloVars, dictVars
  <2>2. CASE Crash
    <3>1. Members' = {} /\ id' = id
      BY <2>2 DEF Crash, Members, helloVars
    <3>2. \A d \in Conns : pc'[d] = "hello" => pc[d] = "hello"
      BY <2>2 DEF Crash
    <3>3. QED
      BY <3>1, <3>2, RoomInvShrinks
  <2>3. QED
    BY <1>1, <1>4, <2>1, <2>2 DEF Environment
<1>5. CASE UNCHANGED vars
  BY <1>1, <1>5 DEF vars, handlerVars, helloVars, dictVars, Undisturbed, Members
<1>6. QED
  BY <1>1, <1>2, <1>3, <1>4, <1>5, UndisturbedClient, UndisturbedHandler DEF Next

\* RoomInv is an invariant.
LEMMA RoomInvInvariant == Spec => []RoomInv
<1>1. Init => RoomInv
  <2> SUFFICES ASSUME Init
               PROVE  RoomInv
    OBVIOUS
  <2>1. Members = {}
    BY DEF Init, Members
  <2>2. Cardinality({}) = 0
    BY FS_EmptySet
  <2>3. QED
    BY <2>1, <2>2, RelayAssumption DEF RoomInv, RoomBounded, RelayAssumption
<1>2. TypeOK /\ RoomInv /\ [Next]_vars => RoomInv'
  BY RoomInvStep
<1>3. QED
  BY <1>1, <1>2, TypeCorrect, PTL DEF Spec

\* Whatever faults occur, the room never exceeds room_capacity and never holds
\* two sessions of one player.
THEOREM RoomIsBounded == Spec => []RoomBounded
<1>1. RoomInv => RoomBounded
  BY DEF RoomInv
<1>2. QED
  BY <1>1, RoomInvInvariant, PTL

-----------------------------------------------------------------------------
(* The host.                                                               *)

\* A step that removes sessions and changes no flag and no host keeps the flags
\* in line.
LEMMA HostKept ==
  ASSUME TypeOK, UNCHANGED <<id, claims, isHost>>, room'.host = room.host,
         Members' \subseteq Members
  PROVE  HostFlag => HostFlag'
BY DEF HostFlag

\* A fault leaves the host alone or empties the room.
LEMMA HostEnvironment ==
  ASSUME TypeOK, DiskCurrent, Environment
  PROVE  /\ UNCHANGED <<id, claims, isHost>>
         /\ room'.host = room.host
         /\ Members' \subseteq Members
<1>1. ASSUME NEW c \in Conns, NEW how \in {"reset", "timedout"}, LoseLink(c, how)
      PROVE  UNCHANGED <<id, claims, isHost, room, slot>>
  BY <1>1 DEF LoseLink, helloVars, dictVars
<1>2. CASE Crash
  <2>1. Members' = {}
    BY <1>2 DEF Crash, Members
  <2>2. UNCHANGED <<id, claims, isHost, room>>
    BY <1>2 DEF Crash, helloVars, DiskCurrent
  <2>3. QED
    BY <2>1, <2>2
<1>3. QED
  BY <1>1, <1>2 DEF Environment, Members

\* Without a configured host, the flag of every registered session agrees with
\* host_session_id after a join or a handover.
LEMMA HostFlagStep ==
  ASSUME HostPlayerId = NoId, TypeOK, DiskCurrent, RoomInv, HostFlag, [Next]_vars
  PROVE  HostFlag'
<1>1. CASE Undisturbed
  BY <1>1, HostKept DEF Undisturbed
<1>2. ASSUME NEW c \in Conns, NEW i \in Ids, NEW claimed \in BOOLEAN,
             Register(c, i, claimed)
      PROVE  HostFlag'
  <2>1. c \notin Members /\ i \notin IdsOf(Members) /\ NoId \notin Ids
    BY <1>2, RelayAssumption DEF Register, RoomInv, RelayAssumption
  <2>2. isHost'[c] = (room'.host = i) /\ id'[c] = i
    BY <1>2, RegisterEffect DEF TypeOK
  <2>3. ASSUME NEW m \in Members
        PROVE  isHost'[m] <=> id'[m] = room'.host
    <3>1. m \in Conns /\ m # c /\ id[m] # i /\ id[m] \in Ids
      BY <2>1 DEF IdsOf, Members, RoomInv
    <3>2. isHost'[m] = isHost[m] /\ id'[m] = id[m]
      BY <1>2, <3>1, RegisterEffect DEF TypeOK
    <3>3. room'.host = room.host \/ (room.host = NoId /\ room'.host = i)
      BY <1>2, <2>1, RegisterEffect
    <3>4. QED
      BY <2>1, <3>1, <3>2, <3>3 DEF HostFlag
  <2>4. Members' = Members \cup {c}
    BY <1>2, RegisterEffect
  <2>5. QED
    BY <2>2, <2>3, <2>4 DEF HostFlag
<1>3. ASSUME NEW c \in Conns, Unregister(c)
      PROVE  HostFlag'
  <2>1. CASE room.host = id[c]
    BY <1>3, <2>1, UnregisterEffect DEF HostFlag
  <2>2. CASE room.host # id[c]
    BY <1>3, <2>2, UnregisterEffect, HostKept
  <2>3. QED
    BY <2>1, <2>2
<1>4. CASE Environment
  BY <1>4, HostEnvironment, HostKept
<1>5. CASE UNCHANGED vars
  BY <1>1, <1>5 DEF vars, handlerVars, helloVars, dictVars, Undisturbed, Members
<1>6. QED
  BY <1>1, <1>2, <1>3, <1>4, <1>5, UndisturbedClient, UndisturbedHandler DEF Next

\* When no host is configured, is_host marks exactly the session that
\* host_session_id names, so at most one registered session may write.
THEOREM FlagNamesTheHost == HostPlayerId = NoId => (Spec => []HostFlag)
<1> SUFFICES ASSUME HostPlayerId = NoId
             PROVE  Spec => []HostFlag
  OBVIOUS
<1>1. Init => HostFlag
  BY DEF Init, HostFlag, Members
<1>2. TypeOK /\ DiskCurrent /\ RoomInv /\ HostFlag /\ [Next]_vars => HostFlag'
  BY HostFlagStep
<1>3. QED
  BY <1>1, <1>2, TypeCorrect, DiskIsCurrent, RoomInvInvariant, PTL DEF Spec

-----------------------------------------------------------------------------
(* Sessions and their handlers.                                            *)

\* A registered session's handler has not ended, nor has it got to its
\* farewell; the player of a running handler is a player.
HandlersInv ==
  /\ NoOrphans
  /\ \A c \in Conns : cast[c].msg.kind = "peer_left" => c \notin Members /\ pc[c] # "hello"
  /\ \A c \in Served : id[c] \in Ids

\* A step that adds neither a session nor a connection that is served.
Wanes == UNCHANGED <<id, claims>> /\ Members' \subseteq Members /\ Served' \subseteq Served

\* No message of a client ends a handler.
LEMMA HandlersMessage ==
  ASSUME TypeOK, HandlersInv, NEW c \in Conns, NEW m, m.kind # "peer_left",
         pc[c] = "reading", RelayMessage(c, m)
  PROVE  HandlersInv' /\ Wanes
<1>1. Members' = Members /\ UNCHANGED <<id, claims>>
  BY DEF RelayMessage, Members, dictVars, helloVars
<1>2. pc' = [pc EXCEPT ![c] = "cast"] /\ cast'[c].msg = m
      /\ \A d \in Conns \ {c} : cast'[d] = cast[d]
  BY DEF RelayMessage, StartCast, TypeOK
<1>3. Served' = Served
  BY <1>2 DEF Served, TypeOK
<1>4. \A d \in Conns : pc'[d] \in {"hello", "done"} => pc'[d] = pc[d] /\ d # c
  BY <1>2 DEF TypeOK
<1>5. QED
  BY <1>1, <1>2, <1>3, <1>4 DEF HandlersInv, NoOrphans, Wanes, Members

\* A handler whose session is gone may end, or end its frame.
LEMMA HandlersEnd ==
  ASSUME TypeOK, HandlersInv, NEW c \in Conns, c \notin Members', Members' \subseteq Members,
         id' = id, pc[c] \notin {"hello", "done"},
         \A d \in Conns \ {c} : pc'[d] = pc[d] /\ cast'[d] = cast[d],
         pc'[c] # "hello"
  PROVE  HandlersInv' /\ Served' \subseteq Served
BY DEF HandlersInv, NoOrphans, Served, Members

\* An exception that leaves a handler reaches its finally clause, or comes out
\* of it when the session is gone.
LEMMA HandlersRaise ==
  ASSUME TypeOK, HandlersInv, NEW c \in Conns, pc[c] \notin {"hello", "done"},
         Raise(c), UNCHANGED <<id, claims>>, Members' \subseteq Members
  PROVE  HandlersInv' /\ Wanes
<1>2. \A d \in Conns \ {c} : pc'[d] = pc[d] /\ cast'[d] = cast[d]
  BY DEF Raise, Finish, TypeOK
<1>3. CASE cast[c].msg.kind = "peer_left"
  <2>1. c \notin Members /\ pc'[c] = "done"
    BY <1>3 DEF HandlersInv, NoOrphans, Raise, Finish, TypeOK
  <2>2. QED
    BY <1>2, <2>1 DEF HandlersInv, NoOrphans, Served, Members, Wanes
<1>4. CASE cast[c].msg.kind # "peer_left"
  <2>1. pc'[c] = "closing" /\ cast'[c].msg.kind # "peer_left"
    BY <1>4 DEF Raise, TypeOK, NoCast, About
  <2>2. QED
    BY <1>2, <2>1 DEF HandlersInv, NoOrphans, Served, Members, Wanes
<1>5. QED
  BY <1>3, <1>4

\* What a client does keeps a handler for every session.
LEMMA HandlersClient ==
  ASSUME TypeOK, HandlersInv, NEW c \in Conns, ClientStep(c)
  PROVE  /\ HandlersInv'
         /\ Wanes \/ \E i \in Ids, claimed \in BOOLEAN : Register(c, i, claimed)
<1>1. CASE Reject(c)
  <2>1. Members' = Members /\ UNCHANGED <<id, claims, cast>> /\ pc[c] = "hello"
        /\ pc' = [pc EXCEPT ![c] = "done"]
    BY <1>1 DEF Reject, Finish, Members, dictVars, helloVars
  <2>2. Served' = Served
    BY <2>1 DEF Served, TypeOK
  <2>3. \A d \in Members : pc'[d] = pc[d]
    BY <2>1 DEF HandlersInv, NoOrphans, Members, TypeOK
  <2>4. QED
    BY <2>1, <2>2, <2>3 DEF HandlersInv, NoOrphans, Wanes
<1>2. ASSUME NEW i \in Ids, NEW claimed \in BOOLEAN, Register(c, i, claimed)
      PROVE  HandlersInv'
  <2>1. /\ Members' = Members \cup {c}
        /\ id' = [id EXCEPT ![c] = i]
        /\ pc' = [pc EXCEPT ![c] = "welcome"]
        /\ cast' = cast /\ pc[c] = "hello"
    BY <1>2, RegisterEffect DEF Register
  <2>2. Served' = Served \cup {c}
    BY <2>1 DEF Served, TypeOK
  <2>3. cast[c].msg.kind # "peer_left"
    BY <2>1 DEF HandlersInv, NoOrphans
  <2>4. QED
    BY <2>1, <2>2, <2>3 DEF HandlersInv, NoOrphans, Members, Served, TypeOK
<1>3. ASSUME PlayerState(c)
      PROVE  HandlersInv' /\ Wanes
  BY <1>3, HandlersMessage DEF PlayerState, Reads, About
<1>4. ASSUME NEW w \in World, WorldState(c, w)
      PROVE  HandlersInv' /\ Wanes
  BY <1>4, HandlersMessage DEF WorldState, Reads
<1>5. ASSUME NEW authoritative \in BOOLEAN, CombatEvent(c, authoritative)
      PROVE  HandlersInv' /\ Wanes
  BY <1>5, HandlersMessage DEF CombatEvent, Reads, About
<1>6. CASE ReadFails(c)
  BY <1>6, HandlersRaise DEF ReadFails, Members, helloVars, dictVars
<1>7. QED
  BY <1>1, <1>2, <1>3, <1>4, <1>5, <1>6 DEF ClientStep

\* So does what a handler does by itself: it ends only after it has taken its
\* session out, or has found it taken out.
LEMMA HandlersHandler ==
  ASSUME TypeOK, HandlersInv, NEW c \in Conns, HandlerStep(c)
  PROVE  HandlersInv' /\ (Wanes \/ Unregister(c))
<1>1. ASSUME UNCHANGED <<id, claims, slot, pc>>,
             \A d \in Conns : cast'[d].msg = cast[d].msg
      PROVE  HandlersInv' /\ Wanes
  BY <1>1 DEF HandlersInv, NoOrphans, Served, Members, Wanes
<1>2. ASSUME UNCHANGED <<id, claims, slot>>,
             pc[c] \notin {"hello", "done"}, pc'[c] \notin {"hello", "done"},
             cast'[c].msg.kind \in {cast[c].msg.kind, "peer_joined", "other"},
             \A d \in Conns \ {c} : pc'[d] = pc[d] /\ cast'[d] = cast[d]
      PROVE  HandlersInv' /\ Wanes
  BY <1>2 DEF HandlersInv, NoOrphans, Served, Members, Wanes
<1>3. CASE Welcomed(c)
  <2>1. CASE Raise(c)
    BY <1>3, <2>1, HandlersRaise DEF Welcomed, Members, helloVars, dictVars
  <2>2. CASE pc' = [pc EXCEPT ![c] = "players"] /\ cast' = cast
    BY <1>2, <1>3, <2>2 DEF Welcomed, helloVars, dictVars, TypeOK
  <2>3. QED
    BY <1>3, <2>1, <2>2 DEF Welcomed
<1>4. CASE ReplayFails(c)
  BY <1>4, HandlersRaise DEF ReplayFails, Phases, Members, helloVars, dictVars
<1>5. ASSUME NEW key \in Ids \cup World, ReplayNext(c, key)
      PROVE  HandlersInv' /\ Wanes
  BY <1>1, <1>5 DEF ReplayNext, helloVars, dictVars
<1>6. CASE ReplayEnd(c)
  <2>1. pc[c] \in Phases /\ UNCHANGED <<id, claims, slot>>
    BY <1>6 DEF ReplayEnd, Replaying, helloVars, dictVars
  <2>2. CASE pc[c] = "loots"
    BY <1>2, <1>6, <2>1, <2>2 DEF ReplayEnd, StartCast, About, TypeOK
  <2>3. CASE pc[c] # "loots"
    BY <1>2, <1>6, <2>1, <2>3 DEF ReplayEnd, Phases, TypeOK
  <2>4. QED
    BY <2>2, <2>3
<1>7. CASE CastFails(c)
  BY <1>7, HandlersRaise DEF CastFails, Members, helloVars, dictVars
<1>8. CASE CastNext(c)
  BY <1>1, <1>8 DEF CastNext, helloVars, dictVars, TypeOK
<1>9. CASE CastEnd(c)
  BY <1>2, <1>9 DEF CastEnd, helloVars, dictVars, TypeOK
<1>10. ASSUME NEW i \in Ids, Reap(c, i)
       PROVE  HandlersInv' /\ Wanes
  <2>1. Members' \subseteq Members /\ UNCHANGED <<id, claims, pc>>
        /\ \A d \in Conns : cast'[d].msg = cast[d].msg
    BY <1>10 DEF Reap, Members, helloVars, TypeOK
  <2>2. QED
    BY <2>1 DEF HandlersInv, NoOrphans, Served, Members, Wanes
<1>10a. ASSUME NEW i \in Ids, ReapFails(c, i)
       PROVE  HandlersInv' /\ Wanes
  <2>1. Members' \subseteq Members
    BY <1>10a DEF ReapFails, Members
  <2>2. QED
    BY <1>10a, <2>1, HandlersRaise DEF ReapFails, helloVars
<1>11. CASE ReapEnd(c)
  <2>1. UNCHANGED <<id, claims, slot>> /\ Members' = Members /\ pc[c] = "reap"
        /\ \A d \in Conns \ {c} : pc'[d] = pc[d] /\ cast'[d] = cast[d]
    BY <1>11 DEF ReapEnd, Finish, Members, helloVars, dictVars, TypeOK
  <2>2. CASE cast[c].msg.kind = "peer_left"
    <3>1. c \notin Members' /\ pc'[c] = "done"
      BY <1>11, <2>1, <2>2 DEF ReapEnd, Finish, HandlersInv, TypeOK
    <3>2. QED
      BY <2>1, <3>1, HandlersEnd DEF Wanes
  <2>3. CASE cast[c].msg.kind # "peer_left"
    BY <1>2, <1>11, <2>1, <2>3 DEF ReapEnd, NoCast, About, TypeOK
  <2>4. QED
    BY <2>2, <2>3
<1>12. CASE UnregisterNobody(c)
  <2>1. c \notin Members /\ Members' = Members /\ UNCHANGED <<id, claims, cast>>
        /\ pc[c] = "closing" /\ pc' = [pc EXCEPT ![c] = "done"]
    BY <1>12 DEF UnregisterNobody, Finish, Holder, Members, helloVars, dictVars
  <2>2. QED
    BY <2>1, HandlersEnd DEF Wanes, TypeOK
<1>13. CASE Unregister(c)
  <2>1. c \notin Members' /\ Members' \subseteq Members /\ UNCHANGED <<id, claims>>
        /\ pc[c] = "closing"
    BY <1>13, UnregisterEffect DEF Holder, Unregister
  <2>2. pc'[c] # "hello" /\ \A d \in Conns \ {c} : pc'[d] = pc[d] /\ cast'[d] = cast[d]
    BY <1>13 DEF Unregister, Finish, StartCast, TypeOK
  <2>3. QED
    BY <1>13, <2>1, <2>2, HandlersEnd
<1>14. QED
  BY <1>3, <1>4, <1>5, <1>6, <1>7, <1>8, <1>9, <1>10, <1>11, <1>12, <1>13, <1>10a
     DEF HandlerStep

\* A fault takes sessions and handlers away together.
LEMMA HandlersEnvironment ==
  ASSUME TypeOK, HandlersInv, Environment
  PROVE  HandlersInv' /\ Wanes
<1>1. ASSUME NEW c \in Conns, NEW how \in {"reset", "timedout"}, LoseLink(c, how)
      PROVE  HandlersInv' /\ Wanes
  BY <1>1 DEF LoseLink, handlerVars, helloVars, dictVars, HandlersInv, NoOrphans, Served,
     Members, Wanes
<1>2. CASE Crash
  <2>1. Members' = {} /\ Served' = {} /\ UNCHANGED <<id, claims>>
    BY <1>2 DEF Crash, Members, Served, helloVars
  <2>2. \A d \in Conns : cast'[d].msg.kind # "peer_left"
    BY <1>2 DEF Crash, NoCast, About
  <2>3. QED
    BY <2>1, <2>2 DEF HandlersInv, NoOrphans, Wanes
<1>3. QED
  BY <1>1, <1>2 DEF Environment

\* Every session has its handler.
LEMMA HandlersInvariant == Spec => []HandlersInv
<1>1. Init => HandlersInv
  BY DEF Init, HandlersInv, NoOrphans, Members, Served, NoCast, About
<1>2. ASSUME TypeOK, HandlersInv, [Next]_vars
      PROVE  HandlersInv'
  <2>1. CASE UNCHANGED vars
    BY <1>2, <2>1 DEF vars, handlerVars, helloVars, dictVars, HandlersInv, NoOrphans,
       Served, Members
  <2>2. QED
    BY <1>2, <2>1, HandlersClient, HandlersHandler, HandlersEnvironment DEF Next
<1>3. QED
  BY <1>1, <1>2, TypeCorrect, PTL DEF Spec

\* However a handler ends, by its own client, by the eviction of its session, by
\* a broken link or by a failed farewell, it leaves no session of its own in the
\* room.
THEOREM NoSessionIsOrphaned == Spec => []NoOrphans
<1>1. HandlersInv => NoOrphans
  BY DEF HandlersInv
<1>2. QED
  BY <1>1, HandlersInvariant, PTL

\* A step that changes neither flags nor host and registers nobody keeps the
\* host's mark.
LEMMA MarkKept ==
  ASSUME TypeOK, HostMarked, UNCHANGED <<id, claims, isHost>>, room'.host = room.host,
         Members' \subseteq Members
  PROVE  HostMarked'
BY DEF HostMarked

\* A join and a handover mark whom they name.
LEMMA HostMarkedStep ==
  ASSUME TypeOK, DiskCurrent, RoomInv, HostMarked, [Next]_vars
  PROVE  HostMarked'
<1>1. CASE Undisturbed
  BY <1>1, MarkKept DEF Undisturbed
<1>2. ASSUME NEW c \in Conns, NEW i \in Ids, NEW claimed \in BOOLEAN,
             Register(c, i, claimed)
      PROVE  HostMarked'
  <2>1. c \notin Members /\ i \notin IdsOf(Members)
    BY <1>2 DEF Register, RoomInv
  <2>2. isHost'[c] = (room'.host = i) /\ id'[c] = i
    BY <1>2, RegisterEffect DEF TypeOK
  <2>3. ASSUME NEW m \in Members, id'[m] = room'.host
        PROVE  isHost'[m]
    <3>1. m \in Conns /\ m # c /\ id[m] # i
      BY <2>1, <2>3 DEF IdsOf, Members
    <3>2. isHost'[m] = isHost[m] /\ id'[m] = id[m]
      BY <1>2, <3>1, RegisterEffect DEF TypeOK
    <3>3. room'.host \in {room.host, i}
      BY <1>2, RegisterEffect
    <3>4. QED
      BY <2>3, <3>1, <3>2, <3>3 DEF HostMarked
  <2>4. Members' = Members \cup {c}
    BY <1>2, RegisterEffect
  <2>5. QED
    BY <2>2, <2>3, <2>4 DEF HostMarked
<1>3. ASSUME NEW c \in Conns, Unregister(c)
      PROVE  HostMarked'
  <2>1. CASE room.host = id[c]
    BY <1>3, <2>1, UnregisterEffect DEF HostMarked
  <2>2. CASE room.host # id[c]
    BY <1>3, <2>2, UnregisterEffect, MarkKept
  <2>3. QED
    BY <2>1, <2>2
<1>4. CASE Environment
  BY <1>4, HostEnvironment, MarkKept
<1>5. CASE UNCHANGED vars
  BY <1>1, <1>5 DEF vars, handlerVars, helloVars, dictVars, Undisturbed, Members
<1>6. QED
  BY <1>1, <1>2, <1>3, <1>4, <1>5, UndisturbedClient, UndisturbedHandler DEF Next

\* The player that host_session_id names is never refused as a writer while it
\* is registered, under every configuration and every fault.
THEOREM HostIsMarked == Spec => []HostMarked
<1>1. Init => HostMarked
  BY DEF Init, HostMarked, Members
<1>2. TypeOK /\ DiskCurrent /\ RoomInv /\ HostMarked /\ [Next]_vars => HostMarked'
  BY HostMarkedStep
<1>3. QED
  BY <1>1, <1>2, TypeCorrect, DiskIsCurrent, RoomInvInvariant, PTL DEF Spec

-----------------------------------------------------------------------------
(* The relay implements DurableRoom.                                       *)

Present == IdsOf(Members)
Claimants == IdsOf({c \in Members : claims[c]})
Heard == IdsOf(Served)
Writers == IdsOf({c \in Served : isHost[c]})

\* The room of ids is never fuller than that of sessions.
LEMMA PresentBounded ==
  ASSUME TypeOK
  PROVE  Cardinality(Present) <= Cardinality(Members) /\ Cardinality(Present) \in Nat
<1> DEFINE f == [c \in Members |-> id[c]]
<1>1. f \in Surjection(Members, Present)
  BY DEF Surjection, Present, IdsOf
<1>2. IsFiniteSet(Members)
  BY Sizes
<1>3. QED
  <2> HIDE DEF f
  <2>1. IsFiniteSet(Present) /\ Cardinality(Present) <= Cardinality(Members)
    BY <1>1, <1>2, FS_Surjection
  <2>2. QED
    BY <2>1, FS_CardinalityType

\* DurableRoom counts as Relay does.
LEMMA SameCount == \A S : Durable!Cardinality(S) = Cardinality(S)
BY DEF Durable!Cardinality, Cardinality

\* Everything known of the relay under faults.
FaultsInv ==
  /\ TypeOK
  /\ DiskCurrent
  /\ RoomInv
  /\ HandlersInv
  /\ HostMarked

\* FaultsInv is an invariant.
LEMMA FaultsInvariant == Spec => []FaultsInv
BY TypeCorrect, DiskIsCurrent, RoomInvInvariant, HandlersInvariant, HostIsMarked, PTL
   DEF FaultsInv

\* Who stays in the room is served, and the host among them is marked.
Attended ==
  /\ Present \subseteq Heard
  /\ Writers \subseteq Heard
  /\ room.host \in Present => room.host \in Writers

LEMMA StaysServed == FaultsInv => Attended
<1> SUFFICES ASSUME FaultsInv
             PROVE  Attended
  OBVIOUS
<1>1. Members \subseteq Served
  BY DEF FaultsInv, HandlersInv, NoOrphans, Members, Served
<1>2. \A c \in Members : id[c] = room.host => c \in Served /\ isHost[c]
  BY <1>1 DEF FaultsInv, HostMarked
<1>3. QED
  BY <1>1, <1>2 DEF Attended, Present, Heard, Writers, IdsOf

\* The same after a step.
LEMMA StaysServedNext == FaultsInv' => Attended'
BY StaysServed, PTL

\* A step that ends connections of players not in the room, or changes nothing
\* that players can tell, is a HangUp.
LEMMA EndIsHangUp ==
  ASSUME FaultsInv, FaultsInv', Wanes, Members' = Members, UNCHANGED <<isHost, room>>
  PROVE  Durable!HangUp
<1>1. /\ Present' \subseteq Heard' /\ Writers' \subseteq Heard'
      /\ room'.host \in Present' => room'.host \in Writers'
  BY StaysServedNext DEF Attended
<1>2. /\ Present' = Present /\ Claimants' = Claimants
      /\ Heard' \subseteq Heard /\ Writers' \subseteq Writers
  BY DEF Wanes, Present, Claimants, Heard, Writers, IdsOf
<1>3. QED
  BY <1>1, <1>2 DEF Durable!HangUp, Durable!Stays, Present, Claimants, Heard, Writers

\* An accepted hello is a Join.
LEMMA RegisterJoins ==
  ASSUME FaultsInv, FaultsInv', NEW c \in Conns, NEW i \in Ids, NEW claimed \in BOOLEAN,
         Register(c, i, claimed)
  PROVE  Durable!Join(i, claimed)
<1> USE DEF FaultsInv
<1>1. /\ Members' = Members \cup {c}
      /\ id' = [id EXCEPT ![c] = i]
      /\ claims' = [claims EXCEPT ![c] = claimed]
      /\ isHost' = [isHost EXCEPT ![c] = (room'.host = i)]
      /\ pc' = [pc EXCEPT ![c] = "welcome"]
      /\ pc[c] = "hello"
  BY RegisterEffect DEF Register
<1>2. c \notin Members /\ c \notin Served /\ i \notin Present
  BY <1>1 DEF Register, RoomInv, Present, Served
<1>3. /\ \A d \in Members : d \in Conns /\ d # c /\ id'[d] = id[d] /\ claims'[d] = claims[d]
      /\ \A d \in Served : d \in Conns /\ d # c /\ id'[d] = id[d] /\ isHost'[d] = isHost[d]
  BY <1>1, <1>2 DEF Members, Served, TypeOK
<1>4. id'[c] = i /\ claims'[c] = claimed /\ isHost'[c] = (room'.host = i)
  BY <1>1 DEF TypeOK
<1>5. Served' = Served \cup {c}
  BY <1>1 DEF Served, TypeOK
<1>6. Present' = Present \cup {i} /\ Heard' = Heard \cup {i}
  BY <1>1, <1>3, <1>4, <1>5 DEF Present, Heard, IdsOf
<1>7. Claimants' = IF claimed THEN Claimants \cup {i} ELSE Claimants
  BY <1>1, <1>3, <1>4 DEF Claimants, IdsOf
<1>8. Writers' = IF room'.host = i THEN Writers \cup {i} ELSE Writers
  <2>1. {d \in Served' : isHost'[d]} = IF room'.host = i THEN {d \in Served : isHost[d]} \cup {c}
                                       ELSE {d \in Served : isHost[d]}
    BY <1>2, <1>3, <1>4, <1>5
  <2>2. QED
    BY <2>1, <1>3, <1>4 DEF Writers, IdsOf
<1>9. Cardinality(Present) < RoomCapacity
  <2>1. Cardinality(Members) < RoomCapacity /\ Cardinality(Members) \in Nat
    BY Sizes DEF Register, HasPlace
  <2>2. QED
    BY <2>1, PresentBounded, RelayAssumption DEF RelayAssumption
<1>10. room'.host = IF i = HostPlayerId \/ (room.host = NoId /\ claimed) THEN i ELSE room.host
  BY RegisterEffect
<1>11. room'.players = room.players /\ room'.world = room.world
  BY DEF Register, TypeOK, RoomState
<1>12. QED
  BY <1>2, <1>6, <1>7, <1>8, <1>9, <1>10, <1>11, SameCount
     DEF Durable!Join, Present, Heard, Claimants, Writers

\* What _unregister_client takes out is the session that has the player's id.
LEMMA DepartureOfOne ==
  ASSUME FaultsInv, NEW c \in Conns, Unregister(c)
  PROVE  /\ id[c] \in Present /\ id[c] \in Ids
         /\ Present' = Present \ {id[c]}
         /\ Claimants' = Claimants \ {id[c]}
         /\ Claimants' = IdsOf({m \in Members' : claims[m]})
         /\ Present' = IdsOf(Members')
<1> USE DEF FaultsInv
<1>1. Members' = Members \ Holder(c) /\ UNCHANGED <<id, claims>> /\ Holder(c) # {}
  BY UnregisterEffect DEF Unregister
<1>2. \A d \in Members : id[d] # id[c] <=> d \in Members'
  BY <1>1 DEF Holder
<1>3. id[c] \in Present /\ id[c] \in Ids
  BY <1>1 DEF Holder, Present, IdsOf, RoomInv
<1>4. Present' = Present \ {id[c]} /\ Present' = IdsOf(Members')
  BY <1>1, <1>2 DEF Present, IdsOf
<1>5. Claimants' = Claimants \ {id[c]} /\ Claimants' = IdsOf({m \in Members' : claims[m]})
  BY <1>1, <1>2 DEF Claimants, IdsOf
<1>6. QED
  BY <1>3, <1>4, <1>5

\* _choose_next_host chooses among those who remain.
LEMMA SuccessorRemains ==
  ASSUME FaultsInv, NEW S \in SUBSET Members
  PROVE  LET claimants == IdsOf({m \in S : claims[m]}) IN
         /\ HostPlayerId \in IdsOf(S) => NextHost(S) = HostPlayerId
         /\ HostPlayerId \notin IdsOf(S) /\ claimants # {} => NextHost(S) \in claimants
         /\ HostPlayerId \notin IdsOf(S) /\ claimants = {} => NextHost(S) = NoId
<1> DEFINE hosts == {m \in S : claims[m]}
<1>1. hosts # {} => First(hosts) \in hosts
  <2>1. hosts \in SUBSET Conns
    BY DEF Members
  <2>2. QED
    <3> HIDE DEF hosts
    <3> QED BY <2>1, FirstIsMember DEF FaultsInv
<1>2. QED
  BY <1>1 DEF NextHost, IdsOf

\* A departure is a Leave.
LEMMA UnregisterLeaves ==
  ASSUME FaultsInv, FaultsInv', NEW c \in Conns, Unregister(c)
  PROVE  Durable!Leave(id[c])
<1> USE DEF FaultsInv
<1> DEFINE i == id[c]
<1>1. /\ UNCHANGED <<id, claims>>
      /\ Members' \subseteq Members
      /\ room'.host = IF room.host = i THEN NextHost(Members') ELSE room.host
      /\ room.host # i => isHost' = isHost
  BY UnregisterEffect
<1>2. room'.players = room.players \ {i} /\ room'.world = room.world
  BY DEF Unregister, TypeOK, RoomState
<1>3. IF room.host = i THEN \/ HostPlayerId \in Present' /\ room'.host = HostPlayerId
                            \/ HostPlayerId \notin Present' /\ room'.host \in Claimants'
                            \/ HostPlayerId \notin Present' /\ Claimants' = {} /\ room'.host = NoId
      ELSE room'.host = room.host
  <2>1. CASE room.host = i
    <3>1. PICK S \in SUBSET Members : S = Members'
      BY <1>1
    <3>2. room'.host = NextHost(S)
      BY <1>1, <2>1, <3>1
    <3>3. Present' = IdsOf(S) /\ Claimants' = IdsOf({m \in S : claims[m]})
      BY <3>1, DepartureOfOne
    <3>4. QED
      BY <2>1, <3>1, <3>2, <3>3, SuccessorRemains
  <2>2. QED
    BY <1>1, <2>1
<1>4. Served' \subseteq Served
  BY DEF Unregister, Finish, StartCast, Served, TypeOK
<1>5. Heard' \subseteq Heard
  BY <1>1, <1>4 DEF Heard, IdsOf
<1>6. Writers' \subseteq Writers \cup {room'.host}
  <2>1. \A d \in Conns : isHost'[d] => isHost[d] \/ id[d] = room'.host
    <3>1. CASE room.host = i
      <4>1. isHost' = HandOver(Members \ Holder(c), room'.host)
        BY <3>1 DEF Unregister
      <4>2. QED
        BY <4>1, Zenon DEF HandOver
    <3>2. QED
      BY <1>1, <3>1
  <2>2. QED
    BY <1>1, <1>4, <2>1 DEF Writers, IdsOf, Served
<1>7. Attended'
  BY StaysServedNext
<1>8. i \in Present /\ Present' = Present \ {i} /\ Claimants' = Claimants \ {i}
  BY DepartureOfOne
<1>9. QED
  BY <1>2, <1>3, <1>5, <1>6, <1>7, <1>8
     DEF Durable!Leave, Durable!Succeeds, Durable!Stays, Attended, Present, Heard, Claimants, Writers

\* A message of a client changes nothing but what the room stores.
LEMMA MessageKeepsPlayers ==
  ASSUME TypeOK, NEW c \in Conns, NEW m, pc[c] = "reading", RelayMessage(c, m)
  PROVE  Present' = Present /\ Claimants' = Claimants /\ Heard' = Heard /\ Writers' = Writers
<1>1. Members' = Members /\ UNCHANGED <<id, claims, isHost>>
  BY DEF RelayMessage, Members, helloVars, dictVars
<1>2. Served' = Served
  BY DEF RelayMessage, StartCast, Served, TypeOK
<1>3. QED
  BY <1>1, <1>2 DEF Present, Claimants, Heard, Writers, IdsOf

\* A client joins, appears, publishes, or does what the room does not notice.
LEMMA ClientIsDurable ==
  ASSUME FaultsInv, FaultsInv', NEW c \in Conns, ClientStep(c)
  PROVE  Durable!Next
<1> USE DEF FaultsInv
<1>1. ASSUME Wanes, Members' = Members, UNCHANGED <<isHost, room>>
      PROVE  Durable!Next
  BY <1>1, EndIsHangUp DEF Durable!Next
<1>2. ASSUME NEW i \in Ids, NEW claimed \in BOOLEAN, Register(c, i, claimed)
      PROVE  Durable!Next
  BY <1>2, RegisterJoins DEF Durable!Next
<1>3. CASE PlayerState(c)
  <2>1. id[c] \in Ids /\ id[c] \in Heard /\ pc[c] = "reading"
    BY <1>3 DEF PlayerState, Reads, HandlersInv, Served, Heard, IdsOf
  <2>2. room'.players = room.players \cup {id[c]} /\ room'.host = room.host
        /\ room'.world = room.world
    BY <1>3 DEF PlayerState, TypeOK, RoomState
  <2>3. Present' = Present /\ Claimants' = Claimants /\ Heard' = Heard /\ Writers' = Writers
    BY <1>3, <2>1, MessageKeepsPlayers DEF PlayerState
  <2>4. Durable!Appear(id[c])
    BY <2>1, <2>2, <2>3 DEF Durable!Appear, Present, Claimants, Heard, Writers
  <2>5. QED
    BY <2>1, <2>4 DEF Durable!Next
<1>4. ASSUME NEW w \in World, WorldState(c, w)
      PROVE  Durable!Next
  <2>1. /\ room'.world = [room.world EXCEPT ![w] = @ + 1]
        /\ room'.host = room.host /\ room'.players = room.players
        /\ room.world[w] < MaxVersion
    BY <1>4 DEF WorldState, TypeOK, RoomState
  <2>2. pc[c] = "reading" /\ c \in Served
    BY <1>4 DEF WorldState, Reads, Served
  <2>3. RequireHost => Writers # {}
    BY <1>4, <2>2 DEF WorldState, MayWriteWorld, Writers, IdsOf
  <2>4. Present' = Present /\ Claimants' = Claimants /\ Heard' = Heard /\ Writers' = Writers
    BY <1>4, <2>2, MessageKeepsPlayers DEF WorldState
  <2>5. Durable!Publish(w)
    BY <2>1, <2>3, <2>4 DEF Durable!Publish, Present, Claimants, Heard, Writers
  <2>6. QED
    BY <2>5 DEF Durable!Next
<1>5. CASE Reject(c) \/ (\E authoritative \in BOOLEAN : CombatEvent(c, authoritative))
           \/ ReadFails(c)
  <2>1. Members' = Members /\ UNCHANGED <<id, claims, isHost, room>>
    BY <1>5 DEF Reject, CombatEvent, ReadFails, RelayMessage, Members, helloVars, dictVars
  <2>2. Served' \subseteq Served
    BY <1>5 DEF Reject, CombatEvent, Reads, ReadFails, RelayMessage, StartCast, Raise, Finish,
       Served, TypeOK
  <2>3. QED
    BY <1>1, <2>1, <2>2 DEF Wanes
<1>6. QED
  BY <1>2, <1>3, <1>4, <1>5 DEF ClientStep

\* Of a handler's own steps the room notices departures and evictions.
LEMMA HandlerIsDurable ==
  ASSUME FaultsInv, FaultsInv', NEW c \in Conns, HandlerStep(c)
  PROVE  Durable!Next
<1> USE DEF FaultsInv
<1>1. CASE Unregister(c)
  BY <1>1, DepartureOfOne, UnregisterLeaves DEF Durable!Next
<1>2. ASSUME NEW i \in Ids, Reap(c, i) \/ ReapFails(c, i)
      PROVE  Durable!Next
  <2>1. /\ Members' = Members \ Stale(c, i)
        /\ UNCHANGED <<id, claims, isHost, room>>
    BY <1>2 DEF Reap, ReapFails, Members, Stale, helloVars, TypeOK
  <2>2. Served' \subseteq Served
    BY <1>2, HandlersHandler DEF Wanes, Reap, ReapFails, Unregister
  <2>3. Heard' \subseteq Heard /\ Writers' \subseteq Writers
    BY <2>1, <2>2 DEF Heard, Writers, IdsOf
  <2>4. CASE cast[c].epoch = epoch
    <3>1. Present' = Present \ {i} /\ Claimants' = Claimants \ {i}
      BY <2>1, <2>4 DEF Present, Claimants, IdsOf, Stale
    <3>2. Attended'
      BY StaysServedNext
    <3>3. Durable!Drop(i)
      BY <2>1, <2>3, <3>1, <3>2 DEF Durable!Drop, Durable!Stays, Attended, Present, Claimants,
         Heard, Writers
    <3>4. QED
      BY <3>3 DEF Durable!Next
  <2>5. CASE cast[c].epoch # epoch
    <3>1. Members' = Members
      BY <2>1, <2>5 DEF Stale
    <3>2. QED
      BY <2>1, <2>2, <3>1, EndIsHangUp DEF Wanes, Durable!Next
  <2>6. QED
    BY <2>4, <2>5
<1>3. ASSUME ~ Unregister(c), ~ \E i \in Ids : Reap(c, i) \/ ReapFails(c, i)
      PROVE  Durable!Next
  <2>1. UNCHANGED <<slot, isHost, room>>
    BY <1>3 DEF HandlerStep, Welcomed, ReplayFails, ReplayNext, ReplayEnd, CastFails, CastNext,
       CastEnd, ReapEnd, UnregisterNobody, dictVars
  <2>2. Wanes /\ Members' = Members
    BY <1>3, <2>1, HandlersHandler DEF Members
  <2>3. QED
    BY <2>1, <2>2, EndIsHangUp DEF Durable!Next
<1>4. QED
  BY <1>1, <1>2, <1>3

\* A broken link is not noticed, and a restart is a Restart.
LEMMA FaultIsDurable ==
  ASSUME FaultsInv, FaultsInv', Environment
  PROVE  Durable!Next
<1> USE DEF FaultsInv
<1>1. ASSUME NEW c \in Conns, NEW how \in {"reset", "timedout"}, LoseLink(c, how)
      PROVE  Durable!Next
  <2>1. Wanes /\ Members' = Members /\ UNCHANGED <<isHost, room>>
    BY <1>1 DEF LoseLink, handlerVars, helloVars, dictVars, Served, Members, Wanes
  <2>2. QED
    BY <2>1, EndIsHangUp DEF Durable!Next
<1>2. CASE Crash
  <2>1. Members' = {} /\ Served' = {} /\ room' = room
    BY <1>2 DEF Crash, Members, Served, DiskCurrent
  <2>2. Present' = {} /\ Claimants' = {} /\ Heard' = {} /\ Writers' = {}
    BY <2>1 DEF Present, Claimants, Heard, Writers, IdsOf
  <2>3. Durable!Restart
    BY <2>1, <2>2 DEF Durable!Restart, Present, Claimants, Heard, Writers
  <2>4. QED
    BY <2>3 DEF Durable!Next
<1>3. QED
  BY <1>1, <1>2 DEF Environment

\* Whatever fails and however the relay is configured, players only join, leave,
\* are dropped, appear, publish or find the room again after a restart.
THEOREM RelaySurvivesFaults == Spec => SurvivesFaults
<1>1. Init => Durable!Init
  BY DEF Init, Durable!Init, Members, Served, IdsOf, EmptyRoom, NoWorld
<1>2. FaultsInv /\ FaultsInv' /\ [Next]_vars => [Durable!Next]_Durable!vars
  <2> SUFFICES ASSUME FaultsInv, FaultsInv', [Next]_vars
               PROVE  Durable!Next \/ UNCHANGED Durable!vars
    OBVIOUS
  <2>1. CASE UNCHANGED vars
    BY <2>1 DEF vars, handlerVars, helloVars, dictVars, Members, Served, IdsOf, Durable!vars
  <2>2. QED
    BY <2>1, ClientIsDurable, HandlerIsDurable, FaultIsDurable DEF Next
<1>3. QED
  BY <1>1, <1>2, FaultsInvariant, PTL DEF Spec, SurvivesFaults, Durable!Spec

-----------------------------------------------------------------------------
(* What DurableRoom promises, the relay keeps.                             *)

Kept == INSTANCE DurableRoomProofs WITH
  served    <- IdsOf(Served),
  present   <- IdsOf(Members),
  claimants <- IdsOf({c \in Members : claims[c]}),
  writers   <- IdsOf({c \in Served : isHost[c]}),
  host      <- room.host,
  players   <- room.players,
  world     <- room.world

\* The two instances are of one module.
LEMMA SameRoom ==
  /\ Durable!Init => Kept!Init
  /\ [Durable!Next]_Durable!vars => [Kept!Next]_Kept!vars
<1>1. Durable!Init => Kept!Init
  BY DEF Durable!Init, Kept!Init
<1>2. [Durable!Next]_Durable!vars => [Kept!Next]_Kept!vars
  <2>1. ASSUME NEW i, NEW claimed, Durable!Join(i, claimed)
        PROVE  Kept!Join(i, claimed)
    BY <2>1 DEF Durable!Join, Kept!Join, Durable!Cardinality, Kept!Cardinality
  <2>2. ASSUME NEW i, Durable!Leave(i)
        PROVE  Kept!Leave(i)
    BY <2>2 DEF Durable!Leave, Kept!Leave, Durable!Succeeds, Kept!Succeeds,
                Durable!Stays, Kept!Stays
  <2>3. ASSUME Durable!HangUp
        PROVE  Kept!HangUp
    BY <2>3 DEF Durable!HangUp, Kept!HangUp, Durable!Stays, Kept!Stays
  <2>5. ASSUME NEW i, Durable!Drop(i)
        PROVE  Kept!Drop(i)
    BY <2>5 DEF Durable!Drop, Kept!Drop, Durable!Stays, Kept!Stays
  <2>4. QED
    BY <2>1, <2>2, <2>3, <2>5 DEF Durable!Next, Kept!Next, Durable!vars, Kept!vars,
      Durable!Appear, Kept!Appear,
      Durable!Publish, Kept!Publish, Durable!Restart, Kept!Restart
<1>3. QED
  BY <1>1, <1>2

\* The relay takes no update back, not even over a restart; only a departure or
\* the configured player takes the role of a host from it; and no session gets
\* the right to write but that of a host.
THEOREM FaultsTakeNothingBack ==
  Spec => Kept!NeverBack /\ Kept!HostStays /\ Kept!OnlyHostsWrite
<1>1. Kept!Sensible
  BY RelayAssumption DEF RelayAssumption, Kept!Sensible
<1>2. SurvivesFaults => Kept!Spec
  BY SameRoom, PTL DEF SurvivesFaults, Durable!Spec, Kept!Spec
<1>3. Kept!Spec => Kept!NeverBack /\ Kept!HostStays /\ Kept!OnlyHostsWrite
  BY <1>1, Kept!WorldGoesForward, Kept!HostIsKept, Kept!WritersWereHosts
<1>4. QED
  BY <1>2, <1>3, RelaySurvivesFaults

=============================================================================
