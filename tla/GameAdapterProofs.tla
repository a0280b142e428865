-------------------------- MODULE GameAdapterProofs --------------------------
(***************************************************************************)
(* Proofs about GameAdapter, for any peers, quests, loot ids and cells,    *)
(* any staleness limit and any bounds.                                     *)
(*                                                                         *)
(* What a step may do to the stand-in of one peer is small, whatever the   *)
(* action: ProxyStep lists it, and the invariants about stand-ins follow   *)
(* from the list alone.                                                    *)
(***************************************************************************)
EXTENDS GameAdapter, TLAPS

Actor == [cell : Cells, enabled : BOOLEAN, found : BOOLEAN]

\* The parts of the type invariant.
ProxyTypes ==
  /\ here \in Cells \cup {NoCell, NoPlayer}
  /\ now \in 0..MaxClock
  /\ proxies \in [Peers -> Proxy \cup {NoProxy}]
  /\ actors \in [Peers -> Seq(Actor)]
  /\ \A p \in Peers : proxies[p] # NoProxy => proxies[p].ref <= Len(actors[p])

GateTypes ==
  /\ questStage \in [Quests -> -1..MaxStage]
  /\ questTime \in [Quests -> -1..MaxClock]
  /\ stage \in [Quests -> 0..MaxStage]
  /\ lootTime \in [Loots -> -1..MaxClock]
  /\ items \in [Loots -> [0..MaxClock -> Nat]]
  /\ drawn \in BOOLEAN

\* What one step may do to the stand-in of p.
Kept(p)    == proxies'[p] = proxies[p] /\ actors'[p] = actors[p]
Retold(p)  == /\ actors'[p] = actors[p]
              /\ proxies[p] # NoProxy /\ proxies'[p] \in Proxy
              /\ proxies'[p].ref = proxies[p].ref
Emptied(p) == actors'[p] = actors[p] /\ proxies'[p] \in Proxy /\ proxies'[p].ref = 0
Laid(p)    == /\ actors'[p] = Parked(p)
              /\ \/ proxies'[p] = NoProxy
                 \/ proxies'[p] \in Proxy /\ proxies'[p].ref = 0
Placed(p)  == /\ InWorld
              /\ proxies'[p] \in Proxy
              /\ \/ /\ actors'[p] = Spawned(p, TRUE)
                    /\ proxies'[p].ref = Len(actors[p]) + 1
                 \/ /\ actors'[p] = Spawned(p, FALSE)
                    /\ proxies'[p].ref = 0

ProxyStep(p) == Kept(p) \/ Retold(p) \/ Emptied(p) \/ Laid(p) \/ Placed(p)

\* A step of the stand-ins as a whole.
ProxiesStep ==
  /\ proxies' \in [Peers -> Proxy \cup {NoProxy}]
  /\ DOMAIN actors' = Peers /\ actors' = [p \in Peers |-> actors'[p]]
  /\ \A p \in Peers : ProxyStep(p)

-----------------------------------------------------------------------------

\* A proxy is a record of the three fields, and not NoProxy.
LEMMA ProxyFields ==
  ASSUME NEW r \in Proxy
  PROVE  /\ r.ref \in 0..MaxSpawns /\ r.cell \in Names /\ r.time \in 0..MaxClock
         /\ r.ref \in Nat /\ r.time \in Nat
         /\ r # NoProxy
<1>1. r.ref \in 0..MaxSpawns /\ r.cell \in Names /\ r.time \in 0..MaxClock
  BY DEF Proxy
<1>2. 0..MaxSpawns \subseteq Nat /\ 0..MaxClock \subseteq Nat
  BY GameAdapterAssumption
<1>3. r \in [ref : Nat, cell : Names, time : Nat]
  BY <1>2 DEF Proxy
<1>4. NoProxy \notin [ref : Nat, cell : Names, time : Nat]
  BY GameAdapterAssumption
<1> QED BY <1>1, <1>2, <1>3, <1>4

\* Parking changes no length, and disables at most the actor referred to.
LEMMA ParkedShape ==
  ASSUME ProxyTypes, NEW p \in Peers
  PROVE  /\ Parked(p) \in Seq(Actor)
         /\ Len(Parked(p)) = Len(actors[p])
<1> DEFINE ref == IF proxies[p] = NoProxy THEN 0 ELSE proxies[p].ref
           a(n) == IF n = ref THEN [actors[p][n] EXCEPT !.enabled = FALSE] ELSE actors[p][n]
<1>1. actors[p] \in Seq(Actor)
  BY DEF ProxyTypes
<1>2. DOMAIN actors[p] = 1..Len(actors[p]) /\ Len(actors[p]) \in Nat
  BY <1>1
<1>3. ASSUME NEW n \in 1..Len(actors[p]) PROVE a(n) \in Actor
  <2>1. actors[p][n] \in Actor
    BY <1>1, <1>2
  <2> QED BY <2>1 DEF Actor
<1>4. Parked(p) = [n \in 1..Len(actors[p]) |-> a(n)]
  BY <1>2 DEF Parked
<1> HIDE DEF a
<1>5. [n \in 1..Len(actors[p]) |-> a(n)] \in Seq(Actor)
  BY <1>2, <1>3
<1> QED BY <1>2, <1>4, <1>5

\* Placing adds one enabled actor, in the player's cell.
LEMMA SpawnedShape ==
  ASSUME ProxyTypes, InWorld, NEW p \in Peers,
         NEW after, after = Spawned(p, TRUE) \/ after = Spawned(p, FALSE)
  PROVE  /\ after \in Seq(Actor)
         /\ Len(after) = Len(actors[p]) + 1
         /\ after[Len(actors[p]) + 1].cell = here
         /\ after[Len(actors[p]) + 1].enabled
<1>1. actors[p] \in Seq(Actor)
  BY DEF ProxyTypes
<1>2. ASSUME NEW a \in Actor, a.cell = here, a.enabled, after = Append(actors[p], a)
      PROVE  /\ after \in Seq(Actor)
             /\ Len(after) = Len(actors[p]) + 1
             /\ after[Len(actors[p]) + 1].cell = here
             /\ after[Len(actors[p]) + 1].enabled
  BY <1>1, <1>2
<1>3. /\ [cell |-> here, enabled |-> TRUE, found |-> TRUE] \in Actor
      /\ [cell |-> here, enabled |-> TRUE, found |-> FALSE] \in Actor
  BY DEF Actor, InWorld
<1> QED BY <1>2, <1>3 DEF Spawned

-----------------------------------------------------------------------------
(* Every action makes a ProxiesStep.                                       *)

\* ApplyRemotePlayerState changes the stand-in of the sender, to one that is
\* laid off, kept, placed or left without an actor.
LEMMA ApplyIsProxiesStep ==
  ASSUME ProxyTypes, NEW s \in PlayerStates, ApplyRemotePlayerState(s)
  PROVE  ProxiesStep
<1> DEFINE p == s.sender
           ref == IF proxies[p] = NoProxy THEN 0 ELSE proxies[p].ref
           Target(r) == [proxies EXCEPT ![p] = [ref |-> r, cell |-> s.cell, time |-> s.time]]
<1>0. /\ p \in Peers /\ s.cell \in Names /\ s.time \in 0..MaxClock
      /\ proxies \in [Peers -> Proxy \cup {NoProxy}]
      /\ actors \in [Peers -> Seq(Actor)]
  BY DEF PlayerStates, ProxyTypes
<1>1. \A q \in Peers : proxies[q] # NoProxy =>
        proxies[q] \in Proxy /\ proxies[q].time \in Nat /\ proxies[q].ref \in 0..MaxSpawns
  BY <1>0, ProxyFields
<1>2. ASSUME NEW r \in 0..MaxSpawns, proxies' = Target(r)
      PROVE  /\ proxies' \in [Peers -> Proxy \cup {NoProxy}]
             /\ proxies'[p] \in Proxy /\ proxies'[p].ref = r
             /\ \A q \in Peers \ {p} : proxies'[q] = proxies[q]
  <2>1. [ref |-> r, cell |-> s.cell, time |-> s.time] \in Proxy
    BY <1>0 DEF Proxy
  <2> QED BY <1>0, <1>2, <2>1
<1>3. ref \in 0..MaxSpawns /\ 0 \in 0..MaxSpawns
  BY <1>0, <1>1, GameAdapterAssumption
<1>4. CASE UNCHANGED proxyVars
  <2>1. proxies' = proxies /\ actors' = actors
    BY <1>4 DEF proxyVars
  <2>2. \A q \in Peers : Kept(q)
    BY <2>1 DEF Kept
  <2> QED BY <1>0, <2>1, <2>2 DEF ProxiesStep, ProxyStep
<1>5. CASE /\ proxies' = Target(0)
           /\ actors' = [actors EXCEPT ![p] = Parked(p)]
  <2>1. Laid(p) /\ \A q \in Peers \ {p} : Kept(q)
    BY <1>0, <1>2, <1>3, <1>5 DEF Laid, Kept
  <2> QED BY <1>0, <1>2, <1>3, <1>5, <2>1 DEF ProxiesStep, ProxyStep
<1>6. CASE ~NeedsActor(p, ref) /\ proxies' = Target(ref) /\ UNCHANGED actors
  <2>1. proxies[p] # NoProxy
    BY <1>6 DEF NeedsActor
  <2>2. Retold(p) /\ \A q \in Peers \ {p} : Kept(q)
    BY <1>0, <1>2, <1>3, <1>6, <2>1 DEF Retold, Kept
  <2> QED BY <1>0, <1>2, <1>3, <1>6, <2>2 DEF ProxiesStep, ProxyStep
<1>7. CASE /\ InWorld /\ CanSpawn(p)
           /\ proxies' = Target(Len(actors[p]) + 1)
           /\ actors' = [actors EXCEPT ![p] = Spawned(p, TRUE)]
  <2>1. Len(actors[p]) + 1 \in 0..MaxSpawns
    <3>1. Len(actors[p]) \in Nat
      BY <1>0
    <3> QED BY <1>7, <3>1, GameAdapterAssumption DEF CanSpawn
  <2>2. Placed(p) /\ \A q \in Peers \ {p} : Kept(q)
    BY <1>0, <1>2, <1>7, <2>1 DEF Placed, Kept
  <2> QED BY <1>0, <1>2, <1>7, <2>1, <2>2 DEF ProxiesStep, ProxyStep
<1>9. CASE InWorld /\ proxies' = Target(0) /\ actors' = [actors EXCEPT ![p] = Spawned(p, FALSE)]
  <2>1. Placed(p) /\ \A q \in Peers \ {p} : Kept(q)
    BY <1>0, <1>2, <1>3, <1>9 DEF Placed, Kept
  <2> QED BY <1>0, <1>2, <1>3, <1>9, <2>1 DEF ProxiesStep, ProxyStep
<1>8. CASE proxies' = Target(0) /\ UNCHANGED actors
  <2>1. Emptied(p) /\ \A q \in Peers \ {p} : Kept(q)
    BY <1>0, <1>2, <1>3, <1>8 DEF Emptied, Kept
  <2> QED BY <1>0, <1>2, <1>3, <1>8, <2>1 DEF ProxiesStep, ProxyStep
<1> QED BY <1>4, <1>5, <1>6, <1>7, <1>8, <1>9 DEF ApplyRemotePlayerState, ParkedRef

\* What StandsHere says of p after a step.
Stands(p) ==
  proxies'[p] # NoProxy =>
    /\ now - proxies'[p].time <= StaleAfter
    /\ proxies'[p].ref # 0 =>
         /\ IsHere(proxies'[p].cell)
         /\ actors'[p][proxies'[p].ref].cell = here

\* Update lays off, places or keeps the stand-in of each peer, keeps what was
\* last reported of it, and leaves only what stands here.
LEMMA UpdateIsProxiesStep ==
  ASSUME ProxyTypes, Update
  PROVE  /\ ProxiesStep
         /\ InWorld => \A p \in Peers : Stands(p)
<1>0. /\ proxies \in [Peers -> Proxy \cup {NoProxy}]
      /\ actors \in [Peers -> Seq(Actor)]
  BY DEF ProxyTypes
<1>1. CASE ~InWorld
  <2>1. proxies' = proxies /\ actors' = actors
    BY <1>1 DEF Update, proxyVars
  <2> QED BY <1>0, <1>1, <2>1 DEF ProxiesStep, ProxyStep, Kept
<1>2. CASE InWorld
  <2> DEFINE known   == {p \in Peers : proxies[p] # NoProxy}
             stale   == {p \in known : Expired(p)}
             absent  == {p \in known \ stale : ~IsHere(proxies[p].cell)}
             missing == {p \in known \ (stale \cup absent) : NeedsActor(p, proxies[p].ref)}
  <2>0. PICK placed \in SUBSET {p \in missing : CanSpawn(p)} : \E f \in SUBSET placed :
          /\ proxies' = [p \in Peers |->
               CASE p \in stale   -> NoProxy
                 [] p \in absent  -> [proxies[p] EXCEPT !.ref = 0]
                 [] p \in f       -> [proxies[p] EXCEPT !.ref = Len(actors[p]) + 1]
                 [] p \in missing \ f -> [proxies[p] EXCEPT !.ref = 0]
                 [] OTHER         -> proxies[p]]
          /\ actors' = [p \in Peers |->
               CASE p \in stale \cup absent -> Parked(p)
                 [] p \in placed            -> Spawned(p, p \in f)
                 [] OTHER                   -> actors[p]]
    BY <1>2 DEF Update, ParkedRef
  <2>1. PICK found \in SUBSET placed :
          /\ proxies' = [p \in Peers |->
               CASE p \in stale   -> NoProxy
                 [] p \in absent  -> [proxies[p] EXCEPT !.ref = 0]
                 [] p \in found   -> [proxies[p] EXCEPT !.ref = Len(actors[p]) + 1]
                 [] p \in missing \ found -> [proxies[p] EXCEPT !.ref = 0]
                 [] OTHER         -> proxies[p]]
          /\ actors' = [p \in Peers |->
               CASE p \in stale \cup absent -> Parked(p)
                 [] p \in placed            -> Spawned(p, p \in found)
                 [] OTHER                   -> actors[p]]
    BY <2>0
  <2>2. ASSUME NEW p \in Peers
        PROVE  /\ proxies'[p] \in Proxy \cup {NoProxy}
               /\ ProxyStep(p)
               /\ Stands(p)
    <3>1. CASE p \in stale
      <4>1. proxies'[p] = NoProxy /\ actors'[p] = Parked(p)
        BY <2>1, <3>1
      <4> QED BY <4>1 DEF ProxyStep, Laid, Stands
    <3>2. ASSUME NEW r \in 0..MaxSpawns, p \in known, proxies'[p] = [proxies[p] EXCEPT !.ref = r]
          PROVE  /\ proxies'[p] \in Proxy /\ proxies'[p].ref = r
                 /\ proxies'[p].time = proxies[p].time
                 /\ proxies'[p].cell = proxies[p].cell
      <4>1. proxies[p] \in Proxy
        BY <1>0, <3>2
      <4> QED BY <3>2, <4>1 DEF Proxy
    <3>0. p \in known \ stale => now - proxies[p].time <= StaleAfter
      <4>1. now \in Int /\ StaleAfter \in Int
        BY GameAdapterAssumption DEF ProxyTypes
      <4>2. p \in known => proxies[p].time \in Int
        BY <1>0, ProxyFields
      <4> QED BY <4>1, <4>2 DEF Expired
    <3>3. CASE p \in absent
      <4>1. proxies'[p] = [proxies[p] EXCEPT !.ref = 0] /\ actors'[p] = Parked(p)
        BY <2>1, <3>3
      <4>2. proxies'[p] \in Proxy /\ proxies'[p].ref = 0 /\ proxies'[p].time = proxies[p].time
        BY <3>2, <3>3, <4>1, GameAdapterAssumption
      <4> QED BY <3>0, <3>3, <4>1, <4>2 DEF ProxyStep, Laid, Stands
    <3>4. CASE p \in found
      <4>1. p \in placed /\ p \in known /\ p \notin stale /\ p \notin absent /\ CanSpawn(p)
        BY <3>4
      <4>2. /\ proxies'[p] = [proxies[p] EXCEPT !.ref = Len(actors[p]) + 1]
            /\ actors'[p] = Spawned(p, p \in found)
        BY <2>1, <3>4, <4>1
      <4>7. actors'[p] = Spawned(p, TRUE)
        <5>1. (p \in found) = TRUE
          BY <3>4
        <5> QED BY <4>2, <5>1
      <4>3. Len(actors[p]) + 1 \in 0..MaxSpawns
        <5>1. Len(actors[p]) \in Nat
          BY <1>0
        <5> QED BY <4>1, <5>1, GameAdapterAssumption DEF CanSpawn
      <4>4. /\ proxies'[p] \in Proxy /\ proxies'[p].ref = Len(actors[p]) + 1
            /\ proxies'[p].time = proxies[p].time
            /\ IsHere(proxies'[p].cell)
        BY <3>2, <4>1, <4>2, <4>3
      <4>5. Spawned(p, TRUE)[Len(actors[p]) + 1].cell = here
        BY <1>2, SpawnedShape
      <4>6. Stands(p)
        BY <3>0, <4>1, <4>7, <4>4, <4>5 DEF Stands
      <4> QED BY <1>2, <4>7, <4>4, <4>6 DEF ProxyStep, Placed
    <3>7. CASE p \in placed \ found
      <4>1. p \in missing /\ p \in known /\ p \notin stale /\ p \notin absent
        BY <3>7
      <4>2. /\ proxies'[p] = [proxies[p] EXCEPT !.ref = 0]
            /\ actors'[p] = Spawned(p, p \in found)
        BY <2>1, <3>7, <4>1
      <4>4. actors'[p] = Spawned(p, FALSE)
        <5>1. (p \in found) = FALSE
          BY <3>7
        <5> QED BY <4>2, <5>1
      <4>3. proxies'[p] \in Proxy /\ proxies'[p].ref = 0 /\ proxies'[p].time = proxies[p].time
        BY <3>2, <4>1, <4>2, GameAdapterAssumption
      <4> QED BY <1>2, <3>0, <4>1, <4>4, <4>3 DEF ProxyStep, Placed, Stands
    <3>5. CASE p \in missing \ placed
      <4>1. p \in missing \ found /\ p \in known /\ p \notin stale /\ p \notin absent
        BY <3>5
      <4>2. proxies'[p] = [proxies[p] EXCEPT !.ref = 0] /\ actors'[p] = actors[p]
        BY <2>1, <3>5, <4>1
      <4>3. proxies'[p] \in Proxy /\ proxies'[p].ref = 0 /\ proxies'[p].time = proxies[p].time
        BY <3>2, <4>1, <4>2, GameAdapterAssumption
      <4> QED BY <3>0, <4>1, <4>2, <4>3 DEF ProxyStep, Emptied, Stands
    <3>6. CASE p \notin stale /\ p \notin absent /\ p \notin missing
      <4>1. p \notin placed /\ p \notin found
        BY <3>6
      <4>2. proxies'[p] = proxies[p] /\ actors'[p] = actors[p]
        BY <2>1, <3>6, <4>1
      <4>3. Stands(p)
        BY <3>0, <3>6, <4>2 DEF Stands, NeedsActor
      <4> QED BY <1>0, <4>2, <4>3 DEF ProxyStep, Kept
    <3> QED BY <3>1, <3>3, <3>4, <3>5, <3>6, <3>7
  <2>3. /\ DOMAIN proxies' = Peers /\ proxies' = [p \in Peers |-> proxies'[p]]
        /\ DOMAIN actors' = Peers /\ actors' = [p \in Peers |-> actors'[p]]
    BY <2>1
  <2>4. proxies' \in [Peers -> Proxy \cup {NoProxy}]
    BY <2>2, <2>3
  <2> QED BY <2>2, <2>3, <2>4 DEF ProxiesStep
<1> QED BY <1>1, <1>2

\* RemoveRemotePlayer and ResetWorldState lay off; all else keeps.
LEMMA OthersAreProxiesSteps ==
  ASSUME ProxyTypes
  PROVE  /\ \A p \in Peers : RemoveRemotePlayer(p) => ProxiesStep
         /\ ResetWorldState => ProxiesStep
         /\ UNCHANGED proxyVars => ProxiesStep
<1>0. /\ proxies \in [Peers -> Proxy \cup {NoProxy}]
      /\ actors \in [Peers -> Seq(Actor)]
  BY DEF ProxyTypes
<1>1. ASSUME NEW p \in Peers, RemoveRemotePlayer(p) PROVE ProxiesStep
  <2>1. Laid(p) /\ \A q \in Peers \ {p} : Kept(q)
    BY <1>0, <1>1 DEF RemoveRemotePlayer, Laid, Kept
  <2> QED BY <1>0, <1>1, <2>1 DEF RemoveRemotePlayer, ProxiesStep, ProxyStep
<1>2. ASSUME ResetWorldState PROVE ProxiesStep
  <2>1. \A q \in Peers : Laid(q)
    BY <1>2 DEF ResetWorldState, Laid
  <2> QED BY <1>2, <2>1 DEF ResetWorldState, ProxiesStep, ProxyStep
<1>3. ASSUME UNCHANGED proxyVars PROVE ProxiesStep
  BY <1>0, <1>3 DEF proxyVars, ProxiesStep, ProxyStep, Kept
<1> QED BY <1>1, <1>2, <1>3

-----------------------------------------------------------------------------
(* The invariants.                                                         *)

\* A step of the stand-ins keeps their types and keeps references live.
LEMMA ProxiesStepKeeps ==
  ASSUME ProxyTypes, ReferenceIsLive, ProxiesStep,
         here' \in Cells \cup {NoCell, NoPlayer}, now' \in 0..MaxClock
  PROVE  ProxyTypes' /\ ReferenceIsLive'
<1>1. ASSUME NEW p \in Peers
      PROVE  /\ actors'[p] \in Seq(Actor)
             /\ proxies'[p] # NoProxy =>
                  /\ proxies'[p].ref <= Len(actors'[p])
                  /\ proxies'[p].ref # 0 => actors'[p][proxies'[p].ref].enabled
  <2>0. actors[p] \in Seq(Actor) /\ Len(actors[p]) \in Nat
    BY DEF ProxyTypes
  <2>1. /\ proxies[p] # NoProxy => proxies[p].ref <= Len(actors[p])
        /\ proxies[p] # NoProxy /\ proxies[p].ref # 0 => actors[p][proxies[p].ref].enabled
    BY DEF ProxyTypes, ReferenceIsLive
  <2>2. CASE Kept(p)
    BY <2>0, <2>1, <2>2 DEF Kept
  <2>3. CASE Retold(p)
    BY <2>0, <2>1, <2>3 DEF Retold
  <2>4. CASE Emptied(p)
    BY <2>0, <2>4 DEF Emptied
  <2>5. CASE Laid(p)
    <3>1. Parked(p) \in Seq(Actor) /\ Len(Parked(p)) \in Nat
      BY <2>0, ParkedShape
    <3> QED BY <2>5, <3>1 DEF Laid
  <2>6. CASE Placed(p)
    <3>1. InWorld
      BY <2>6 DEF Placed
    <3>2. /\ actors'[p] \in Seq(Actor)
          /\ Len(actors'[p]) = Len(actors[p]) + 1
          /\ actors'[p][Len(actors[p]) + 1].enabled
      BY <2>6, <3>1, SpawnedShape DEF Placed
    <3>3. proxies'[p].ref = Len(actors[p]) + 1 \/ proxies'[p].ref = 0
      BY <2>6 DEF Placed
    <3> QED BY <2>0, <3>2, <3>3
  <2> QED BY <2>2, <2>3, <2>4, <2>5, <2>6 DEF ProxiesStep, ProxyStep
<1>2. actors' \in [Peers -> Seq(Actor)]
  BY <1>1 DEF ProxiesStep
<1> QED BY <1>1, <1>2 DEF ProxiesStep, ProxyTypes, ReferenceIsLive

\* The game has reached the stage the plugin remembers of a quest.
StagesReached == \A q \in Quests : stage[q] >= questStage[q]

\* A report that was carried out is not newer than the time remembered.
CarriedBefore == \A l \in Loots, t \in 0..MaxClock : items[l][t] # 0 => t <= lootTime[l]

\* The inductive invariant.
AdapterInv ==
  /\ ProxyTypes /\ GateTypes
  /\ ReferenceIsLive /\ StandsHere
  /\ CarriedOutOnce /\ CarriedBefore
  /\ StagesReached

\* The initial states satisfy the inductive invariant.
LEMMA AdapterInitInv == AdapterInit => AdapterInv
<1> SUFFICES ASSUME AdapterInit PROVE AdapterInv
  OBVIOUS
<1>1. ProxyTypes
  <2>1. <<>> \in Seq(Actor)
    OBVIOUS
  <2> QED BY <2>1, GameAdapterAssumption DEF AdapterInit, ProxyTypes
<1>0. -1 \in -1..MaxStage /\ -1 \in -1..MaxClock /\ 0 \in 0..MaxStage /\ 0 \in Nat
  BY GameAdapterAssumption
<1>2. GateTypes
  BY <1>0 DEF AdapterInit, GateTypes
<1>3. ReferenceIsLive /\ StandsHere /\ CarriedOutOnce /\ CarriedBefore /\ StagesReached
  BY DEF AdapterInit, ReferenceIsLive, StandsHere, CarriedOutOnce, CarriedBefore, StagesReached
<1> QED BY <1>1, <1>2, <1>3 DEF AdapterInv

\* What a step does to the gates: the facts about them are kept, and the game is
\* not taken behind a recorded stage.
GateStep ==
  /\ GateTypes' /\ CarriedOutOnce' /\ CarriedBefore' /\ StagesReached'
  /\ \A q \in Quests : questStage'[q] # -1 =>
       stage'[q] >= questStage'[q] /\ stage'[q] >= questStage[q]

\* Loot is left alone.
LEMMA LootKept ==
  ASSUME AdapterInv, UNCHANGED lootVars
  PROVE  CarriedOutOnce' /\ CarriedBefore'
BY DEF AdapterInv, lootVars, CarriedOutOnce, CarriedBefore

\* Steps that touch neither quests nor loot keep the gates.
LEMMA GatesKept ==
  ASSUME AdapterInv, UNCHANGED <<questVars, lootVars>>, drawn' \in BOOLEAN
  PROVE  GateStep
<1>1. /\ questStage' = questStage /\ questTime' = questTime /\ stage' = stage
      /\ lootTime' = lootTime /\ items' = items
  BY DEF questVars, lootVars
<1>2. GateTypes' /\ StagesReached'
  BY <1>1 DEF AdapterInv, GateTypes, StagesReached
<1> QED BY <1>1, <1>2, LootKept DEF GateStep, AdapterInv, StagesReached

\* A quest report that passes both gates takes the game to a stage no earlier than
\* the one recorded, or is only remembered by its timestamp.
LEMMA QuestKeepsGates ==
  ASSUME AdapterInv, NEW s \in QuestStates, ApplyRemoteQuestState(s)
  PROVE  GateStep
<1>0. /\ s.quest \in Quests /\ s.stage \in 0..MaxStage /\ s.time \in 0..MaxClock
      /\ lootTime' = lootTime /\ items' = items /\ drawn' \in BOOLEAN
      /\ GateTypes /\ StagesReached
      /\ MaxStage \in Nat /\ MaxClock \in Nat
  BY GameAdapterAssumption DEF QuestStates, ApplyRemoteQuestState, lootVars, AdapterInv
<1>1. CASE UNCHANGED questVars
  BY <1>0, <1>1, GatesKept DEF lootVars
<1>2. CASE /\ QuestPasses(s)
           /\ questTime' = [questTime EXCEPT ![s.quest] = s.time]
           /\ \/ /\ questStage' = [questStage EXCEPT ![s.quest] = s.stage]
                 /\ stage' = [stage EXCEPT ![s.quest] = s.stage]
              \/ UNCHANGED <<questStage, stage>>
  <2>1. questTime' \in [Quests -> -1..MaxClock]
    BY <1>0, <1>2 DEF GateTypes
  <2>2. questStage' \in [Quests -> -1..MaxStage] /\ stage' \in [Quests -> 0..MaxStage]
    <3>1. s.stage \in -1..MaxStage
      BY <1>0
    <3>2. questStage \in [Quests -> -1..MaxStage] /\ stage \in [Quests -> 0..MaxStage]
      BY <1>0 DEF GateTypes
    <3>3. CASE UNCHANGED <<questStage, stage>>
      BY <3>2, <3>3
    <3>4. CASE /\ questStage' = [questStage EXCEPT ![s.quest] = s.stage]
               /\ stage' = [stage EXCEPT ![s.quest] = s.stage]
      BY <1>0, <3>1, <3>2, <3>4
    <3> QED BY <1>2, <3>3, <3>4
  <2>3. GateTypes' /\ CarriedOutOnce' /\ CarriedBefore'
    BY <1>0, <2>1, <2>2, LootKept DEF GateTypes, lootVars
  <2>4. ASSUME NEW q \in Quests
        PROVE  stage'[q] >= questStage'[q] /\ stage'[q] >= questStage[q]
    <3>1. /\ stage[q] >= questStage[q] /\ questStage[q] \in Int /\ stage[q] \in Int
          /\ questStage \in [Quests -> -1..MaxStage] /\ stage \in [Quests -> 0..MaxStage]
      BY <1>0 DEF GateTypes, StagesReached
    <3>2. CASE UNCHANGED <<questStage, stage>>
      BY <3>1, <3>2
    <3>3. CASE /\ questStage' = [questStage EXCEPT ![s.quest] = s.stage]
               /\ stage' = [stage EXCEPT ![s.quest] = s.stage]
      <4>1. CASE q = s.quest
        <5>1. questStage'[q] = s.stage /\ stage'[q] = s.stage /\ s.stage >= questStage[q]
          BY <1>0, <1>2, <3>1, <3>3, <4>1 DEF QuestPasses
        <5> QED BY <1>0, <5>1
      <4>2. CASE q # s.quest
        BY <3>1, <3>3, <4>2
      <4> QED BY <4>1, <4>2
    <3> QED BY <1>2, <3>2, <3>3
  <2> QED BY <2>3, <2>4 DEF GateStep, StagesReached
<1> QED BY <1>1, <1>2 DEF ApplyRemoteQuestState

\* The player's own progress takes the game further still.
LEMMA PlayKeepsGates ==
  ASSUME AdapterInv, NEW q \in Quests, PlayerAdvances(q)
  PROVE  GateStep
<1>0. /\ questStage' = questStage /\ questTime' = questTime
      /\ lootTime' = lootTime /\ items' = items /\ drawn' \in BOOLEAN
      /\ GateTypes /\ StagesReached /\ MaxStage \in Nat
  BY GameAdapterAssumption DEF PlayerAdvances, lootVars, AdapterInv
<1>1. PICK n \in (stage[q] + 1)..MaxStage : stage' = [stage EXCEPT ![q] = n]
  BY DEF PlayerAdvances
<1>2. stage' \in [Quests -> 0..MaxStage] /\ \A r \in Quests : stage'[r] >= stage[r]
  BY <1>0, <1>1 DEF GateTypes
<1>3. GateTypes' /\ CarriedOutOnce' /\ CarriedBefore'
  BY <1>0, <1>2, LootKept DEF GateTypes, lootVars
<1>4. \A r \in Quests : stage'[r] >= questStage[r]
  <2>1. \A r \in Quests : stage[r] \in Int /\ stage'[r] \in Int /\ questStage[r] \in Int
    BY <1>0, <1>2 DEF GateTypes
  <2> QED BY <1>0, <1>2, <2>1 DEF StagesReached
<1> QED BY <1>0, <1>3, <1>4 DEF GateStep, StagesReached

\* An inventory change takes a timestamp no earlier change has taken.
LEMMA LootKeepsGates ==
  ASSUME AdapterInv, NEW s \in LootStates, ApplyRemoteLootState(s)
  PROVE  GateStep
<1>0. /\ s.loot \in Loots /\ s.time \in 0..MaxClock
      /\ questStage' = questStage /\ questTime' = questTime /\ stage' = stage
      /\ drawn' \in BOOLEAN
      /\ GateTypes /\ CarriedOutOnce /\ CarriedBefore /\ StagesReached
      /\ MaxStage \in Nat /\ MaxClock \in Nat
  BY GameAdapterAssumption DEF LootStates, ApplyRemoteLootState, questVars, AdapterInv
<1>1. CASE UNCHANGED lootVars
  BY <1>0, <1>1, GatesKept DEF questVars
<1>2. CASE /\ LootPasses(s)
           /\ items' = [items EXCEPT ![s.loot][s.time] = @ + 1]
           /\ lootTime' = [lootTime EXCEPT ![s.loot] = s.time]
  <2>1. GateTypes'
    <3>1. items' \in [Loots -> [0..MaxClock -> Nat]]
      BY <1>0, <1>2 DEF GateTypes
    <3>2. lootTime' \in [Loots -> -1..MaxClock]
      BY <1>0, <1>2 DEF GateTypes
    <3> QED BY <1>0, <3>1, <3>2 DEF GateTypes
  <2>3. StagesReached' /\ \A q \in Quests : stage'[q] >= questStage[q]
    BY <1>0 DEF StagesReached
  <2>2. ASSUME NEW l \in Loots, NEW t \in 0..MaxClock
        PROVE  items'[l][t] <= 1 /\ (items'[l][t] # 0 => t <= lootTime'[l])
    <3>1. /\ items[l][t] \in Nat /\ items[l][t] <= 1 /\ (items[l][t] # 0 => t <= lootTime[l])
          /\ lootTime[l] \in Int
      BY <1>0 DEF GateTypes, CarriedOutOnce, CarriedBefore
    <3>2. CASE l = s.loot /\ t = s.time
      <4>1. items'[l][t] = items[l][t] + 1 /\ lootTime'[l] = t /\ t > lootTime[l]
        BY <1>0, <1>2, <3>2 DEF GateTypes, LootPasses
      <4> QED BY <3>1, <4>1
    <3>3. CASE l = s.loot /\ t # s.time
      <4>1. items'[l][t] = items[l][t] /\ lootTime'[l] = s.time /\ s.time > lootTime[l]
        BY <1>0, <1>2, <3>3 DEF GateTypes, LootPasses
      <4> QED BY <1>0, <3>1, <4>1
    <3>4. CASE l # s.loot
      <4>1. items'[l][t] = items[l][t] /\ lootTime'[l] = lootTime[l]
        BY <1>0, <1>2, <3>4 DEF GateTypes
      <4> QED BY <3>1, <4>1
    <3> QED BY <3>2, <3>3, <3>4
  <2>4. CarriedOutOnce' /\ CarriedBefore'
    BY <2>2 DEF CarriedOutOnce, CarriedBefore
  <2> QED BY <1>0, <2>1, <2>3, <2>4 DEF GateStep, StagesReached
<1> QED BY <1>1, <1>2 DEF ApplyRemoteLootState

\* A reset forgets everything the gates remember.
LEMMA ResetKeepsGates ==
  ASSUME AdapterInv, ResetWorldState
  PROVE  GateStep
<1>1. \A q \in Quests : questStage'[q] = -1
  BY DEF ResetWorldState
<1>0. -1 \in -1..MaxStage /\ -1 \in -1..MaxClock /\ 0 \in 0..MaxStage /\ 0 \in Nat
  BY GameAdapterAssumption
<1>2. GateTypes'
  BY <1>0 DEF ResetWorldState, GateTypes
<1>3. CarriedOutOnce' /\ CarriedBefore'
  BY DEF ResetWorldState, CarriedOutOnce, CarriedBefore
<1>4. StagesReached'
  <2>1. \A q \in Quests : stage'[q] \in 0..MaxStage
    BY DEF ResetWorldState
  <2> QED BY <1>1, <2>1, GameAdapterAssumption DEF StagesReached
<1> QED BY <1>1, <1>2, <1>3, <1>4 DEF GateStep

-----------------------------------------------------------------------------
(* Every step keeps the invariant and the action property.                 *)

\* The frame conditions of each action, and that only Update is drawn.
LEMMA AdapterStep ==
  ASSUME AdapterInv, [AdapterNext]_adapterVars
  PROVE  AdapterInv' /\ GateStep
<1>0. /\ ProxyTypes /\ ReferenceIsLive
      /\ here \in Cells \cup {NoCell, NoPlayer} /\ now \in 0..MaxClock
      /\ drawn \in BOOLEAN
  BY DEF AdapterInv, ProxyTypes, GateTypes
<1>1. ASSUME ProxiesStep, GateStep, StandsHere',
             here' \in Cells \cup {NoCell, NoPlayer}, now' \in 0..MaxClock
      PROVE  AdapterInv'
  BY <1>0, <1>1, ProxiesStepKeeps DEF GateStep, AdapterInv
<1>2. ASSUME drawn' = FALSE PROVE StandsHere'
  BY <1>2 DEF StandsHere
<1>4. ASSUME NEW s \in PlayerStates, ApplyRemotePlayerState(s)
      PROVE  AdapterInv' /\ GateStep
  <2>1. /\ drawn' = FALSE /\ here' = here /\ now' = now
        /\ UNCHANGED <<questVars, lootVars>>
    BY <1>4 DEF ApplyRemotePlayerState, engineVars
  <2>2. ProxiesStep
    BY <1>0, <1>4, ApplyIsProxiesStep
  <2> QED BY <1>0, <1>1, <1>2, <2>1, <2>2, GatesKept
<1>5. ASSUME NEW p \in Peers, RemoveRemotePlayer(p)
      PROVE  AdapterInv' /\ GateStep
  <2>1. /\ drawn' = FALSE /\ here' = here /\ now' = now
        /\ UNCHANGED <<questVars, lootVars>>
    BY <1>5 DEF RemoveRemotePlayer, engineVars
  <2>2. ProxiesStep
    BY <1>0, <1>5, OthersAreProxiesSteps
  <2> QED BY <1>0, <1>1, <1>2, <2>1, <2>2, GatesKept
<1>6. ASSUME Update PROVE AdapterInv' /\ GateStep
  <2>1. /\ drawn' \in BOOLEAN /\ here' = here /\ now' = now
        /\ UNCHANGED <<questVars, lootVars>>
    BY <1>6 DEF Update, engineVars
  <2>2. ProxiesStep /\ (InWorld => \A p \in Peers : Stands(p))
    BY <1>0, <1>6, UpdateIsProxiesStep
  <2>4. StandsHere'
    BY <2>1, <2>2 DEF StandsHere, Stands, InWorld, IsHere
  <2> QED BY <1>0, <1>1, <2>1, <2>2, <2>4, GatesKept
<1>7. ASSUME NEW s \in QuestStates, ApplyRemoteQuestState(s)
      PROVE  AdapterInv' /\ GateStep
  <2>1. drawn' = FALSE /\ here' = here /\ now' = now /\ proxies' = proxies /\ actors' = actors
    BY <1>7 DEF ApplyRemoteQuestState, engineVars, proxyVars
  <2>2. ProxiesStep
    BY <1>0, <2>1, OthersAreProxiesSteps DEF proxyVars
  <2> QED BY <1>0, <1>1, <1>2, <1>7, <2>1, <2>2, QuestKeepsGates
<1>8. ASSUME NEW s \in LootStates, ApplyRemoteLootState(s)
      PROVE  AdapterInv' /\ GateStep
  <2>1. drawn' = FALSE /\ here' = here /\ now' = now /\ proxies' = proxies /\ actors' = actors
    BY <1>8 DEF ApplyRemoteLootState, engineVars, proxyVars
  <2>2. ProxiesStep
    BY <1>0, <2>1, OthersAreProxiesSteps DEF proxyVars
  <2> QED BY <1>0, <1>1, <1>2, <1>8, <2>1, <2>2, LootKeepsGates
<1>9. ASSUME ResetWorldState PROVE AdapterInv' /\ GateStep
  <2>1. drawn' = FALSE /\ here' = here /\ now' = now
    BY <1>9 DEF ResetWorldState, engineVars
  <2>2. ProxiesStep /\ GateStep
    BY <1>0, <1>9, OthersAreProxiesSteps, ResetKeepsGates
  <2> QED BY <1>0, <1>1, <1>2, <2>1, <2>2
<1>10. ASSUME NEW cell \in Cells \cup {NoCell, NoPlayer}, Move(cell)
       PROVE  AdapterInv' /\ GateStep
  <2>1. /\ drawn' = FALSE /\ here' = cell /\ now' = now
        /\ proxies' = proxies /\ actors' = actors /\ UNCHANGED <<questVars, lootVars>>
    BY <1>10 DEF Move, proxyVars
  <2>2. ProxiesStep
    BY <1>0, <2>1, OthersAreProxiesSteps DEF proxyVars
  <2> QED BY <1>0, <1>1, <1>2, <2>1, <2>2, GatesKept
<1>13. ASSUME NEW q \in Quests, PlayerAdvances(q)
       PROVE  AdapterInv' /\ GateStep
  <2>1. drawn' = FALSE /\ here' = here /\ now' = now /\ proxies' = proxies /\ actors' = actors
    BY <1>13 DEF PlayerAdvances, engineVars, proxyVars
  <2>2. ProxiesStep
    BY <1>0, <2>1, OthersAreProxiesSteps DEF proxyVars
  <2> QED BY <1>0, <1>1, <1>2, <1>13, <2>1, <2>2, PlayKeepsGates
<1>11. ASSUME ClockTick PROVE AdapterInv' /\ GateStep
  <2>1. /\ drawn' = FALSE /\ here' = here /\ now' \in 0..MaxClock
        /\ proxies' = proxies /\ actors' = actors /\ UNCHANGED <<questVars, lootVars>>
    BY <1>0, <1>11, GameAdapterAssumption DEF ClockTick, proxyVars
  <2>2. ProxiesStep
    BY <1>0, <2>1, OthersAreProxiesSteps DEF proxyVars
  <2> QED BY <1>0, <1>1, <1>2, <2>1, <2>2, GatesKept
<1>12. ASSUME UNCHANGED adapterVars PROVE AdapterInv' /\ GateStep
  <2>1. /\ drawn' = drawn /\ here' = here /\ now' = now
        /\ proxies' = proxies /\ actors' = actors /\ UNCHANGED <<questVars, lootVars>>
    BY <1>12 DEF adapterVars, engineVars, proxyVars
  <2>2. ProxiesStep
    BY <1>0, <2>1, OthersAreProxiesSteps DEF proxyVars
  <2>3. StandsHere'
    BY <2>1 DEF AdapterInv, StandsHere, InWorld, IsHere
  <2> QED BY <1>0, <1>1, <2>1, <2>2, <2>3, GatesKept
<1> QED BY <1>4, <1>5, <1>6, <1>7, <1>8, <1>9, <1>10, <1>11, <1>12, <1>13 DEF AdapterNext

\* The inductive invariant holds throughout.
LEMMA AdapterAlways == AdapterSpec => []AdapterInv
<1>1. AdapterInit => AdapterInv
  BY AdapterInitInv
<1>2. AdapterInv /\ [AdapterNext]_adapterVars => AdapterInv'
  BY AdapterStep
<1> QED BY <1>1, <1>2, PTL DEF AdapterSpec

-----------------------------------------------------------------------------
(* The theorems.                                                           *)

\* Whatever arrives in whatever order, the adapter's maps keep their types,
\* and a reference is always that of an actor placed for its peer.
THEOREM AdapterTypes == AdapterSpec => []AdapterTypeOK
<1>1. AdapterInv => AdapterTypeOK
  BY DEF AdapterInv, AdapterTypeOK, ProxyTypes, GateTypes, Actor
<1> QED BY <1>1, AdapterAlways, PTL

\* ParkRemoteProxy, removal, expiry and resets never leave a proxy with an
\* actor that was disabled.
THEOREM ReferencesAreLive == AdapterSpec => []ReferenceIsLive
<1>1. AdapterInv => ReferenceIsLive
  BY DEF AdapterInv
<1> QED BY <1>1, AdapterAlways, PTL

\* After every Update in the world, what is on stage is current and here.
THEOREM StageIsHere == AdapterSpec => []StandsHere
<1>1. AdapterInv => StandsHere
  BY DEF AdapterInv
<1> QED BY <1>1, AdapterAlways, PTL

\* The timestamp gate of ApplyRemoteLootState carries no report out twice.
THEOREM LootIsCarriedOutOnce == AdapterSpec => []CarriedOutOnce
<1>1. AdapterInv => CarriedOutOnce
  BY DEF AdapterInv
<1> QED BY <1>1, AdapterAlways, PTL

\* Between loads the gates of ApplyRemoteQuestState never take the game behind a
\* stage that a report has brought it to, whatever the player does meanwhile.
THEOREM StagesGoForward == AdapterSpec => StageGoesForward
<1>1. AdapterInv /\ [AdapterNext]_adapterVars =>
        [\A q \in Quests : questStage'[q] # -1 =>
           stage'[q] >= questStage'[q] /\ stage'[q] >= questStage[q]]_adapterVars
  BY AdapterStep DEF GateStep
<1> QED BY <1>1, AdapterAlways, PTL DEF AdapterSpec, StageGoesForward
=============================================================================
