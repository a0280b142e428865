----------------------------- MODULE GameAdapter -----------------------------
(***************************************************************************)
(* RuntimeBackedGameAdapter of plugin/game/GameAdapter.cpp: the stand-in   *)
(* actors of remote players, and the gates that decide which quest and     *)
(* loot updates reach the game.  Everything runs on the game's thread.     *)
(* The engine is what the adapter sees of it: the player's cell, the       *)
(* actors that PlaceAtMe put into cells, the stage of each quest, which    *)
(* the player advances, too, and the inventory changes carried out.        *)
(***************************************************************************)
EXTENDS Integers, Sequences, FiniteSets

CONSTANTS
  Peers,       \* senders of player_state
  Quests,      \* quest ids
  Loots,       \* loot ids
  Cells,       \* cells, as parentCell pointers tell them apart
  Names,       \* what reports call a cell
  NameOf,      \* DescribeCell; two cells may have one name
  NoCell,      \* a player without a parent cell (a loading screen)
  NoPlayer,    \* GetPlayerCharacter() is null
  NoProxy,     \* no entry in remote_proxies_
  StaleAfter,  \* kProxyStaleAfterMs
  MaxStage,    \* bound: quest stages
  MaxClock,    \* bound: the clocks, local and remote
  MaxSpawns    \* bound: actors ever placed for one peer

ASSUME GameAdapterAssumption ==
  /\ NoCell \notin Cells /\ NoPlayer \notin Cells /\ NoCell # NoPlayer
  /\ NameOf \in [Cells -> Names]
  /\ NoProxy \notin [ref : Nat, cell : Names, time : Nat]
  /\ StaleAfter \in Nat
  /\ MaxStage \in Nat
  /\ MaxClock \in Nat
  /\ MaxSpawns \in Nat

VARIABLES
  here,        \* the player's cell, NoCell or NoPlayer
  now,         \* GetNowMs()
  proxies,     \* remote_proxies_; ref 0 is a null reference
  actors,      \* actors placed for each peer, in order
  questStage,  \* applied_quest_stages_, -1 when absent
  questTime,   \* applied_quest_timestamps_, -1 when absent
  lootTime,    \* applied_loot_timestamps_, -1 when absent
  stage,       \* the engine's stage of each quest
  items,       \* inventory changes carried out, by loot id and time of the report
  drawn        \* Update ran last (history)

engineVars == <<here, now>>
proxyVars  == <<proxies, actors>>
questVars  == <<questStage, questTime, stage>>
lootVars   == <<lootTime, items>>
adapterVars == <<engineVars, proxyVars, questVars, lootVars, drawn>>

Proxy == [ref : 0..MaxSpawns, cell : Names, time : 0..MaxClock]

PlayerStates == [kind : {"player_state"}, sender : Peers, cell : Names,
                 time : 0..MaxClock]
QuestStates  == [kind : {"quest_state"}, quest : Quests, stage : 0..MaxStage,
                 time : 0..MaxClock]
LootStates   == [kind : {"loot_state"}, loot : Loots, time : 0..MaxClock]

-----------------------------------------------------------------------------
(* Stand-ins.                                                              *)

InWorld == here \in Cells

\* The cell a report names is the player's, by its name.
IsHere(name) == name = NameOf[here]

\* ParkRemoteProxy: the actor of p is disabled.
Parked(p) ==
  LET ref == IF proxies[p] = NoProxy THEN 0 ELSE proxies[p].ref IN
  [n \in DOMAIN actors[p] |->
     IF n = ref THEN [actors[p][n] EXCEPT !.enabled = FALSE] ELSE actors[p][n]]

\* The actor is disabled and its reference kept.
ParkedRef_slip(p) == IF proxies[p] = NoProxy THEN 0 ELSE proxies[p].ref

\* ParkRemoteProxy: the reference is given up.
ParkedRef(p) == 0

\* The search for the new reference returns one that was not placed.
Spawned_slip(p, found) == actors[p]

\* SpawnRemoteProxy placed an actor at the player, and its search for the new
\* reference found it, or did not.
Spawned(p, found) == Append(actors[p], [cell |-> here, enabled |-> TRUE, found |-> found])

CanSpawn(p) == Len(actors[p]) < MaxSpawns

\* Only a missing reference is replaced.
NeedsActor_slip(p, ref) == ref = 0

\* The reference is missing, or stands in a cell the player has left.
NeedsActor(p, ref) == ref # 0 => actors[p][ref].cell # here

\* The timestamp gate of ApplyRemotePlayerState.
IsNewer(s) == proxies[s.sender] # NoProxy => s.time >= proxies[s.sender].time

\* ApplyRemotePlayerState: dropped outside the world and when overtaken;
\* else the target is stored and the stand-in parked, kept or placed.  Where none
\* is placed, or the one placed is not found, the reference is null.
ApplyRemotePlayerState(s) ==
  LET p   == s.sender
      ref == IF proxies[p] = NoProxy THEN 0 ELSE proxies[p].ref
      Target(r) == [proxies EXCEPT ![p] = [ref |-> r, cell |-> s.cell, time |-> s.time]]
  IN
  /\ \/ /\ ~InWorld \/ ~IsNewer(s)
        /\ UNCHANGED proxyVars
     \/ /\ InWorld /\ IsNewer(s) /\ ~IsHere(s.cell)
        /\ proxies' = Target(ParkedRef(p))
        /\ actors' = [actors EXCEPT ![p] = Parked(p)]
     \/ /\ InWorld /\ IsNewer(s) /\ IsHere(s.cell)
        /\ \/ /\ ~NeedsActor(p, ref)
              /\ proxies' = Target(ref)
              /\ UNCHANGED actors
           \/ /\ NeedsActor(p, ref) /\ CanSpawn(p)
              /\ proxies' = Target(Len(actors[p]) + 1)
              /\ actors' = [actors EXCEPT ![p] = Spawned(p, TRUE)]
           \/ /\ NeedsActor(p, ref)
              /\ proxies' = Target(0)
              /\ \/ UNCHANGED actors
                 \/ CanSpawn(p) /\ actors' = [actors EXCEPT ![p] = Spawned(p, FALSE)]
  /\ drawn' = FALSE
  /\ UNCHANGED <<engineVars, questVars, lootVars>>

\* RemoveRemotePlayer: parked and forgotten.
RemoveRemotePlayer(p) ==
  /\ actors' = [actors EXCEPT ![p] = Parked(p)]
  /\ proxies' = [proxies EXCEPT ![p] = NoProxy]
  /\ drawn' = FALSE
  /\ UNCHANGED <<engineVars, questVars, lootVars>>

\* Nobody ever grows stale.
Expired_slip(p) == FALSE

\* The target of p is older than kProxyStaleAfterMs by the local clock.
Expired(p) == now - proxies[p].time > StaleAfter

\* Update: what is stale is removed, what is elsewhere parked, what is here
\* has an actor unless its placement fails or the actor placed is not found.
Update ==
  LET known   == {p \in Peers : proxies[p] # NoProxy}
      stale   == {p \in known : Expired(p)}
      absent  == {p \in known \ stale : ~IsHere(proxies[p].cell)}
      missing == {p \in known \ (stale \cup absent) : NeedsActor(p, proxies[p].ref)}
  IN
  /\ IF InWorld
     THEN \E placed \in SUBSET {p \in missing : CanSpawn(p)} : \E found \in SUBSET placed :
       /\ proxies' = [p \in Peers |->
            CASE p \in stale   -> NoProxy
              [] p \in absent  -> [proxies[p] EXCEPT !.ref = ParkedRef(p)]
              [] p \in found   -> [proxies[p] EXCEPT !.ref = Len(actors[p]) + 1]
              [] p \in missing \ found -> [proxies[p] EXCEPT !.ref = 0]
              [] OTHER         -> proxies[p]]
       /\ actors' = [p \in Peers |->
            CASE p \in stale \cup absent -> Parked(p)
              [] p \in placed            -> Spawned(p, p \in found)
              [] OTHER                   -> actors[p]]
     ELSE UNCHANGED proxyVars
  /\ drawn' = TRUE
  /\ UNCHANGED <<engineVars, questVars, lootVars>>

-----------------------------------------------------------------------------
(* Quest and loot updates.                                                 *)

\* Stages may go back.
QuestPasses_slip(s) == s.time > questTime[s.quest]

\* The two gates of ApplyRemoteQuestState.
QuestPasses(s) == s.time > questTime[s.quest] /\ s.stage >= questStage[s.quest]

\* ApplyRemoteQuestState: the timestamp is recorded even when SetStage fails.
ApplyRemoteQuestState(s) ==
  /\ IF here # NoPlayer /\ QuestPasses(s)
     THEN /\ questTime' = [questTime EXCEPT ![s.quest] = s.time]
          /\ \/ /\ questStage' = [questStage EXCEPT ![s.quest] = s.stage]
                /\ stage' = [stage EXCEPT ![s.quest] = s.stage]
             \/ UNCHANGED <<questStage, stage>>
     ELSE UNCHANGED questVars
  /\ drawn' = FALSE
  /\ UNCHANGED <<engineVars, proxyVars, lootVars>>

\* The same message is applied again.
LootPasses_slip(s) == s.time >= lootTime[s.loot]

LootPasses(s) == s.time > lootTime[s.loot]

\* ApplyRemoteLootState for an inventory: AddItem or RemoveItem may fail, and
\* then nothing is recorded.
ApplyRemoteLootState(s) ==
  /\ \/ /\ here # NoPlayer /\ LootPasses(s)
        /\ items' = [items EXCEPT ![s.loot][s.time] = @ + 1]
        /\ lootTime' = [lootTime EXCEPT ![s.loot] = s.time]
     \/ UNCHANGED lootVars
  /\ drawn' = FALSE
  /\ UNCHANGED <<engineVars, proxyVars, questVars>>

\* ResetWorldState: every stand-in is disabled and all memory cleared.  The
\* save that is loaded next brings its own stages and inventory.
ResetWorldState ==
  /\ actors' = [p \in Peers |-> Parked(p)]
  /\ proxies' = [p \in Peers |-> NoProxy]
  /\ questStage' = [q \in Quests |-> -1]
  /\ questTime' = [q \in Quests |-> -1]
  /\ stage' \in [Quests -> 0..MaxStage]
  /\ lootTime' = [l \in Loots |-> -1]
  /\ items' = [l \in Loots |-> [t \in 0..MaxClock |-> 0]]
  /\ drawn' = FALSE
  /\ UNCHANGED engineVars

-----------------------------------------------------------------------------
(* The game around the adapter.                                            *)

\* The player enters the world, moves between cells, loads, or leaves it.
Move(cell) ==
  /\ cell # here
  /\ here' = cell
  /\ drawn' = FALSE
  /\ UNCHANGED <<now, proxyVars, questVars, lootVars>>

\* The player gets ahead in a quest, with or without the others.
PlayerAdvances(q) ==
  /\ InWorld
  /\ \E n \in (stage[q] + 1)..MaxStage : stage' = [stage EXCEPT ![q] = n]
  /\ drawn' = FALSE
  /\ UNCHANGED <<engineVars, proxyVars, questStage, questTime, lootVars>>

ClockTick ==
  /\ now < MaxClock
  /\ now' = now + 1
  /\ drawn' = FALSE
  /\ UNCHANGED <<here, proxyVars, questVars, lootVars>>

AdapterInit ==
  /\ here = NoPlayer
  /\ now = 0
  /\ proxies = [p \in Peers |-> NoProxy]
  /\ actors = [p \in Peers |-> <<>>]
  /\ questStage = [q \in Quests |-> -1]
  /\ questTime = [q \in Quests |-> -1]
  /\ stage = [q \in Quests |-> 0]
  /\ lootTime = [l \in Loots |-> -1]
  /\ items = [l \in Loots |-> [t \in 0..MaxClock |-> 0]]
  /\ drawn = FALSE

AdapterNext ==
  \/ \E s \in PlayerStates : ApplyRemotePlayerState(s)
  \/ \E p \in Peers : RemoveRemotePlayer(p)
  \/ Update
  \/ \E s \in QuestStates : ApplyRemoteQuestState(s)
  \/ \E s \in LootStates : ApplyRemoteLootState(s)
  \/ ResetWorldState
  \/ \E cell \in Cells \cup {NoCell, NoPlayer} : Move(cell)
  \/ \E q \in Quests : PlayerAdvances(q)
  \/ ClockTick

AdapterSpec == AdapterInit /\ [][AdapterNext]_adapterVars

-----------------------------------------------------------------------------
(* Properties.                                                             *)

\* The types; a reference is always that of an actor placed for its peer.
AdapterTypeOK ==
  /\ here \in Cells \cup {NoCell, NoPlayer}
  /\ now \in 0..MaxClock
  /\ proxies \in [Peers -> Proxy \cup {NoProxy}]
  /\ actors \in [Peers -> Seq([cell : Cells, enabled : BOOLEAN, found : BOOLEAN])]
  /\ \A p \in Peers : proxies[p] # NoProxy => proxies[p].ref <= Len(actors[p])
  /\ questStage \in [Quests -> -1..MaxStage]
  /\ questTime \in [Quests -> -1..MaxClock]
  /\ stage \in [Quests -> 0..MaxStage]
  /\ lootTime \in [Loots -> -1..MaxClock]
  /\ items \in [Loots -> [0..MaxClock -> Nat]]
  /\ drawn \in BOOLEAN

\* A stand-in that a proxy refers to has not been disabled: parking always
\* gives the reference up with the actor, and a peer never holds an actor of
\* the past.
ReferenceIsLive ==
  \A p \in Peers : proxies[p] # NoProxy /\ proxies[p].ref # 0
    => actors[p][proxies[p].ref].enabled

\* What Update leaves on stage is where the player is, was last reported
\* there, and was heard of within kProxyStaleAfterMs.
StandsHere ==
  drawn /\ InWorld =>
    \A p \in Peers : proxies[p] # NoProxy =>
      /\ now - proxies[p].time <= StaleAfter
      /\ proxies[p].ref # 0 =>
           /\ IsHere(proxies[p].cell)
           /\ actors[p][proxies[p].ref].cell = here

\* Between two loads the game is never at an earlier stage than the last one a
\* report brought it to, however reports are reordered, repeated, refused by the
\* engine or mixed with the player's own progress.  That progress itself may go
\* back: the gate asks for the last stage applied, and not for the game's.
StageGoesForward ==
  [][\A q \in Quests : questStage'[q] # -1 =>
       stage'[q] >= questStage'[q] /\ stage'[q] >= questStage[q]]_adapterVars

\* No loot report is carried out twice between two loads, however often and in
\* whatever order reports arrive: inventories change at most once for each loot id
\* and timestamp.
CarriedOutOnce == \A l \in Loots, t \in 0..MaxClock : items[l][t] <= 1

\* A peer has one body: every actor that the adapter found and has not disabled is
\* the one its peer's proxy refers to, so departures and resets clear them all.
\* (An actor that was placed and not found is nobody's from the start.)
NoStrayActors ==
  \A p \in Peers : \A n \in DOMAIN actors[p] :
    actors[p][n].found /\ actors[p][n].enabled => proxies[p] # NoProxy /\ proxies[p].ref = n
=============================================================================
