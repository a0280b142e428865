------------------------------- MODULE Plugin -------------------------------
(***************************************************************************)
(* The plugin inside one player's game: plugin/PseudoOnBlivionPlugin.cpp   *)
(* with the socket of plugin/network/NetworkClient.cpp and the calls of    *)
(* plugin/obse/PluginEntrypoint.cpp, on top of GameAdapter.                *)
(*                                                                         *)
(* Two threads.  The receive thread reads lines and puts what they say     *)
(* into queues under inbound_mutex_.  The game's thread runs the recurring *)
(* pump (send the local state, take the queues, apply them kind by kind,   *)
(* Update), resets the session when xOBSE reports a load or the main menu, *)
(* and shuts the plugin down.  The relay is what the plugin sees of it: a  *)
(* welcome, the replay of the room, and then whatever is broadcast, in one *)
(* TCP stream.                                                             *)
(***************************************************************************)
EXTENDS GameAdapter

CONSTANTS
  NoMessage,   \* the receive thread holds no line
  QueueLimit,  \* 128, the length each capped queue is cut to
  MaxSent,     \* bound: messages the relay sends after the replay
  MaxResets    \* bound: loads and returns to the main menu

VARIABLES
  game,        \* what the game's thread is doing
  receiver,    \* what the receive thread is doing
  hand,        \* the line the receive thread is about to handle
  inbox,       \* the inbound_ queues and departed_peers_
  batch,       \* the pump's local copies of them
  running,     \* running_
  connected,   \* connected_ of the client; FALSE means the socket is closed
  mismatch,    \* protocol_mismatch_
  link,        \* the relay's end of the connection
  wire,        \* lines sent by the relay and not yet read
  compatible,  \* the relay speaks kProtocolVersion
  stored,      \* the latest quest_state of each quest the relay has stored
  present,     \* remote players in the room
  sent,        \* messages the relay sent so far
  resets,      \* resets so far
  lost         \* quests whose last stored update got lost on the way (history)

threadVars  == <<game, receiver, hand>>
queueVars   == <<inbox, batch>>
clientVars  == <<running, connected, mismatch>>
relayVars   == <<link, wire, compatible, stored, present, sent>>
pluginVars  == <<threadVars, queueVars, clientVars, relayVars, resets, lost, adapterVars>>

\* The queues in the order in which PumpGameThreadWork empties them.
Order == <<"peer_left", "player_state", "quest_state", "loot_state">>

Kinds == {Order[n] : n \in DOMAIN Order}

Departures == [kind : {"peer_left"}, sender : Peers]

Messages == PlayerStates \cup QuestStates \cup LootStates \cup Departures
              \cup [kind : {"welcome"}]

Empty == [k \in Kinds |-> <<>>]

ASSUME PluginAssumption ==
  /\ NoMessage \notin Messages
  /\ IsFiniteSet(Quests)
  /\ MaxStage # 0
  /\ QueueLimit \in Nat \ {0}
  /\ MaxSent \in Nat
  /\ MaxResets \in Nat

\* m is the last update of its quest that the relay has stored.
IsLast(m) == m.kind = "quest_state" /\ m = stored[m.quest]

-----------------------------------------------------------------------------
(* The receive thread.                                                     *)

\* HandleIncomingMessage: the line goes to the queue of its kind, and a queue
\* longer than its cap loses its oldest entry; departed_peers_ has no cap.
Overflows(m) == m.kind # "peer_left" /\ Len(inbox[m.kind]) >= QueueLimit

\* The oldest entry, with m the newest.
Dropped(m) == Head(Append(inbox[m.kind], m))

\* The cap was forgotten.
Queued_uncapped_slip(m) == Append(inbox[m.kind], m)

\* Off by one: a full queue is one entry shorter.
Queued_slip(m) ==
  LET queue == Append(inbox[m.kind], m) IN
  IF m.kind # "peer_left" /\ Len(queue) >= QueueLimit THEN Tail(queue) ELSE queue

Queued(m) ==
  LET queue == Append(inbox[m.kind], m) IN
  IF Overflows(m) THEN Tail(queue) ELSE queue

\* The loop of Start ends when the plugin stops or the client disconnects.
Loop ==
  /\ receiver = "looping"
  /\ receiver' = IF running /\ connected THEN "reading" ELSE "exited"
  /\ UNCHANGED <<game, hand, queueVars, clientVars, relayVars, resets, lost, adapterVars>>

\* ReceiveLine blocks until a line has arrived, or the relay has closed the
\* connection, or the socket is closed from the game's thread.  A line cut by
\* the latter is returned as it is, and may still be taken for its message.
ReceiveLine ==
  /\ receiver = "reading"
  /\ \/ /\ wire # <<>>
        /\ hand' = Head(wire)
        /\ wire' = Tail(wire)
        /\ receiver' = "handling"
        /\ UNCHANGED connected
     \/ /\ ~connected \/ (wire = <<>> /\ link = "closed")
        /\ connected' = FALSE
        /\ receiver' = "looping"
        /\ UNCHANGED <<hand, wire>>
  /\ UNCHANGED <<game, queueVars, running, mismatch, link, compatible, stored,
                 present, sent, resets, lost, adapterVars>>

\* Only the flag is set.
OnProtocolMismatch_slip == mismatch' = TRUE /\ UNCHANGED connected

\* OnProtocolMismatch: the flag is set and the socket closed.
OnProtocolMismatch == mismatch' = TRUE /\ connected' = FALSE

Handle ==
  /\ receiver = "handling"
  /\ IF hand.kind = "welcome"
     THEN /\ IF compatible THEN UNCHANGED <<mismatch, connected>> ELSE OnProtocolMismatch
          /\ UNCHANGED <<inbox, lost>>
     ELSE /\ inbox' = [inbox EXCEPT ![hand.kind] = Queued(hand)]
          /\ lost' = IF Overflows(hand) /\ IsLast(Dropped(hand))
                     THEN lost \cup {Dropped(hand).quest} ELSE lost
          /\ UNCHANGED <<mismatch, connected>>
  /\ hand' = NoMessage
  /\ receiver' = "looping"
  /\ UNCHANGED <<game, batch, running, relayVars, resets, adapterVars>>

-----------------------------------------------------------------------------
(* The game's thread.                                                      *)

\* BootstrapPlugin at plugin load, before there is a player: Connect sends the
\* hello, and the relay answers with the welcome and the replay of the room.
\* A plugin that cannot connect is destroyed.
Bootstrap ==
  /\ game = "loading"
  /\ \/ /\ game' = "idle"
        /\ receiver' = "looping"
        /\ running' = TRUE
        /\ connected' = TRUE
     \/ /\ game' = "gone"
        /\ UNCHANGED <<receiver, running, connected>>
  /\ UNCHANGED <<hand, queueVars, mismatch, relayVars, resets, lost, adapterVars>>

\* SendJson may fail once the relay has closed the connection.
MayFail == connected /\ link = "closed"

\* PumpGameThreadWork begins with Tick: unless there is no connection or no
\* player it sends, and a send that fails closes the socket.
Tick ==
  /\ game = "idle"
  /\ game' = "ticked"
  /\ \/ UNCHANGED connected
     \/ MayFail /\ ~mismatch /\ InWorld /\ connected' = FALSE
  /\ UNCHANGED <<receiver, hand, queueVars, running, mismatch, relayVars, resets, lost,
                 adapterVars>>

\* The queues are swapped for empty ones under the mutex.
TakeQueues ==
  /\ game = "ticked"
  /\ game' = "applying"
  /\ batch' = inbox
  /\ inbox' = Empty
  /\ UNCHANGED <<receiver, hand, clientVars, relayVars, resets, lost, adapterVars>>

\* The next message of the first queue that is not empty.
NextKind == CHOOSE n \in DOMAIN Order :
           batch[Order[n]] # <<>> /\ \A k \in 1..(n - 1) : batch[Order[k]] = <<>>

\* A quest update is without effect because there is no player, because an update
\* with this timestamp or a later one was applied before, or because SetStage fails.
Refused(m) ==
  \/ here = NoPlayer
  \/ m.time <= questTime[m.quest]
  \/ QuestPasses(m) /\ questStage' = questStage

ApplyNext ==
  LET kind == Order[NextKind]
      m    == Head(batch[kind])
  IN
  /\ game = "applying"
  /\ batch # Empty
  /\ batch' = [batch EXCEPT ![kind] = Tail(@)]
  /\ CASE kind = "peer_left"    -> RemoveRemotePlayer(m.sender)
       [] kind = "player_state" -> ApplyRemotePlayerState(m)
       [] kind = "quest_state"  -> ApplyRemoteQuestState(m)
       [] kind = "loot_state"   -> ApplyRemoteLootState(m)
  /\ lost' = IF IsLast(m) /\ Refused(m) THEN lost \cup {m.quest} ELSE lost
  /\ UNCHANGED <<threadVars, inbox, clientVars, relayVars, resets>>

\* Everything is applied; the pump ends with the adapter's Update.
EndPump ==
  /\ game = "applying"
  /\ batch = Empty
  /\ game' = "idle"
  /\ Update
  /\ UNCHANGED <<receiver, hand, queueVars, clientVars, relayVars, resets, lost>>

\* m has not been queued yet.
OnTheWay(m) == m = hand \/ \E n \in DOMAIN wire : m = wire[n]

\* ResetSessionState, on LoadGame, GameInitialized, ExitToMainMenu or ExitGame.
ResetSessionState ==
  /\ game = "idle"
  /\ resets < MaxResets
  /\ resets' = resets + 1
  /\ inbox' = Empty
  /\ mismatch' = FALSE
  /\ lost' = {q \in Quests : ~OnTheWay(stored[q])}
  /\ ResetWorldState
  /\ UNCHANGED <<threadVars, batch, running, connected, relayVars>>

\* The thread is told to stop and its socket left open.
Stop_slip ==
  /\ game = "idle"
  /\ game' = "joining"
  /\ running' = FALSE
  /\ UNCHANGED <<receiver, hand, queueVars, connected, mismatch, relayVars, resets,
                 lost, adapterVars>>

\* ShutdownPlugin: running_ is cleared, the socket closed, the thread joined.
Stop ==
  /\ game = "idle"
  /\ game' = "joining"
  /\ running' = FALSE
  /\ connected' = FALSE
  /\ UNCHANGED <<receiver, hand, queueVars, mismatch, relayVars, resets, lost, adapterVars>>

\* receive_thread_.join() returns, and the plugin object is destroyed.
Destroy ==
  /\ game = "joining"
  /\ receiver = "exited"
  /\ game' = "gone"
  /\ UNCHANGED <<receiver, hand, queueVars, clientVars, relayVars, resets, lost, adapterVars>>

-----------------------------------------------------------------------------
(* The relay and the game around the plugin.                               *)

RelaySends(m) ==
  /\ link = "open"
  /\ game # "loading"
  /\ sent < MaxSent
  /\ sent' = sent + 1
  /\ wire' = Append(wire, m)
  /\ UNCHANGED <<link, compatible, threadVars, queueVars, clientVars, resets, adapterVars>>

\* A remote player joins the room or reports its state, by the same clock.
PeerReports(p, cell) ==
  /\ RelaySends([kind |-> "player_state", sender |-> p, cell |-> cell, time |-> now])
  /\ present' = present \cup {p}
  /\ UNCHANGED <<stored, lost>>

PeerLeaves(p) ==
  /\ p \in present
  /\ RelaySends([kind |-> "peer_left", sender |-> p])
  /\ present' = present \ {p}
  /\ UNCHANGED <<stored, lost>>

\* The host advances a quest, by its own clock: a new host's may lag behind.
HostReports(q, time) ==
  LET m == [kind |-> "quest_state", quest |-> q, stage |-> stored[q].stage + 1,
            time |-> time]
  IN
  /\ stored[q].stage < MaxStage
  /\ stored' = [stored EXCEPT ![q] = m]
  /\ RelaySends(m)
  /\ lost' = lost \ {q}
  /\ UNCHANGED present

HostDrops(l) ==
  /\ RelaySends([kind |-> "loot_state", loot |-> l, time |-> now])
  /\ UNCHANGED <<stored, present, lost>>

RelayCloses ==
  /\ link = "open"
  /\ game # "loading"
  /\ link' = "closed"
  /\ UNCHANGED <<wire, compatible, stored, present, sent, threadVars, queueVars,
                 clientVars, resets, lost, adapterVars>>

\* The player moves, gets ahead in a quest, and time passes while the game's thread
\* is not in the pump.
Play ==
  /\ game = "idle"
  /\ \/ \E cell \in Cells \cup {NoCell, NoPlayer} : Move(cell)
     \/ \E q \in Quests : PlayerAdvances(q)
     \/ ClockTick
  /\ UNCHANGED <<threadVars, queueVars, clientVars, relayVars, resets, lost>>

Init ==
  /\ AdapterInit
  /\ game = "loading"
  /\ receiver = "off"
  /\ hand = NoMessage
  /\ inbox = Empty
  /\ batch = Empty
  /\ running = FALSE
  /\ connected = FALSE
  /\ mismatch = FALSE
  /\ link = "open"
  /\ compatible \in BOOLEAN
  /\ \E known \in SUBSET Quests : \E ahead \in SUBSET known :
       /\ stored = [q \in Quests |-> [kind |-> "quest_state", quest |-> q,
                      stage |-> IF q \in ahead THEN 1 ELSE 0, time |-> 0]]
       /\ \E replay \in [1..Cardinality(known) -> known] :
            /\ \A m, n \in DOMAIN replay : replay[m] = replay[n] => m = n
            /\ wire = <<[kind |-> "welcome"]>>
                        \o [n \in DOMAIN replay |-> stored[replay[n]]]
  /\ present \in SUBSET Peers
  /\ sent = 0
  /\ resets = 0
  /\ lost = {}

GameThread ==
  \/ Bootstrap
  \/ Tick
  \/ TakeQueues
  \/ ApplyNext
  \/ EndPump
  \/ ResetSessionState
  \/ Stop
  \/ Destroy

Outside ==
  \/ \E p \in Peers, cell \in Names : PeerReports(p, cell)
  \/ \E p \in Peers : PeerLeaves(p)
  \/ \E q \in Quests, time \in 0..MaxClock : HostReports(q, time)
  \/ \E l \in Loots : HostDrops(l)
  \/ RelayCloses
  \/ Play

ReceiveThread == Loop \/ ReceiveLine \/ Handle

Next == ReceiveThread \/ GameThread \/ Outside

Spec == Init /\ [][Next]_pluginVars

-----------------------------------------------------------------------------
(* Fairness.  Windows runs both threads.  Nothing makes the relay send or  *)
(* close, the player move, or the game shut down.                          *)
FairSpec ==
  /\ Spec
  /\ WF_pluginVars(ReceiveThread)
  /\ WF_pluginVars(Destroy)

-----------------------------------------------------------------------------
(* Properties.                                                             *)

\* The types, and the cap on every queue that has one.
PluginTypeOK ==
  /\ AdapterTypeOK
  /\ game \in {"loading", "idle", "ticked", "applying", "joining", "gone"}
  /\ receiver \in {"off", "looping", "reading", "handling", "exited"}
  /\ hand \in Messages \cup {NoMessage}
  /\ inbox \in [Kinds -> Seq(Messages)]
  /\ batch \in [Kinds -> Seq(Messages)]
  /\ \A k \in Kinds \ {"peer_left"} : Len(inbox[k]) <= QueueLimit
  /\ running \in BOOLEAN
  /\ connected \in BOOLEAN
  /\ mismatch \in BOOLEAN
  /\ link \in {"open", "closed"}
  /\ wire \in Seq(Messages)
  /\ compatible \in BOOLEAN
  /\ stored \in [Quests -> QuestStates]
  /\ present \subseteq Peers
  /\ sent \in 0..MaxSent
  /\ resets \in 0..MaxResets
  /\ lost \subseteq Quests

\* Everything the relay sent has been read and applied, and the plugin rests.
Drained ==
  /\ game = "idle"
  /\ compatible
  /\ wire = <<>>
  /\ hand = NoMessage
  /\ inbox = Empty

\* Shutting down never hangs the game: the receive thread notices Stop wherever
\* it is, also inside a read that has nothing to read.
StopReturns == game = "joining" ~> game = "gone"

\* A relay that speaks another version never reaches the game: not one of the
\* messages that follow its welcome is queued, resets notwithstanding.
MismatchRejected == ~compatible => inbox = Empty /\ batch = Empty

\* The last stored update of a quest is without effect in the ways known only: it
\* was pushed out of a full queue, applied while there was no player, not newer by
\* its timestamp than an update applied before (two of one millisecond, or of two
\* hosts whose clocks differ), refused by the engine, or forgotten in a reset.
\* Every other is in the game once all is quiet, resets in between or not.
AppliedUnlessLost ==
  Drained /\ connected =>
    \A q \in Quests \ lost : stage[q] >= stored[q].stage

\* Who is in the world with everything applied holds the room's quests.
LateJoinerInherits ==
  Drained /\ connected /\ InWorld =>
    \A q \in Quests : stored[q].stage > 0 => questTime[q] >= stored[q].time

\* A peer that left the room has no stand-in once everything is applied.
DepartedHasNoProxy ==
  Drained /\ connected => \A p \in Peers \ present : proxies[p] = NoProxy
=============================================================================
