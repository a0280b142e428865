---------------------------- MODULE PluginProofs -----------------------------
(***************************************************************************)
(* Proofs about Plugin, for any peers, quests, loot ids and cells, any cap *)
(* of the queues and any number of messages and resets: the types and the  *)
(* caps, that another protocol version never reaches the queues, that a    *)
(* quest update gets lost in the known ways only, and that the plugin      *)
(* takes no step but the adapter's own, so that everything proved about    *)
(* GameAdapter holds under its two threads.                                *)
(***************************************************************************)
EXTENDS Plugin, GameAdapterProofs, FiniteSetTheorems

\* The lines a queue is for.
Lines(kind) == {m \in Messages : m.kind = kind}

\* m is in the queue s.
Has(s, m) == \E n \in DOMAIN s : s[n] = m

ThreadTypes ==
  /\ game \in {"loading", "idle", "ticked", "applying", "joining", "gone"}
  /\ receiver \in {"off", "looping", "reading", "handling", "exited"}
  /\ running \in BOOLEAN /\ connected \in BOOLEAN /\ mismatch \in BOOLEAN
  /\ link \in {"open", "closed"} /\ compatible \in BOOLEAN
  /\ sent \in 0..MaxSent /\ resets \in 0..MaxResets
  /\ lost \subseteq Quests
  /\ game = "loading" => receiver = "off"

\* What the receive thread holds while it handles it, and only then.
InHand == IF receiver = "handling" THEN hand \in Messages ELSE hand = NoMessage

QueueTypes ==
  /\ inbox \in [Kinds -> Seq(Messages)] /\ batch \in [Kinds -> Seq(Messages)]
  /\ \A k \in Kinds : inbox[k] \in Seq(Lines(k)) /\ batch[k] \in Seq(Lines(k))
  /\ \A k \in Kinds \ {"peer_left"} : Len(inbox[k]) <= QueueLimit

RelayTypes ==
  /\ wire \in Seq(Messages)
  /\ stored \in [Quests -> QuestStates]
  /\ \A q \in Quests : stored[q].quest = q
  /\ present \subseteq Peers

\* Between pumps nothing is left to apply.
Pumped == game # "applying" => batch = Empty

\* With another version the welcome is still to come, or being handled, or has
\* closed the connection before anything else was read.
Rejected ==
  ~compatible =>
    /\ inbox = Empty /\ batch = Empty
    /\ \/ receiver # "handling" /\ wire # <<>> /\ Head(wire).kind = "welcome"
       \/ receiver = "handling" /\ hand.kind = "welcome"
       \/ receiver \in {"looping", "exited"} /\ ~connected

\* m is on its way from the relay to the game.
InFlight(m) ==
  \/ Has(wire, m)
  \/ receiver = "handling" /\ hand = m
  \/ Has(inbox["quest_state"], m)
  \/ Has(batch["quest_state"], m)

\* No report is ahead of what the relay has stored of its quest, applied or not.
NotAhead ==
  /\ \A m \in QuestStates : InFlight(m) => m.stage <= stored[m.quest].stage
  /\ \A q \in Quests : questStage[q] <= stored[q].stage

\* What was stored last is on its way, or was applied.
OnItsWay(q) == InFlight(stored[q]) \/ questStage[q] >= stored[q].stage

NothingLost == \A q \in Quests \ lost : stored[q].stage > 0 => OnItsWay(q)

PluginInv ==
  /\ AdapterInv /\ ThreadTypes /\ InHand /\ QueueTypes /\ RelayTypes /\ Pumped
  /\ Rejected /\ NotAhead /\ NothingLost

-----------------------------------------------------------------------------
(* Queues.                                                                 *)

\* An empty queue has nothing.
LEMMA HasNothing == \A m : ~Has(<<>>, m)
BY DEF Has

\* What a queue has after an append.
LEMMA HasAppended ==
  ASSUME NEW S, NEW s \in Seq(S), NEW x \in S
  PROVE  /\ Append(s, x) \in Seq(S) /\ Len(Append(s, x)) = Len(s) + 1
         /\ \A m : Has(Append(s, x), m) <=> Has(s, m) \/ m = x
<1>1. /\ Append(s, x) \in Seq(S) /\ Len(Append(s, x)) = Len(s) + 1 /\ Len(s) \in Nat
      /\ DOMAIN s = 1..Len(s) /\ DOMAIN Append(s, x) = 1..(Len(s) + 1)
      /\ \A n \in 1..Len(s) : Append(s, x)[n] = s[n]
      /\ Append(s, x)[Len(s) + 1] = x
  OBVIOUS
<1>2. 1..(Len(s) + 1) = 1..Len(s) \cup {Len(s) + 1}
  BY <1>1
<1> QED BY <1>1, <1>2, Zenon DEF Has

\* What a queue has is its head or in its tail.
LEMMA HasRest ==
  ASSUME NEW S, NEW s \in Seq(S), s # <<>>
  PROVE  /\ Head(s) \in S /\ Tail(s) \in Seq(S) /\ Len(Tail(s)) = Len(s) - 1 /\ Len(s) \in Nat
         /\ Has(s, Head(s))
         /\ \A m : Has(s, m) <=> m = Head(s) \/ Has(Tail(s), m)
<1>1. /\ Head(s) \in S /\ Tail(s) \in Seq(S) /\ Len(Tail(s)) = Len(s) - 1
      /\ Len(s) \in Nat /\ Len(s) # 0 /\ Head(s) = s[1]
      /\ DOMAIN s = 1..Len(s) /\ DOMAIN Tail(s) = 1..(Len(s) - 1)
      /\ \A n \in 1..(Len(s) - 1) : Tail(s)[n] = s[n + 1]
  OBVIOUS
<1>2. ASSUME NEW n \in DOMAIN s PROVE n = 1 \/ (n - 1 \in DOMAIN Tail(s) /\ Tail(s)[n - 1] = s[n])
  BY <1>1
<1>3. 1 \in DOMAIN s /\ \A n \in DOMAIN Tail(s) : n + 1 \in DOMAIN s /\ s[n + 1] = Tail(s)[n]
  BY <1>1
<1>4. ASSUME NEW m, Has(s, m) PROVE m = Head(s) \/ Has(Tail(s), m)
  BY <1>1, <1>2, <1>4 DEF Has
<1>5. ASSUME NEW m, m = Head(s) \/ Has(Tail(s), m) PROVE Has(s, m)
  BY <1>1, <1>3, <1>5 DEF Has
<1> QED BY <1>1, <1>4, <1>5

\* What a queue of S has is in S.
LEMMA HasTyped ==
  ASSUME NEW S, NEW s \in Seq(S), NEW m, Has(s, m)
  PROVE  m \in S
BY DEF Has

-----------------------------------------------------------------------------
(* Lines.                                                                  *)

\* The four queues.
LEMMA FourKinds ==
  /\ DOMAIN Order = {1, 2, 3, 4}
  /\ Kinds = {"peer_left", "player_state", "quest_state", "loot_state"}
  /\ Order[1] = "peer_left" /\ Order[2] = "player_state"
  /\ Order[3] = "quest_state" /\ Order[4] = "loot_state"
<1>1. /\ DOMAIN Order = {1, 2, 3, 4}
      /\ Order[1] = "peer_left" /\ Order[2] = "player_state"
      /\ Order[3] = "quest_state" /\ Order[4] = "loot_state"
  BY DEF Order
<1> QED BY <1>1 DEF Kinds

\* What the lines of a kind carry.
LEMMA LinesCarry ==
  /\ \A m \in Messages : m.kind = "welcome" \/ (m.kind \in Kinds /\ m \in Lines(m.kind))
  /\ \A m \in Lines("peer_left") : m.sender \in Peers
  /\ Lines("player_state") = PlayerStates
  /\ Lines("quest_state") = QuestStates
  /\ Lines("loot_state") = LootStates
  /\ \A k \in Kinds : Lines(k) \subseteq Messages
<1>1. /\ \A m \in PlayerStates : m.kind = "player_state"
      /\ \A m \in QuestStates : m.kind = "quest_state"
      /\ \A m \in LootStates : m.kind = "loot_state"
      /\ \A m \in Departures : m.kind = "peer_left" /\ m.sender \in Peers
      /\ \A m \in [kind : {"welcome"}] : m.kind = "welcome"
  BY DEF PlayerStates, QuestStates, LootStates, Departures
<1> QED BY <1>1, FourKinds DEF Lines, Messages

\* The empty queues.
LEMMA EmptyQueues ==
  /\ Empty \in [Kinds -> Seq(Messages)]
  /\ \A k \in Kinds : Empty[k] = <<>> /\ Empty[k] \in Seq(Lines(k)) /\ Len(Empty[k]) = 0
BY DEF Empty

\* ApplyNext takes a line of its kind from a queue that has one.
LEMMA NextLine ==
  ASSUME QueueTypes, batch # Empty
  PROVE  LET kind == Order[NextKind] IN
         /\ kind \in Kinds /\ batch[kind] # <<>>
         /\ batch[kind] \in Seq(Lines(kind)) /\ Head(batch[kind]) \in Lines(kind)
<1>1. batch \in [Kinds -> Seq(Messages)] /\ \A k \in Kinds : batch[k] \in Seq(Lines(k))
  BY DEF QueueTypes
<1>2. \E k \in Kinds : batch[k] # <<>>
  BY <1>1 DEF Empty
<1> DEFINE First(n) == batch[Order[n]] # <<>> /\ \A k \in 1..(n - 1) : batch[Order[k]] = <<>>
<1>3. 1..0 = {} /\ 1..1 = {1} /\ 1..2 = {1, 2} /\ 1..3 = {1, 2, 3}
  OBVIOUS
<1>4. \E n \in DOMAIN Order : First(n)
  <2>1. batch[Order[1]] # <<>> => First(1)
    BY <1>3
  <2>2. batch[Order[1]] = <<>> /\ batch[Order[2]] # <<>> => First(2)
    BY <1>3
  <2>3. batch[Order[1]] = <<>> /\ batch[Order[2]] = <<>> /\ batch[Order[3]] # <<>> => First(3)
    BY <1>3
  <2>4. /\ batch[Order[1]] = <<>> /\ batch[Order[2]] = <<>> /\ batch[Order[3]] = <<>>
        /\ batch[Order[4]] # <<>>
        => First(4)
    BY <1>3
  <2>5. \/ batch[Order[1]] # <<>> \/ batch[Order[2]] # <<>>
        \/ batch[Order[3]] # <<>> \/ batch[Order[4]] # <<>>
    BY <1>2, FourKinds
  <2> HIDE DEF First
  <2> QED BY <2>1, <2>2, <2>3, <2>4, <2>5, FourKinds
<1>5. NextKind \in DOMAIN Order /\ batch[Order[NextKind]] # <<>>
  BY <1>4 DEF NextKind
<1>6. Order[NextKind] \in Kinds
  BY <1>5 DEF Kinds
<1> QED BY <1>1, <1>5, <1>6, HasRest

-----------------------------------------------------------------------------
(* The adapter inside the plugin.                                          *)

\* Handle leaves the line where Queued puts it.
LEMMA QueuedLine ==
  ASSUME QueueTypes, NEW m \in Messages, m.kind # "welcome"
  PROVE  /\ m.kind \in Kinds
         /\ Queued(m) \in Seq(Messages) /\ Queued(m) \in Seq(Lines(m.kind))
         /\ m.kind # "peer_left" => Len(Queued(m)) <= QueueLimit
         /\ \A x : Has(Queued(m), x) => Has(inbox[m.kind], x) \/ x = m
         /\ ~Overflows(m) => \A x : Has(Queued(m), x) <=> Has(inbox[m.kind], x) \/ x = m
<1> DEFINE k == m.kind
           queue == Append(inbox[k], m)
<1>1. k \in Kinds /\ m \in Lines(k)
  BY LinesCarry
<1>2. /\ inbox[k] \in Seq(Messages) /\ inbox[k] \in Seq(Lines(k)) /\ Len(inbox[k]) \in Nat
      /\ k # "peer_left" => Len(inbox[k]) <= QueueLimit
  BY <1>1 DEF QueueTypes
<1>3. /\ queue \in Seq(Messages) /\ queue \in Seq(Lines(k))
      /\ Len(queue) = Len(inbox[k]) + 1 /\ queue # <<>>
      /\ \A x : Has(queue, x) <=> Has(inbox[k], x) \/ x = m
  <2>1. Len(queue) = Len(inbox[k]) + 1
    BY <1>1, <1>2, HasAppended
  <2>2. queue # <<>>
    BY <1>2, <2>1
  <2> QED BY <1>1, <1>2, <2>1, <2>2, HasAppended
<1>4. /\ Tail(queue) \in Seq(Messages) /\ Tail(queue) \in Seq(Lines(k))
      /\ Len(Tail(queue)) = Len(queue) - 1
      /\ \A x : Has(Tail(queue), x) => Has(queue, x)
  BY <1>3, HasRest
<1> HIDE DEF queue
<1>5. Queued(m) = IF Overflows(m) THEN Tail(queue) ELSE queue
  BY DEF Queued, queue
<1>6. Overflows(m) <=> k # "peer_left" /\ Len(inbox[k]) >= QueueLimit
  BY DEF Overflows
<1>7. CASE Overflows(m)
  BY <1>1, <1>2, <1>3, <1>4, <1>5, <1>6, <1>7, PluginAssumption
<1>8. CASE ~Overflows(m)
  BY <1>1, <1>2, <1>3, <1>5, <1>6, <1>8, PluginAssumption
<1> QED BY <1>7, <1>8

\* A line of kind quest_state is about a quest.
LEMMA QuestOfLine ==
  \A m \in Messages : m.kind = "quest_state" => m \in QuestStates /\ m.quest \in Quests
BY LinesCarry DEF Lines, QuestStates

\* What a full queue loses is a line, of the queue or the new one, and all else of
\* it is still there.
LEMMA DroppedLine ==
  ASSUME QueueTypes, NEW m \in Messages, m.kind # "welcome"
  PROVE  /\ Dropped(m) \in Messages
         /\ \A x : Has(inbox[m.kind], x) \/ x = m => Has(Queued(m), x) \/ x = Dropped(m)
<1> DEFINE queue == Append(inbox[m.kind], m)
<1>1. m.kind \in Kinds /\ inbox[m.kind] \in Seq(Messages)
  BY LinesCarry DEF QueueTypes
<1>2. /\ queue \in Seq(Messages) /\ queue # <<>>
      /\ \A x : Has(queue, x) <=> Has(inbox[m.kind], x) \/ x = m
  <2>1. Len(queue) = Len(inbox[m.kind]) + 1 /\ Len(inbox[m.kind]) \in Nat
    BY <1>1, HasAppended
  <2> QED BY <1>1, <2>1, HasAppended
<1> HIDE DEF queue
<1>3. Head(queue) \in Messages /\ \A x : Has(queue, x) <=> x = Head(queue) \/ Has(Tail(queue), x)
  BY <1>2, HasRest
<1>4. Dropped(m) = Head(queue) /\ (Queued(m) = Tail(queue) \/ Queued(m) = queue)
  BY DEF Dropped, Queued, queue
<1> QED BY <1>2, <1>3, <1>4

\* The relay sends a line.
Sends ==
  \/ \E p \in Peers, cell \in Names : PeerReports(p, cell)
  \/ \E p \in Peers : PeerLeaves(p)
  \/ \E q \in Quests, time \in 0..MaxClock : HostReports(q, time)
  \/ \E l \in Loots : HostDrops(l)

\* The steps that leave the adapter alone.
Aside ==
  \/ Loop \/ ReceiveLine \/ Handle \/ Bootstrap \/ Tick \/ TakeQueues \/ Stop \/ Destroy
  \/ Sends \/ RelayCloses

LEMMA AsideKeepsAdapter == Aside => UNCHANGED adapterVars
BY DEF Aside, Sends, Loop, ReceiveLine, Handle, Bootstrap, Tick, TakeQueues, Stop, Destroy,
       PeerReports, PeerLeaves, HostReports, HostDrops, RelaySends, RelayCloses

LEMMA StepKinds ==
  Next <=> Aside \/ ApplyNext \/ EndPump \/ ResetSessionState \/ Play
BY DEF Next, Aside, Sends, ReceiveThread, GameThread, Outside

\* Every step of the plugin is one of the adapter's, or leaves it alone.
LEMMA AdapterTaken ==
  ASSUME QueueTypes, [Next]_pluginVars
  PROVE  [AdapterNext]_adapterVars
<1>1. CASE Aside
  BY <1>1, AsideKeepsAdapter
<1>2. CASE ApplyNext
  <2> DEFINE kind == Order[NextKind]
             m == Head(batch[kind])
  <2>1. kind \in Kinds /\ m \in Lines(kind)
    BY <1>2, NextLine DEF ApplyNext
  <2>2. CASE kind = "peer_left"
    BY <1>2, <2>1, <2>2, LinesCarry DEF ApplyNext, AdapterNext
  <2>3. CASE kind = "player_state"
    BY <1>2, <2>1, <2>3, LinesCarry DEF ApplyNext, AdapterNext
  <2>4. CASE kind = "quest_state"
    BY <1>2, <2>1, <2>4, LinesCarry DEF ApplyNext, AdapterNext
  <2>5. CASE kind = "loot_state"
    BY <1>2, <2>1, <2>5, LinesCarry DEF ApplyNext, AdapterNext
  <2> QED BY <2>1, <2>2, <2>3, <2>4, <2>5, FourKinds
<1>3. CASE EndPump
  BY <1>3 DEF EndPump, AdapterNext
<1>4. CASE ResetSessionState
  BY <1>4 DEF ResetSessionState, AdapterNext
<1>5. CASE Play
  BY <1>5 DEF Play, AdapterNext
<1>6. CASE UNCHANGED pluginVars
  BY <1>6 DEF pluginVars
<1> QED BY <1>1, <1>2, <1>3, <1>4, <1>5, <1>6, StepKinds

-----------------------------------------------------------------------------
(* Types, and the caps of the queues.                                      *)

Types == ThreadTypes /\ InHand /\ QueueTypes /\ RelayTypes /\ Pumped

\* The replay is the welcome and every known quest once.
LEMMA ReplayOfAll ==
  ASSUME Init
  PROVE  /\ wire \in Seq(Messages) /\ wire # <<>> /\ Head(wire) = [kind |-> "welcome"]
         /\ stored \in [Quests -> QuestStates]
         /\ \A q \in Quests : stored[q].quest = q
         /\ \A q \in Quests : stored[q].stage > 0 => Has(wire, stored[q])
         /\ \A m \in QuestStates : Has(wire, m) => m.stage <= stored[m.quest].stage
<1>0. PICK known \in SUBSET Quests : \E ahead \in SUBSET known :
        /\ stored = [q \in Quests |-> [kind |-> "quest_state", quest |-> q,
                       stage |-> IF q \in ahead THEN 1 ELSE 0, time |-> 0]]
        /\ \E replay \in [1..Cardinality(known) -> known] :
             /\ \A m, n \in DOMAIN replay : replay[m] = replay[n] => m = n
             /\ wire = <<[kind |-> "welcome"]>>
                         \o [n \in DOMAIN replay |-> stored[replay[n]]]
  BY DEF Init
<1>1. PICK ahead \in SUBSET known :
        /\ stored = [q \in Quests |-> [kind |-> "quest_state", quest |-> q,
                       stage |-> IF q \in ahead THEN 1 ELSE 0, time |-> 0]]
        /\ \E replay \in [1..Cardinality(known) -> known] :
             /\ \A m, n \in DOMAIN replay : replay[m] = replay[n] => m = n
             /\ wire = <<[kind |-> "welcome"]>>
                         \o [n \in DOMAIN replay |-> stored[replay[n]]]
  BY <1>0
<1>2. PICK replay \in [1..Cardinality(known) -> known] :
        /\ \A m, n \in DOMAIN replay : replay[m] = replay[n] => m = n
        /\ wire = <<[kind |-> "welcome"]>> \o [n \in DOMAIN replay |-> stored[replay[n]]]
  BY <1>1
<1> DEFINE size == Cardinality(known)
           told == [n \in 1..size |-> stored[replay[n]]]
           welcome == [kind |-> "welcome"]
<1>3. IsFiniteSet(known) /\ size \in Nat
  BY FS_Subset, FS_CardinalityType, PluginAssumption
<1>4. \A q \in known : \E n \in 1..size : replay[n] = q
  <2>1. replay \in Injection(1..size, known)
    <3>1. replay \in [1..size -> known] /\ DOMAIN replay = 1..size
      OBVIOUS
    <3>2. \A a, b \in 1..size : replay[a] = replay[b] => a = b
      BY <1>2, <3>1
    <3> HIDE DEF size
    <3> QED BY <3>1, <3>2, Zenon DEF Injection, IsInjective
  <2>2. Cardinality(1..size) = size
    BY <1>3, FS_Interval
  <2>3. replay \in Surjection(1..size, known)
    BY <1>3, <2>1, <2>2, FS_Injection
  <2> QED BY <2>3 DEF Surjection
<1>5. ASSUME NEW q \in Quests
      PROVE  /\ stored[q] \in QuestStates /\ stored[q].quest = q
             /\ stored[q].stage = IF q \in ahead THEN 1 ELSE 0
  <2>1. stored[q] = [kind |-> "quest_state", quest |-> q,
                     stage |-> IF q \in ahead THEN 1 ELSE 0, time |-> 0]
    BY <1>1
  <2>2. 0 \in 0..MaxClock /\ 0 \in 0..MaxStage /\ 1 \in 0..MaxStage
    BY GameAdapterAssumption, PluginAssumption
  <2> QED BY <2>1, <2>2 DEF QuestStates
<1>6. stored \in [Quests -> QuestStates]
  BY <1>1, <1>5
<1>7. \A n \in 1..size : replay[n] \in Quests /\ stored[replay[n]] \in Messages
  BY <1>2, <1>5 DEF Messages
<1>8. welcome \in Messages /\ told \in Seq(Messages) /\ Len(told) = size
  BY <1>3, <1>7 DEF Messages
<1>9. wire = <<welcome>> \o told
  BY <1>2
<1> HIDE DEF told, welcome
<1>10. /\ wire \in Seq(Messages) /\ wire # <<>> /\ Head(wire) = welcome
       /\ DOMAIN wire = 1..(size + 1)
       /\ wire[1] = welcome
       /\ \A n \in 1..size : wire[n + 1] = told[n]
  BY <1>3, <1>8, <1>9
<1>11. ASSUME NEW q \in Quests, stored[q].stage > 0 PROVE Has(wire, stored[q])
  <2>1. q \in known
    BY <1>5, <1>11
  <2>2. PICK n \in 1..size : replay[n] = q
    BY <1>4, <2>1
  <2>3. n + 1 \in DOMAIN wire /\ wire[n + 1] = stored[q]
    BY <1>3, <1>10, <2>2 DEF told
  <2> QED BY <2>3 DEF Has
<1>12. ASSUME NEW m \in QuestStates, Has(wire, m) PROVE m.stage <= stored[m.quest].stage
  <2>1. PICK n \in 1..(size + 1) : wire[n] = m
    BY <1>10, <1>12 DEF Has
  <2>2. n # 1
    BY <1>10, <2>1 DEF welcome, QuestStates
  <2>3. n - 1 \in 1..size /\ m = told[n - 1]
    BY <1>3, <1>10, <2>1, <2>2
  <2>4. m = stored[replay[n - 1]] /\ replay[n - 1] \in Quests
    BY <1>7, <2>3 DEF told
  <2>5. stored[m.quest] = m /\ m.stage \in Int
    BY <1>5, <2>4, GameAdapterAssumption DEF QuestStates
  <2> QED BY <2>5
<1> QED BY <1>5, <1>6, <1>10, <1>11, <1>12 DEF welcome

LEMMA InitTypes == Init => Types
<1> SUFFICES ASSUME Init PROVE Types
  OBVIOUS
<1>1. /\ game = "loading" /\ receiver = "off" /\ hand = NoMessage /\ inbox = Empty
      /\ batch = Empty /\ running = FALSE /\ connected = FALSE /\ mismatch = FALSE
      /\ link = "open" /\ compatible \in BOOLEAN /\ present \subseteq Peers /\ sent = 0
      /\ resets = 0 /\ lost = {}
  BY DEF Init
<1>2. ThreadTypes /\ InHand /\ Pumped
  <2>1. 0 \in 0..MaxSent /\ 0 \in 0..MaxResets
    BY PluginAssumption
  <2>2. ThreadTypes
    BY <1>1, <2>1 DEF ThreadTypes
  <2> QED BY <1>1, <2>2 DEF InHand, Pumped
<1>3. QueueTypes
  <2>1. QueueLimit \in Nat /\ 0 <= QueueLimit
    BY PluginAssumption
  <2> QED BY <1>1, <2>1, EmptyQueues DEF QueueTypes
<1>4. RelayTypes
  BY <1>1, ReplayOfAll DEF RelayTypes
<1> QED BY <1>2, <1>3, <1>4 DEF Types

\* What the relay sends is a line, and a quest update is stored as it is sent.
LEMMA LinesSent ==
  ASSUME now \in 0..MaxClock, RelayTypes, Sends
  PROVE  \E m \in Messages :
           /\ RelaySends(m) /\ present' \subseteq Peers
           /\ \/ /\ m \in QuestStates /\ stored' = [stored EXCEPT ![m.quest] = m]
                 /\ stored[m.quest].stage < m.stage
                 /\ lost' = lost \ {m.quest}
              \/ m \notin QuestStates /\ stored' = stored /\ lost' = lost
<1>1. ASSUME NEW p \in Peers, NEW cell \in Names, PeerReports(p, cell)
      PROVE  \E m \in Messages : /\ RelaySends(m) /\ present' \subseteq Peers
                                /\ m \notin QuestStates /\ stored' = stored
                                /\ lost' = lost
  <2> DEFINE m == [kind |-> "player_state", sender |-> p, cell |-> cell, time |-> now]
  <2>1. m \in Messages /\ m \notin QuestStates
    BY DEF Messages, PlayerStates, QuestStates
  <2>2. RelaySends(m) /\ present' \subseteq Peers /\ stored' = stored /\ lost' = lost
    BY <1>1 DEF PeerReports, RelayTypes
  <2> QED BY <2>1, <2>2
<1>2. ASSUME NEW p \in Peers, PeerLeaves(p)
      PROVE  \E m \in Messages : /\ RelaySends(m) /\ present' \subseteq Peers
                                /\ m \notin QuestStates /\ stored' = stored
                                /\ lost' = lost
  <2> DEFINE m == [kind |-> "peer_left", sender |-> p]
  <2>1. m \in Messages /\ m \notin QuestStates
    BY DEF Messages, Departures, QuestStates
  <2>2. RelaySends(m) /\ present' \subseteq Peers /\ stored' = stored /\ lost' = lost
    BY <1>2 DEF PeerLeaves, RelayTypes
  <2> QED BY <2>1, <2>2
<1>3. ASSUME NEW q \in Quests, NEW time \in 0..MaxClock, HostReports(q, time)
      PROVE  \E m \in Messages : /\ RelaySends(m) /\ present' \subseteq Peers
                                /\ m \in QuestStates /\ stored' = [stored EXCEPT ![m.quest] = m]
                                /\ stored[m.quest].stage < m.stage
                                /\ lost' = lost \ {m.quest}
  <2> DEFINE m == [kind |-> "quest_state", quest |-> q, stage |-> stored[q].stage + 1,
                   time |-> time]
  <2>1. stored[q].stage \in 0..MaxStage /\ stored[q].stage < MaxStage
    BY <1>3 DEF HostReports, RelayTypes, QuestStates
  <2>2. m \in QuestStates /\ m \in Messages /\ m.quest = q /\ stored[q].stage < m.stage
    BY <2>1, GameAdapterAssumption DEF Messages, QuestStates
  <2>3. stored' = [stored EXCEPT ![q] = m] /\ RelaySends(m) /\ present' = present
        /\ lost' = lost \ {q}
    BY <1>3 DEF HostReports
  <2> HIDE DEF m
  <2> QED BY <2>2, <2>3 DEF RelayTypes
<1>4. ASSUME NEW l \in Loots, HostDrops(l)
      PROVE  \E m \in Messages : /\ RelaySends(m) /\ present' \subseteq Peers
                                /\ m \notin QuestStates /\ stored' = stored
                                /\ lost' = lost
  <2> DEFINE m == [kind |-> "loot_state", loot |-> l, time |-> now]
  <2>1. m \in Messages /\ m \notin QuestStates
    BY DEF Messages, LootStates, QuestStates
  <2>2. RelaySends(m) /\ present' \subseteq Peers /\ stored' = stored /\ lost' = lost
    BY <1>4 DEF HostDrops, RelayTypes
  <2> QED BY <2>1, <2>2
<1> QED BY <1>1, <1>2, <1>3, <1>4 DEF Sends

LEMMA AsideKeepsTypes ==
  ASSUME AdapterInv, Types, Aside
  PROVE  Types'
<1> USE DEF Types
<1>0. /\ ThreadTypes /\ InHand /\ QueueTypes /\ RelayTypes /\ Pumped
      /\ now \in 0..MaxClock
  BY DEF AdapterInv, ProxyTypes
<1>1. CASE Loop
  BY <1>0, <1>1 DEF Loop, ThreadTypes, InHand, QueueTypes, RelayTypes, Pumped, queueVars,
                    clientVars, relayVars
<1>2. CASE ReceiveLine
  <2>1. UNCHANGED <<game, inbox, batch, running, mismatch, link, compatible, stored,
                    present, sent, resets, lost>>
    BY <1>2 DEF ReceiveLine, queueVars
  <2>2. CASE wire # <<>> /\ hand' = Head(wire) /\ wire' = Tail(wire)
             /\ receiver' = "handling" /\ UNCHANGED connected
    <3>1. Head(wire) \in Messages /\ Tail(wire) \in Seq(Messages)
      BY <1>0, <2>2, HasRest DEF RelayTypes
    <3>2. receiver = "reading"
      BY <1>2 DEF ReceiveLine
    <3>3. ThreadTypes' /\ InHand'
      BY <1>0, <2>1, <2>2, <3>1, <3>2 DEF ThreadTypes, InHand
    <3> QED BY <1>0, <2>1, <2>2, <3>1, <3>3 DEF QueueTypes, RelayTypes, Pumped
  <2>3. CASE connected' = FALSE /\ receiver' = "looping" /\ UNCHANGED <<hand, wire>>
    <3>1. receiver = "reading" /\ hand = NoMessage
      BY <1>0, <1>2 DEF ReceiveLine, InHand
    <3>2. ThreadTypes' /\ InHand'
      BY <1>0, <2>1, <2>3, <3>1 DEF ThreadTypes, InHand
    <3> QED BY <1>0, <2>1, <2>3, <3>2 DEF QueueTypes, RelayTypes, Pumped
  <2> QED BY <1>2, <2>2, <2>3 DEF ReceiveLine
<1>3. CASE Handle
  <2>1. /\ receiver = "handling" /\ hand \in Messages /\ hand' = NoMessage
        /\ receiver' = "looping" /\ UNCHANGED <<game, batch, running, relayVars, resets>>
    BY <1>0, <1>3 DEF Handle, InHand
  <2>2. mismatch' \in BOOLEAN /\ connected' \in BOOLEAN /\ lost' \subseteq Quests
    <3>1. CASE hand.kind = "welcome"
      BY <1>0, <1>3, <3>1 DEF Handle, OnProtocolMismatch, ThreadTypes
    <3>2. CASE hand.kind # "welcome"
      <4>1. Dropped(hand).kind = "quest_state" => Dropped(hand).quest \in Quests
        BY <1>0, <2>1, <3>2, DroppedLine, QuestOfLine
      <4>2. lost' = lost \/ (IsLast(Dropped(hand)) /\ lost' = lost \cup {Dropped(hand).quest})
        BY <1>3, <3>2 DEF Handle
      <4>3. mismatch' = mismatch /\ connected' = connected
        BY <1>3, <3>2 DEF Handle
      <4> QED BY <1>0, <4>1, <4>2, <4>3 DEF ThreadTypes, IsLast
    <3> QED BY <3>1, <3>2
  <2>3. QueueTypes'
    <3>1. CASE hand.kind = "welcome"
      BY <1>0, <1>3, <2>1, <3>1 DEF Handle, QueueTypes
    <3>2. CASE hand.kind # "welcome"
      <4>1. /\ hand.kind \in Kinds
            /\ Queued(hand) \in Seq(Messages) /\ Queued(hand) \in Seq(Lines(hand.kind))
            /\ hand.kind # "peer_left" => Len(Queued(hand)) <= QueueLimit
        BY <1>0, <2>1, <3>2, QueuedLine
      <4>2. inbox' = [inbox EXCEPT ![hand.kind] = Queued(hand)] /\ batch' = batch
        BY <1>3, <2>1, <3>2 DEF Handle
      <4> QED BY <1>0, <4>1, <4>2 DEF QueueTypes
    <3> QED BY <3>1, <3>2
  <2> QED BY <1>0, <2>1, <2>2, <2>3 DEF ThreadTypes, InHand, RelayTypes, Pumped, relayVars
<1>4. CASE Bootstrap \/ Tick \/ Stop \/ Destroy
  BY <1>0, <1>4 DEF Bootstrap, Tick, Stop, Destroy, ThreadTypes, InHand, QueueTypes,
                    RelayTypes, Pumped, queueVars, clientVars, relayVars
<1>5. CASE TakeQueues
  <2>1. QueueTypes'
    <3>1. batch' = inbox /\ inbox' = Empty
      BY <1>5 DEF TakeQueues
    <3>2. 0 <= QueueLimit
      BY PluginAssumption
    <3> QED BY <1>0, <3>1, <3>2, EmptyQueues DEF QueueTypes
  <2> QED BY <1>0, <1>5, <2>1 DEF TakeQueues, ThreadTypes, InHand, RelayTypes, Pumped,
                                  clientVars, relayVars
<1>6. CASE Sends
  <2>1. PICK m \in Messages :
          /\ RelaySends(m) /\ present' \subseteq Peers /\ lost' \subseteq lost
          /\ \/ m \in QuestStates /\ stored' = [stored EXCEPT ![m.quest] = m]
             \/ stored' = stored
    BY <1>0, <1>6, LinesSent
  <2>2. wire' \in Seq(Messages) /\ sent' \in 0..MaxSent
    <3>1. wire' = Append(wire, m) /\ sent < MaxSent /\ sent' = sent + 1
      BY <2>1 DEF RelaySends
    <3> QED BY <1>0, <3>1, PluginAssumption, HasAppended DEF ThreadTypes, RelayTypes
  <2>3. stored' \in [Quests -> QuestStates] /\ \A q \in Quests : stored'[q].quest = q
    <3>1. m \in QuestStates => m.quest \in Quests
      BY DEF QuestStates
    <3> QED BY <1>0, <2>1, <3>1 DEF RelayTypes
  <2> QED BY <1>0, <2>1, <2>2, <2>3
          DEF RelaySends, ThreadTypes, InHand, QueueTypes, RelayTypes, Pumped, threadVars,
              queueVars, clientVars
<1>7. CASE RelayCloses
  BY <1>0, <1>7 DEF RelayCloses, ThreadTypes, InHand, QueueTypes, RelayTypes, Pumped,
                     threadVars, queueVars, clientVars
<1> QED BY <1>1, <1>2, <1>3, <1>4, <1>5, <1>6, <1>7 DEF Aside

LEMMA StepKeepsTypes ==
  ASSUME AdapterInv, Types, [Next]_pluginVars
  PROVE  Types'
<1>0. ThreadTypes /\ InHand /\ QueueTypes /\ RelayTypes /\ Pumped
  BY DEF Types
<1>1. CASE ApplyNext
  <2> DEFINE kind == Order[NextKind]
  <2>1. /\ UNCHANGED <<threadVars, inbox, clientVars, relayVars, resets>>
        /\ game = "applying" /\ batch # Empty
        /\ batch' = [batch EXCEPT ![kind] = Tail(@)]
    BY <1>0, <1>1 DEF ApplyNext, ThreadTypes
  <2>2. kind \in Kinds /\ batch[kind] # <<>> /\ batch[kind] \in Seq(Lines(kind))
    BY <1>0, <2>1, NextLine
  <2>3. Tail(batch[kind]) \in Seq(Messages) /\ Tail(batch[kind]) \in Seq(Lines(kind))
    <3>1. batch[kind] \in Seq(Messages)
      BY <1>0, <2>2 DEF QueueTypes
    <3> QED BY <2>2, <3>1, HasRest
  <2>4. lost' \subseteq Quests
    <3> DEFINE m == Head(batch[kind])
    <3>1. m \in Messages
      BY <2>2, HasRest, LinesCarry
    <3>2. lost' = lost \/ (IsLast(m) /\ lost' = lost \cup {m.quest})
      BY <1>1 DEF ApplyNext
    <3> HIDE DEF m
    <3> QED BY <1>0, <3>1, <3>2, QuestOfLine DEF IsLast, ThreadTypes
  <2> HIDE DEF kind
  <2>5. QueueTypes'
    BY <1>0, <2>1, <2>2, <2>3 DEF QueueTypes
  <2> QED BY <1>0, <2>1, <2>4, <2>5 DEF Types, ThreadTypes, InHand, RelayTypes, Pumped, threadVars,
                                  clientVars, relayVars
<1>2. CASE EndPump
  BY <1>0, <1>2 DEF EndPump, Types, ThreadTypes, InHand, QueueTypes, RelayTypes, Pumped,
                    queueVars, clientVars, relayVars
<1>3. CASE ResetSessionState
  <2>1. inbox' = Empty /\ batch' = batch /\ 0 <= QueueLimit
    BY <1>3, PluginAssumption DEF ResetSessionState
  <2>2. QueueTypes'
    BY <1>0, <2>1, EmptyQueues DEF QueueTypes
  <2>3. resets' \in 0..MaxResets /\ lost' \subseteq Quests
    BY <1>0, <1>3, PluginAssumption DEF ResetSessionState, ThreadTypes
  <2> QED BY <1>0, <1>3, <2>1, <2>2, <2>3
          DEF ResetSessionState, Types, ThreadTypes, InHand, RelayTypes, Pumped, threadVars,
              relayVars
<1>4. CASE Play \/ UNCHANGED pluginVars
  BY <1>0, <1>4 DEF Play, pluginVars, Types, ThreadTypes, InHand, QueueTypes, RelayTypes,
                    Pumped, threadVars, queueVars, clientVars, relayVars
<1> QED BY <1>1, <1>2, <1>3, <1>4, AsideKeepsTypes, StepKinds

-----------------------------------------------------------------------------
(* The welcome of another version.                                         *)

LEMMA StepKeepsRejected ==
  ASSUME Types, Rejected, [Next]_pluginVars
  PROVE  Rejected'
<1> SUFFICES ASSUME ~compatible, compatible' = compatible PROVE Rejected'
  <2>1. compatible' = compatible
    BY DEF Next, ReceiveThread, GameThread, Outside, pluginVars, relayVars, Loop, ReceiveLine,
           Handle, Bootstrap, Tick, TakeQueues, ApplyNext, EndPump, ResetSessionState, Stop,
           Destroy, PeerReports, PeerLeaves, HostReports, HostDrops, RelaySends, RelayCloses, Play
  <2> QED BY <2>1 DEF Rejected
<1>0. /\ inbox = Empty /\ batch = Empty /\ InHand /\ wire \in Seq(Messages)
      /\ game = "loading" => receiver = "off"
  BY DEF Types, ThreadTypes, RelayTypes, Rejected
<1>1. CASE Loop
  BY <1>1 DEF Loop, Rejected, queueVars, clientVars, relayVars
<1>2. CASE ReceiveLine
  BY <1>0, <1>2 DEF ReceiveLine, Rejected, queueVars
<1>3. CASE Handle
  BY <1>0, <1>3 DEF Handle, OnProtocolMismatch, Rejected, relayVars
<1>4. CASE Bootstrap
  BY <1>0, <1>4 DEF Bootstrap, Rejected, queueVars, relayVars
<1>5. CASE Tick \/ Stop \/ Destroy
  BY <1>0, <1>5 DEF Tick, Stop, Destroy, Rejected, queueVars, clientVars, relayVars
<1>6. CASE TakeQueues
  BY <1>0, <1>6 DEF TakeQueues, Rejected, clientVars, relayVars
<1>7. CASE ApplyNext
  BY <1>0, <1>7 DEF ApplyNext
<1>8. CASE EndPump
  BY <1>0, <1>8 DEF EndPump, Rejected, queueVars, clientVars, relayVars
<1>9. CASE ResetSessionState
  BY <1>0, <1>9 DEF ResetSessionState, Rejected, threadVars, relayVars
<1>10. CASE RelayCloses \/ Play \/ UNCHANGED pluginVars
  BY <1>0, <1>10 DEF RelayCloses, Play, pluginVars, Rejected, threadVars, queueVars, clientVars,
                     relayVars
<1>11. CASE Sends
  <2>1. PICK m : RelaySends(m)
    BY <1>11 DEF Sends, PeerReports, PeerLeaves, HostReports, HostDrops
  <2>2. wire # <<>> => wire' # <<>> /\ Head(wire') = Head(wire)
    <3>1. wire' = Append(wire, m)
      BY <2>1 DEF RelaySends
    <3> QED BY <1>0, <3>1
  <2> QED BY <1>0, <2>1, <2>2 DEF RelaySends, Rejected, threadVars, queueVars, clientVars
<1> QED BY <1>1, <1>2, <1>3, <1>4, <1>5, <1>6, <1>7, <1>8, <1>9, <1>10, <1>11
        DEF Next, Sends, ReceiveThread, GameThread, Outside

-----------------------------------------------------------------------------
(* Quest updates on their way.                                             *)

\* What the steps that do not touch the queues leave alone.
LEMMA FlightUnchanged ==
  ASSUME UNCHANGED <<wire, receiver, hand, inbox, batch>>
  PROVE  \A m : InFlight(m)' <=> InFlight(m)
BY DEF InFlight, Has

\* The other steps leave alone what is on its way.
FlightMoves ==
  ReceiveLine \/ Handle \/ TakeQueues \/ ApplyNext \/ ResetSessionState \/ Sends

LEMMA StillInFlight ==
  ASSUME Types, [Next]_pluginVars, ~FlightMoves
  PROVE  \A m : InFlight(m)' <=> InFlight(m)
<1>1. CASE Loop \/ Bootstrap
  BY <1>1 DEF Loop, Bootstrap, InFlight, Has, queueVars, relayVars, Types, ThreadTypes, InHand
<1>2. CASE Tick \/ EndPump \/ Stop \/ Destroy \/ RelayCloses \/ Play \/ UNCHANGED pluginVars
  BY <1>2, FlightUnchanged DEF Tick, EndPump, Stop, Destroy, RelayCloses, Play, pluginVars, threadVars,
                               queueVars, relayVars
<1> QED BY <1>1, <1>2 DEF FlightMoves, Sends, Next, ReceiveThread, GameThread, Outside

\* The line that is sent joins the end of the stream.
LEMMA FlightOfSent ==
  ASSUME Types, NEW m \in Messages, RelaySends(m)
  PROVE  \A x : InFlight(x)' <=> InFlight(x) \/ x = m
<1>1. wire' = Append(wire, m) /\ UNCHANGED <<receiver, hand, inbox, batch>>
  BY DEF RelaySends, threadVars, queueVars
<1>2. \A x : Has(Append(wire, m), x) <=> Has(wire, x) \/ x = m
  BY HasAppended DEF Types, RelayTypes
<1> QED BY <1>1, <1>2 DEF InFlight, Has

\* The line that is read is in the hand then.
LEMMA FlightOfRead ==
  ASSUME Types, ReceiveLine
  PROVE  \A x : InFlight(x)' <=> InFlight(x)
<1>1. UNCHANGED <<inbox, batch>> /\ receiver = "reading"
  BY DEF ReceiveLine, queueVars
<1>2. CASE wire # <<>> /\ hand' = Head(wire) /\ wire' = Tail(wire) /\ receiver' = "handling"
  <2>1. \A x : Has(wire, x) <=> x = Head(wire) \/ Has(Tail(wire), x)
    BY <1>2, HasRest DEF Types, RelayTypes
  <2> QED BY <1>1, <1>2, <2>1 DEF InFlight, Has
<1>3. CASE receiver' = "looping" /\ UNCHANGED <<hand, wire>>
  BY <1>1, <1>3 DEF InFlight, Has
<1> QED BY <1>2, <1>3 DEF ReceiveLine

\* The line in the hand goes to its queue, and only an overflow loses one.
LEMMA FlightOfHandled ==
  ASSUME Types, Handle
  PROVE  \A x \in QuestStates :
           /\ InFlight(x)' => InFlight(x)
           /\ InFlight(x) => \/ InFlight(x)'
                             \/ /\ hand.kind = "quest_state" /\ Overflows(hand)
                                /\ x = Dropped(hand)
<1>1. /\ UNCHANGED <<wire, batch>> /\ receiver = "handling" /\ receiver' = "looping"
      /\ hand \in Messages
  BY DEF Handle, relayVars, Types, InHand
<1>2. CASE hand.kind = "welcome"
  <2>1. inbox' = inbox /\ hand \notin QuestStates
    BY <1>2 DEF Handle, QuestStates
  <2> QED BY <1>1, <2>1 DEF InFlight, Has
<1>3. CASE hand.kind \notin {"welcome", "quest_state"}
  <2>1. inbox' = [inbox EXCEPT ![hand.kind] = Queued(hand)] /\ hand \notin QuestStates
    BY <1>3 DEF Handle, QuestStates
  <2>2. inbox'["quest_state"] = inbox["quest_state"]
    BY <1>3, <2>1, FourKinds DEF Types, QueueTypes
  <2> QED BY <1>1, <2>1, <2>2 DEF InFlight, Has
<1>4. CASE hand.kind = "quest_state"
  <2>1. inbox' = [inbox EXCEPT !["quest_state"] = Queued(hand)]
    BY <1>4 DEF Handle
  <2>2. inbox'["quest_state"] = Queued(hand)
    BY <2>1, FourKinds DEF Types, QueueTypes
  <2>3. /\ \A x : Has(Queued(hand), x) => Has(inbox["quest_state"], x) \/ x = hand
        /\ ~Overflows(hand) =>
             \A x : Has(Queued(hand), x) <=> Has(inbox["quest_state"], x) \/ x = hand
        /\ \A x : Has(inbox["quest_state"], x) \/ x = hand
                  => Has(Queued(hand), x) \/ x = Dropped(hand)
    BY <1>1, <1>4, QueuedLine, DroppedLine DEF Types
  <2>4. \A x : Has(inbox["quest_state"], x)' <=> Has(Queued(hand), x)
    BY <2>2 DEF Has
  <2>5. \A x : Has(wire, x)' = Has(wire, x) /\ Has(batch["quest_state"], x)' = Has(batch["quest_state"], x)
    BY <1>1 DEF Has
  <2> HIDE DEF Queued, Overflows, Dropped
  <2> QED BY <1>1, <1>4, <2>3, <2>4, <2>5 DEF InFlight
<1> QED BY <1>2, <1>3, <1>4

\* The queues change hands whole.
LEMMA FlightOfTaken ==
  ASSUME Types, TakeQueues
  PROVE  \A x : InFlight(x)' <=> InFlight(x)
<1>1. /\ UNCHANGED <<wire, receiver, hand>> /\ batch = Empty /\ batch' = inbox
      /\ inbox' = Empty
  BY DEF TakeQueues, relayVars, Types, Pumped
<1>2. Empty["quest_state"] = <<>>
  BY EmptyQueues, FourKinds
<1> QED BY <1>1, <1>2, HasNothing DEF InFlight, Has

\* What is applied leaves its queue.
LEMMA FlightOfApplied ==
  ASSUME Types, ApplyNext
  PROVE  /\ \A x \in QuestStates : InFlight(x)' => InFlight(x)
         /\ \/ /\ Order[NextKind] = "quest_state"
               /\ Head(batch["quest_state"]) \in QuestStates
               /\ InFlight(Head(batch["quest_state"]))
               /\ \A x : InFlight(x) => InFlight(x)' \/ x = Head(batch["quest_state"])
            \/ /\ Order[NextKind] # "quest_state"
               /\ \A x : InFlight(x) => InFlight(x)'
<1> DEFINE kind == Order[NextKind]
<1>1. /\ UNCHANGED <<wire, receiver, hand, inbox>>
      /\ batch # Empty /\ batch' = [batch EXCEPT ![kind] = Tail(@)]
  BY DEF ApplyNext, threadVars, relayVars
<1>2. kind \in Kinds /\ batch[kind] # <<>> /\ batch[kind] \in Seq(Lines(kind))
  BY <1>1, NextLine DEF Types
<1> HIDE DEF kind
<1>3. CASE kind = "quest_state"
  <2>1. batch'["quest_state"] = Tail(batch["quest_state"])
    BY <1>1, <1>2, <1>3 DEF Types, QueueTypes
  <2>2. /\ Head(batch["quest_state"]) \in QuestStates
        /\ Has(batch["quest_state"], Head(batch["quest_state"]))
        /\ \A x : Has(batch["quest_state"], x) <=>
                   x = Head(batch["quest_state"]) \/ Has(Tail(batch["quest_state"]), x)
    BY <1>2, <1>3, HasRest, LinesCarry
  <2>3. \A x : Has(batch["quest_state"], x)' <=> Has(Tail(batch["quest_state"]), x)
    BY <2>1 DEF Has
  <2>4. \A x : /\ Has(wire, x)' <=> Has(wire, x)
               /\ Has(inbox["quest_state"], x)' <=> Has(inbox["quest_state"], x)
    BY <1>1 DEF Has
  <2>5. \A x : /\ InFlight(x)' => InFlight(x)
               /\ InFlight(x) => InFlight(x)' \/ x = Head(batch["quest_state"])
    BY <1>1, <2>2, <2>3, <2>4 DEF InFlight
  <2>6. InFlight(Head(batch["quest_state"]))
    BY <2>2 DEF InFlight
  <2> QED BY <1>3, <2>2, <2>5, <2>6 DEF kind
<1>4. CASE kind # "quest_state"
  <2>1. batch'["quest_state"] = batch["quest_state"]
    BY <1>1, <1>2, <1>4, FourKinds DEF Types, QueueTypes
  <2> QED BY <1>1, <1>4, <2>1 DEF InFlight, Has, kind
<1> QED BY <1>3, <1>4

\* A reset forgets what was queued.
LEMMA FlightOfReset ==
  ASSUME Types, ResetSessionState
  PROVE  \A x : InFlight(x)' => InFlight(x)
<1>1. UNCHANGED <<wire, receiver, hand, batch>> /\ inbox' = Empty
  BY DEF ResetSessionState, relayVars, threadVars
<1>2. Empty["quest_state"] = <<>>
  BY EmptyQueues, FourKinds
<1> QED BY <1>1, <1>2, HasNothing DEF InFlight, Has

\* What the adapter remembers of quests changes when one is applied or all are
\* forgotten.
LEMMA QuestsKept ==
  ASSUME Types, [Next]_pluginVars, ~ResetSessionState,
         ~(ApplyNext /\ Order[NextKind] = "quest_state")
  PROVE  UNCHANGED <<questStage, questTime>>
<1>1. CASE Aside \/ UNCHANGED pluginVars
  BY <1>1, AsideKeepsAdapter DEF adapterVars, pluginVars, questVars
<1>2. CASE EndPump \/ Play
  BY <1>2 DEF EndPump, Play, Update, Move, PlayerAdvances, ClockTick, questVars
<1>3. CASE ApplyNext
  <2> DEFINE kind == Order[NextKind]
             m == Head(batch[kind])
  <2>1. kind \in {"peer_left", "player_state", "loot_state"}
    BY <1>3, NextLine, FourKinds DEF ApplyNext, Types
  <2> HIDE DEF kind, m
  <2>2. RemoveRemotePlayer(m.sender) \/ ApplyRemotePlayerState(m) \/ ApplyRemoteLootState(m)
    <3>1. CASE kind = "peer_left"
      BY <1>3, <3>1 DEF ApplyNext, kind, m
    <3>2. CASE kind = "player_state"
      BY <1>3, <3>2 DEF ApplyNext, kind, m
    <3>3. CASE kind = "loot_state"
      BY <1>3, <3>3 DEF ApplyNext, kind, m
    <3> QED BY <2>1, <3>1, <3>2, <3>3
  <2> QED BY <2>2 DEF RemoveRemotePlayer, ApplyRemotePlayerState, ApplyRemoteLootState, questVars
<1> QED BY <1>1, <1>2, <1>3, StepKinds

\* Only a line that the relay sends changes what it has stored, for the better.
LEMMA StoredGrows ==
  ASSUME AdapterInv, Types, [Next]_pluginVars
  PROVE  \/ stored' = stored /\ ~Sends
         \/ /\ Sends
            /\ \E m \in Messages :
                 /\ RelaySends(m)
                 /\ \/ /\ m \in QuestStates /\ stored' = [stored EXCEPT ![m.quest] = m]
                       /\ stored[m.quest].stage < m.stage /\ lost' = lost \ {m.quest}
                    \/ m \notin QuestStates /\ stored' = stored /\ lost' = lost
<1>1. CASE Sends
  BY <1>1, LinesSent DEF AdapterInv, ProxyTypes, Types
<1>2. CASE ~Sends
  BY <1>2 DEF Sends, Next, ReceiveThread, GameThread, Outside, Loop, ReceiveLine, Handle,
              Bootstrap, Tick, TakeQueues, ApplyNext, EndPump, ResetSessionState, Stop, Destroy,
              RelayCloses, Play, relayVars, pluginVars
<1> QED BY <1>1, <1>2

\* Nothing but what the relay sends comes to be on its way.
LEMMA FlightGrows ==
  ASSUME AdapterInv, Types, [Next]_pluginVars, NEW x \in QuestStates, InFlight(x)'
  PROVE  InFlight(x) \/ (RelaySends(x) /\ stored' = [stored EXCEPT ![x.quest] = x])
<1>1. CASE Sends
  <2>1. PICK m \in Messages :
          /\ RelaySends(m)
          /\ m \in QuestStates => stored' = [stored EXCEPT ![m.quest] = m]
    BY <1>1, LinesSent DEF AdapterInv, ProxyTypes, Types
  <2> QED BY <2>1, FlightOfSent
<1>2. CASE ReceiveLine \/ TakeQueues
  BY <1>2, FlightOfRead, FlightOfTaken
<1>3. CASE Handle \/ ApplyNext \/ ResetSessionState
  BY <1>3, FlightOfHandled, FlightOfApplied, FlightOfReset
<1>4. CASE ~FlightMoves
  BY <1>4, StillInFlight
<1> QED BY <1>1, <1>2, <1>3, <1>4 DEF FlightMoves

LEMMA StepKeepsNotAhead ==
  ASSUME AdapterInv, Types, NotAhead, [Next]_pluginVars
  PROVE  NotAhead'
<1>1. /\ stored \in [Quests -> QuestStates]
      /\ \A q \in Quests : stored[q].stage \in Int
      /\ \A m \in QuestStates : m.quest \in Quests /\ m.stage \in Int
      /\ questStage \in [Quests -> -1..MaxStage] /\ MaxStage \in Nat
  BY GameAdapterAssumption DEF AdapterInv, GateTypes, Types, RelayTypes, QuestStates
<1>2. \A q \in Quests : stored'[q].stage >= stored[q].stage
  BY <1>1, StoredGrows
<1>3. ASSUME NEW x \in QuestStates, InFlight(x)' PROVE x.stage <= stored'[x.quest].stage
  <2>1. CASE InFlight(x)
    <3>1. x.stage <= stored[x.quest].stage
      BY <2>1 DEF NotAhead
    <3>2. stored'[x.quest].stage \in Int
      BY <1>1, StoredGrows
    <3> QED BY <1>1, <1>2, <3>1, <3>2
  <2>2. CASE stored' = [stored EXCEPT ![x.quest] = x]
    BY <1>1, <2>2
  <2>3. InFlight(x) \/ stored' = [stored EXCEPT ![x.quest] = x]
    BY <1>3, FlightGrows
  <2> QED BY <2>1, <2>2, <2>3
<1>4. ASSUME NEW q \in Quests PROVE questStage'[q] <= stored'[q].stage
  <2>1. stored'[q].stage \in Int
    BY <1>1, StoredGrows
  <2>2. CASE UNCHANGED <<questStage, questTime>>
    BY <1>1, <1>2, <2>1, <2>2 DEF NotAhead
  <2>3. CASE ResetSessionState
    <3>1. questStage'[q] = -1 /\ stored' = stored
      BY <2>3 DEF ResetSessionState, ResetWorldState, relayVars
    <3>2. stored[q].stage >= -1
      BY <1>1 DEF QuestStates
    <3> QED BY <3>1, <3>2
  <2>4. CASE ApplyNext /\ Order[NextKind] = "quest_state"
    <3> DEFINE m == Head(batch["quest_state"])
    <3>1. m \in QuestStates /\ InFlight(m)
      BY <2>4, FlightOfApplied
    <3>2. ApplyRemoteQuestState(m)
      BY <2>4 DEF ApplyNext
    <3>3. m.stage <= stored[m.quest].stage
      BY <3>1 DEF NotAhead
    <3> HIDE DEF m
    <3>4. questStage'[q] = questStage[q] \/ (q = m.quest /\ questStage'[q] = m.stage)
      BY <1>1, <3>2 DEF ApplyRemoteQuestState, questVars
    <3> QED BY <1>1, <1>2, <2>1, <3>1, <3>3, <3>4 DEF NotAhead
  <2> QED BY <2>2, <2>3, <2>4, QuestsKept
<1> QED BY <1>3, <1>4 DEF NotAhead

\* A quest that is lost stays so until its next update, or all are forgotten.
LEMMA LostStays ==
  ASSUME [Next]_pluginVars, ~Sends, ~ResetSessionState
  PROVE  lost \subseteq lost'
<1>1. CASE Aside
  BY <1>1 DEF Aside, Loop, ReceiveLine, Handle, Bootstrap, Tick, TakeQueues, Stop, Destroy, RelayCloses
<1>2. CASE ApplyNext \/ EndPump \/ Play \/ UNCHANGED pluginVars
  <2> DEFINE m == Head(batch[Order[NextKind]])
  <2>1. CASE ApplyNext
    <3>1. lost' = lost \/ lost' = lost \cup {m.quest}
      BY <2>1 DEF ApplyNext
    <3> QED BY <3>1
  <2> QED BY <1>2, <2>1 DEF EndPump, Play, pluginVars
<1> QED BY <1>1, <1>2, StepKinds

\* No step forgets the last update of a quest, unless it says so.
LEMMA StaysOnItsWay ==
  ASSUME AdapterInv, Types, NotAhead, [Next]_pluginVars, ~ResetSessionState,
         NEW q \in Quests, q \notin lost', stored'[q] = stored[q], OnItsWay(q)
  PROVE  OnItsWay(q)'
<1>0. PICK last : last = stored[q]
  OBVIOUS
<1>1. /\ last \in QuestStates /\ last.quest = q /\ last.kind = "quest_state"
      /\ last.time \in Int /\ last.stage \in Int
  BY <1>0, GameAdapterAssumption DEF Types, RelayTypes, QuestStates
<1>2. IsLast(last)
  BY <1>0, <1>1 DEF IsLast
<1>3. questTime \in [Quests -> -1..MaxClock] /\ questStage \in [Quests -> -1..MaxStage]
      /\ MaxClock \in Nat /\ MaxStage \in Nat
  BY GameAdapterAssumption DEF AdapterInv, GateTypes
<1>4. SUFFICES InFlight(last)' \/ questStage'[q] >= last.stage
  BY <1>0 DEF OnItsWay, InFlight, Has
<1>5. InFlight(last) \/ questStage[q] >= last.stage
  BY <1>0 DEF OnItsWay
<1>6. CASE ApplyNext /\ Order[NextKind] = "quest_state"
  <2> DEFINE m == Head(batch["quest_state"])
  <2>1. InFlight(last) => InFlight(last)' \/ last = m
    BY <1>6, FlightOfApplied
  <2>2. ApplyRemoteQuestState(m)
    BY <1>6 DEF ApplyNext
  <2>3. IsLast(m) /\ Refused(m) => m.quest \in lost'
    BY <1>6 DEF ApplyNext
  <2>4. m.stage \in Int /\ m.quest \in Quests
    BY <1>6, FlightOfApplied, GameAdapterAssumption DEF QuestStates, m
  <2> HIDE DEF m
  <2>5. CASE questStage[q] >= last.stage
    <3>1. questStage'[q] >= questStage[q] /\ questStage'[q] \in Int
      BY <1>3, <2>2, <2>4 DEF ApplyRemoteQuestState, QuestPasses, questVars
    <3> QED BY <1>1, <1>3, <2>5, <3>1
  <2>6. CASE last = m
    <3>1. ~Refused(last)
      BY <1>1, <1>2, <2>3, <2>6
    <3>2. questStage[q] <= last.stage
      BY <1>0 DEF NotAhead
    <3>3. here # NoPlayer /\ last.time > questTime[q]
      BY <1>1, <1>3, <3>1 DEF Refused
    <3>4. QuestPasses(last)
      BY <1>1, <1>3, <3>2, <3>3 DEF QuestPasses
    <3>5. questStage' # questStage
      BY <3>1, <3>4 DEF Refused
    <3>6. questStage'[q] = last.stage
      BY <1>1, <1>3, <2>2, <2>6, <3>3, <3>4, <3>5 DEF ApplyRemoteQuestState
    <3> QED BY <1>1, <3>6
  <2> QED BY <1>5, <2>1, <2>5, <2>6, Zenon
<1>7. CASE ~(ApplyNext /\ Order[NextKind] = "quest_state")
  <2>1. questStage' = questStage
    BY <1>7, QuestsKept
  <2>2. InFlight(last) => InFlight(last)'
    <3>1. CASE Sends
      <4>1. PICK m \in Messages : RelaySends(m)
        BY <3>1, LinesSent DEF AdapterInv, ProxyTypes, Types
      <4> QED BY <4>1, FlightOfSent
    <3>2. CASE ReceiveLine \/ TakeQueues
      BY <3>2, FlightOfRead, FlightOfTaken
    <3>3. CASE Handle
      <4>1. hand.kind = "quest_state" /\ Overflows(hand) /\ last = Dropped(hand) => last.quest \in lost'
        BY <1>2, <3>3 DEF Handle
      <4> QED BY <1>1, <3>3, <4>1, FlightOfHandled
    <3>4. CASE ApplyNext
      BY <1>7, <3>4, FlightOfApplied
    <3>5. CASE ~FlightMoves
      BY <3>5, StillInFlight
    <3> QED BY <3>1, <3>2, <3>3, <3>4, <3>5 DEF FlightMoves
  <2> QED BY <1>5, <2>1, <2>2
<1> QED BY <1>6, <1>7

\* What a reset does not count as lost has not been queued yet.
LEMMA ResetKeepsNothingLost ==
  ASSUME Types, ResetSessionState, NEW q \in Quests, q \notin lost'
  PROVE  OnItsWay(q)'
<1>1. /\ UNCHANGED <<wire, stored, receiver, hand>>
      /\ stored[q] = hand \/ \E n \in DOMAIN wire : stored[q] = wire[n]
  BY DEF ResetSessionState, OnTheWay, relayVars, threadVars
<1>2. stored[q] \in Messages
  BY DEF Types, RelayTypes, Messages
<1>3. stored[q] = hand => receiver = "handling"
  BY <1>2, PluginAssumption DEF Types, InHand
<1>4. Has(wire, stored[q]) \/ (receiver = "handling" /\ hand = stored[q])
  BY <1>1, <1>3 DEF Has
<1> QED BY <1>1, <1>4 DEF OnItsWay, InFlight, Has

LEMMA StepKeepsNothingLost ==
  ASSUME AdapterInv, Types, NotAhead, NothingLost, [Next]_pluginVars
  PROVE  NothingLost'
<1> SUFFICES ASSUME NEW q \in Quests, q \notin lost', stored'[q].stage > 0
             PROVE  OnItsWay(q)'
  BY DEF NothingLost
<1>1. CASE ResetSessionState
  BY <1>1, ResetKeepsNothingLost
<1>2. CASE q \notin lost /\ stored'[q] = stored[q] /\ ~ResetSessionState
  <2>1. OnItsWay(q)
    BY <1>2 DEF NothingLost
  <2> QED BY <1>2, <2>1, StaysOnItsWay
<1>3. CASE (q \in lost \/ stored'[q] # stored[q]) /\ ~ResetSessionState
  <2>1. Sends
    BY <1>3, LostStays, StoredGrows
  <2>2. PICK m \in Messages :
          /\ RelaySends(m)
          /\ \/ /\ m \in QuestStates /\ stored' = [stored EXCEPT ![m.quest] = m]
                /\ lost' = lost \ {m.quest}
             \/ stored' = stored /\ lost' = lost
    BY <2>1, LinesSent DEF AdapterInv, ProxyTypes, Types
  <2>3. stored'[q] = m
    BY <1>3, <2>2 DEF Types, RelayTypes
  <2>4. InFlight(m)'
    BY <2>2, FlightOfSent
  <2> QED BY <2>3, <2>4 DEF OnItsWay, InFlight, Has
<1> QED BY <1>1, <1>2, <1>3

-----------------------------------------------------------------------------
(* The invariant, and what follows from it.                                *)

LEMMA InitInv == Init => PluginInv
<1> SUFFICES ASSUME Init PROVE PluginInv
  OBVIOUS
<1>1. AdapterInv
  BY AdapterInitInv DEF Init
<1>2. Types
  BY InitTypes
<1>3. /\ inbox = Empty /\ batch = Empty /\ receiver = "off"
      /\ \A q \in Quests : questStage[q] = -1
  BY DEF Init, AdapterInit
<1>4. Rejected
  BY <1>3, ReplayOfAll DEF Rejected
<1>5. NotAhead
  <2>1. \A x \in QuestStates : InFlight(x) => Has(wire, x)
    BY <1>3, EmptyQueues, HasNothing, FourKinds DEF InFlight
  <2>2. \A q \in Quests : stored[q].stage >= -1
    BY <1>2, GameAdapterAssumption DEF Types, RelayTypes, QuestStates
  <2> QED BY <1>3, <2>1, <2>2, ReplayOfAll DEF NotAhead
<1>6. NothingLost
  BY ReplayOfAll DEF NothingLost, OnItsWay, InFlight
<1> QED BY <1>1, <1>2, <1>4, <1>5, <1>6 DEF PluginInv, Types

LEMMA StepKeepsInv == PluginInv /\ [Next]_pluginVars => PluginInv'
<1> SUFFICES ASSUME PluginInv, [Next]_pluginVars PROVE PluginInv'
  OBVIOUS
<1>1. AdapterInv /\ Types /\ Rejected /\ NotAhead /\ NothingLost
  BY DEF PluginInv, Types
<1>2. AdapterInv'
  <2>1. [AdapterNext]_adapterVars
    BY <1>1, AdapterTaken DEF Types
  <2> QED BY <1>1, <2>1, AdapterStep
<1>3. Types'
  BY <1>1, StepKeepsTypes
<1>4. Rejected' /\ NotAhead' /\ NothingLost'
  BY <1>1, StepKeepsRejected, StepKeepsNotAhead, StepKeepsNothingLost
<1> QED BY <1>2, <1>3, <1>4 DEF PluginInv, Types

LEMMA PluginAlways == Spec => []PluginInv
BY InitInv, StepKeepsInv, PTL DEF Spec

\* The types, and the cap of every queue that HandleIncomingMessage cuts.
THEOREM PluginTypes == Spec => []PluginTypeOK
<1>1. PluginInv => PluginTypeOK
  <2> SUFFICES ASSUME PluginInv PROVE PluginTypeOK
    OBVIOUS
  <2>1. AdapterTypeOK
    BY DEF PluginInv, AdapterInv, ProxyTypes, GateTypes, AdapterTypeOK, Actor
  <2>2. hand \in Messages \cup {NoMessage}
    BY DEF PluginInv, InHand
  <2> QED BY <2>1, <2>2 DEF PluginInv, ThreadTypes, QueueTypes, RelayTypes, PluginTypeOK
<1> QED BY <1>1, PluginAlways, PTL

\* OnProtocolMismatch closes the connection before anything behind the welcome
\* of another version is queued, however the threads interleave with resets.
THEOREM OtherVersionRejected == Spec => []MismatchRejected
<1>1. PluginInv => MismatchRejected
  BY DEF PluginInv, Rejected, MismatchRejected
<1> QED BY <1>1, PluginAlways, PTL

\* Between HandleIncomingMessage, the swap of PumpGameThreadWork and the gates
\* of ApplyRemoteQuestState the last stored update of a quest reaches the game,
\* whatever the threads do in between, unless one of the losses that Handle,
\* Refused and ResetSessionState name has hit that very update.
THEOREM NoQuestLost == Spec => []AppliedUnlessLost
<1>1. PluginInv => AppliedUnlessLost
  <2> SUFFICES ASSUME PluginInv, Drained, NEW q \in Quests, q \notin lost
               PROVE  stage[q] >= stored[q].stage
    BY DEF AppliedUnlessLost
  <2>1. wire = <<>> /\ inbox = Empty /\ batch = Empty /\ receiver # "handling"
    BY PluginAssumption DEF PluginInv, Pumped, InHand, Drained
  <2>2. ~InFlight(stored[q])
    BY <2>1, EmptyQueues, FourKinds, HasNothing DEF InFlight
  <2>3. /\ stage[q] >= questStage[q] /\ stage[q] \in 0..MaxStage /\ questStage[q] \in -1..MaxStage
        /\ stored[q].stage \in 0..MaxStage /\ MaxStage \in Nat
    BY GameAdapterAssumption
       DEF PluginInv, AdapterInv, GateTypes, StagesReached, RelayTypes, QuestStates
  <2>4. stored[q].stage > 0 => questStage[q] >= stored[q].stage
    BY <2>2 DEF PluginInv, NothingLost, OnItsWay
  <2> QED BY <2>3, <2>4
<1> QED BY <1>1, PluginAlways, PTL

\* PumpGameThreadWork and ResetSessionState call the adapter as it may be
\* called: under both threads of the plugin it does what it does alone.
THEOREM PluginIsAdapter == Spec => AdapterSpec
<1>1. Init => AdapterInit
  BY DEF Init
<1>2. PluginInv /\ [Next]_pluginVars => [AdapterNext]_adapterVars
  BY AdapterTaken DEF PluginInv
<1> QED BY <1>1, <1>2, PluginAlways, PTL DEF Spec, AdapterSpec

=============================================================================
