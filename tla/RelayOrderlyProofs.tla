------------------------- MODULE RelayOrderlyProofs -------------------------
(***************************************************************************)
(* Theorems about Relay for the instances in which every peer keeps up and *)
(* no link breaks, however often the relay is restarted: broadcasts and    *)
(* replays run to their end, every copy becomes current, and only the      *)
(* host's updates are relayed.  If it is not restarted the relay           *)
(* implements SharedRoom, and its room is led as SharedRoomProofs says.    *)
(***************************************************************************)
EXTENDS RelayProofs

\* Every peer keeps up with what it is sent and no link breaks.
Orderly == Slow = {} /\ MaxLosses = 0

\* A handler that is somewhere between two awaits that suspend.
Busy == {"welcome", "cast", "reap", "closing"} \cup Phases

\* c is no longer registered and tells the others so.
Leaving(c) == cast[c].msg.kind = "peer_left"

\* The iterator of c's broadcast finds its dict as it was, and has yet to yield
\* what comes after its place.
InCast(c) ==
  /\ cast[c].epoch = epoch
  /\ cast[c].size = Cardinality(Members)
  /\ cast[c].left = Cardinality(After(cast[c].at))

\* So does that of c's replay.
InReplay(c) ==
  /\ replay[c].size = Cardinality(Stored(pc[c]))
  /\ replay[c].left = Cardinality(ToReplay(c))

\* What is known of a handler wherever it is: it keeps the processor until it
\* reads again, its link is up, it is registered from its hello to its
\* departure, and what it iterates is as it was when it began.
Control(c) ==
  /\ pc[c] \in Busy => cpu = c
  /\ pc[c] # "done" => Up(c)
  /\ c \in Members <=> pc[c] \notin {"hello", "done"} /\ ~Leaving(c)
  /\ pc[c] \notin {"cast", "reap"} => cast[c] = NoCast
  /\ cast[c].dead = {}
  /\ cast[c].target \in Members \cup {NoConn}
  /\ pc[c] = "cast" => InCast(c)
  /\ pc[c] \in Phases => InReplay(c)

\* Positions in the dict are given out once.
Slots ==
  /\ \A c \in Conns : slot[c] < nextSlot
  /\ \A c, d \in Members : slot[c] = slot[d] => c = d

OrderlyInv == Slots /\ \A c \in Conns : Control(c)

-----------------------------------------------------------------------------
(* One handler at a time.                                                  *)

\* While c runs, nobody else is under way.
LEMMA Alone ==
  ASSUME OrderlyInv, NEW c \in Conns, cpu = NoConn \/ (pc[c] \in Busy /\ Runs(c)),
         NEW d \in Conns, d # c
  PROVE  pc[d] \notin Busy
BY RelayAssumption DEF OrderlyInv, Control, Runs, RelayAssumption

\* Sends are never held up and never fail.
LEMMA SendsSucceed ==
  ASSUME Orderly, TypeOK, OrderlyInv, NEW c \in Conns, NEW t \in Conns, pc[t] # "done"
  PROVE  Up(t) /\ DrainOutcome(t) = {"ok"} /\ AfterSend(c, t) = {c}
<1>1. Up(t) /\ t # NoConn /\ t \notin Slow
  BY RelayAssumption DEF OrderlyInv, Control, RelayAssumption, Orderly
<1>2. DrainOutcome(t) = {"ok"}
  BY <1>1 DEF DrainOutcome, Up
<1>3. AfterSend(c, t) = {c}
  BY <1>1 DEF AfterSend
<1>4. QED
  BY <1>1, <1>2, <1>3

\* No iterator notices anything.
LEMMA IteratorsGoOn ==
  ASSUME TypeOK, OrderlyInv, NEW c \in Conns
  PROVE  /\ pc[c] = "cast" => Iterates(c)
         /\ pc[c] \in Phases => Intact(c)
<1>1. ASSUME pc[c] = "cast"
      PROVE  Iterates(c)
  <2>1. Passed(c) \subseteq After(cast[c].at) /\ After(cast[c].at) \in SUBSET Members
    BY DEF Passed, After
  <2>2. Cardinality(Passed(c)) <= Cardinality(After(cast[c].at))
    BY <2>1, Sizes, FS_Subset
  <2>3. QED
    BY <1>1, <2>2 DEF OrderlyInv, Control, InCast, Iterates
<1>2. ASSUME pc[c] \in Phases
      PROVE  Intact(c)
  <2>1. IsFiniteSet(ToReplay(c))
    BY <1>2, Sizes, FS_Subset DEF ToReplay
  <2>2. ToReplay(c) # {} => Cardinality(ToReplay(c)) > 0
    BY <2>1, FS_EmptySet, FS_CardinalityType
  <2>3. QED
    BY <1>2, <2>2 DEF OrderlyInv, Control, InReplay, Intact
<1>3. QED
  BY <1>1, <1>2

\* So the last send of a broadcast ended well, and its iterator goes on.
LEMMA CastsProceed ==
  ASSUME Orderly, TypeOK, OrderlyInv, NEW c \in Conns
  PROVE  /\ DrainOutcome(cast[c].target) = {"ok"}
         /\ DeadAfter(c, "ok") = {}
         /\ ~ CastFails(c)
<1>1. cast[c].target \in Members \cup {NoConn} /\ cast[c].dead = {}
      /\ (pc[c] = "cast" => Iterates(c))
  BY IteratorsGoOn DEF OrderlyInv, Control
<1>2. DrainOutcome(cast[c].target) = {"ok"}
  <2>1. CASE cast[c].target = NoConn
    BY <2>1 DEF DrainOutcome
  <2>2. CASE cast[c].target \in Members
    <3>1. cast[c].target \in Conns /\ pc[cast[c].target] # "done"
      BY <2>2 DEF OrderlyInv, Control, Members
    <3>2. QED
      BY <3>1, SendsSucceed
  <2>3. QED
    BY <1>1, <2>1, <2>2
<1>3. QED
  BY <1>1, <1>2 DEF DeadAfter, CastFails

\* There are no faults but restarts, and whoever is connected goes with them.
LEMMA OnlyRestarts ==
  ASSUME Orderly, TypeOK, Environment
  PROVE  /\ Crash /\ crashes' # crashes /\ Members' = {}
         /\ pc' = [c \in Conns |-> IF pc[c] = "hello" THEN "hello" ELSE "done"]
<1>1. Crash
  BY DEF Environment, LoseLink, Orderly, TypeOK
<1>2. crashes' # crashes
  BY <1>1 DEF Crash, TypeOK
<1>3. QED
  BY <1>1, <1>2 DEF Crash, Members

\* A replay is not interrupted, nobody is found dead, and no session is missing
\* at its departure.
LEMMA NoFailures ==
  ASSUME Orderly, TypeOK, OrderlyInv, NEW c \in Conns
  PROVE  /\ ~ ReplayFails(c)
         /\ \A i \in Ids : ~ Reap(c, i) /\ ~ ReapFails(c, i)
         /\ ~ UnregisterNobody(c)
<1>1. ~ ReplayFails(c)
  <2>1. pc[c] \in Phases => DrainOutcome(c) = {"ok"} /\ Intact(c)
    BY SendsSucceed, IteratorsGoOn DEF Phases
  <2>2. QED
    BY <2>1 DEF ReplayFails
<1>2. \A i \in Ids : ~ Reap(c, i) /\ ~ ReapFails(c, i)
  BY DEF Reap, ReapFails, OrderlyInv, Control
<1>3. ~ UnregisterNobody(c)
  <2>1. pc[c] = "closing" => c \in Members
    BY DEF OrderlyInv, Control, Leaving, NoCast, About
  <2>2. QED
    BY <2>1 DEF UnregisterNobody, Holder
<1>4. QED
  BY <1>1, <1>2, <1>3

\* The step of c leaves every other handler where it is.
StayPut(c) ==
  \A d \in Conns \ {c} :
    /\ pc'[d] = pc[d] /\ cast'[d] = cast[d] /\ link'[d] = link[d]
    /\ d \in Members' <=> d \in Members

\* Then only what concerns c has to be looked at.
LEMMA OneHandler ==
  ASSUME TypeOK, OrderlyInv, NEW c \in Conns,
         cpu = NoConn \/ (pc[c] \in Busy /\ Runs(c)),
         StayPut(c), Slots', Control(c)'
  PROVE  OrderlyInv'
<1>1. ASSUME NEW d \in Conns, d # c
      PROVE  Control(d)'
  <2>1. pc[d] \notin Busy
    BY <1>1, Alone
  <2>2. cast[d] = NoCast /\ cast[d].target = NoConn
    BY <2>1 DEF OrderlyInv, Control, Busy, NoCast
  <2>3. pc'[d] = pc[d] /\ cast'[d] = cast[d] /\ link'[d] = link[d]
        /\ (d \in Members' <=> d \in Members)
    BY <1>1 DEF StayPut
  <2>4. QED
    BY <2>1, <2>2, <2>3 DEF OrderlyInv, Control, Busy, Leaving, Up
<1>2. QED
  BY <1>1 DEF OrderlyInv

-----------------------------------------------------------------------------
(* The steps of a client.                                                  *)

\* Who joins, reads or is about to leave is registered and has no frame.
LEMMA ReaderRegistered ==
  ASSUME OrderlyInv, NEW c \in Conns,
         pc[c] \in {"welcome", "reading", "closing"} \cup Phases
  PROVE  c \in Members /\ cast[c] = NoCast /\ ~ Leaving(c) /\ Up(c)
<1>1. Control(c) /\ pc[c] \notin {"cast", "reap", "hello", "done"}
  BY DEF OrderlyInv, Phases
<1>2. cast[c] = NoCast /\ ~ Leaving(c)
  BY <1>1 DEF Control, Leaving, NoCast, About
<1>3. QED
  BY <1>1, <1>2 DEF Control

\* Positions stay distinct as long as nobody joins.
LEMMA SlotsKept ==
  ASSUME TypeOK, Slots, nextSlot' = nextSlot,
         \A c \in Conns : slot'[c] = slot[c] \/ slot'[c] = 0
  PROVE  Slots'
<1>1. \A c \in Conns : slot'[c] < nextSlot'
  <2>1. nextSlot \in Nat /\ 0 < nextSlot /\ \A c \in Conns : slot[c] < nextSlot
    BY DEF Slots, TypeOK
  <2>2. QED
    BY <2>1
<1>2. \A c \in Members' : c \in Members /\ slot'[c] = slot[c]
  BY DEF Members, TypeOK
<1>3. QED
  BY <1>1, <1>2 DEF Slots

\* A refused connection ends.
LEMMA OrderlyReject ==
  ASSUME TypeOK, OrderlyInv, NEW c \in Conns, Reject(c)
  PROVE  OrderlyInv'
<1>1. Members' = Members /\ cast' = cast /\ c \notin Members /\ cast[c] = NoCast
  BY DEF Reject, dictVars, Members, OrderlyInv, Control
<1>2. pc' = [pc EXCEPT ![c] = "done"] /\ link' = [link EXCEPT ![c] = "closed"]
      /\ cpu' = NoConn
  BY DEF Reject, Finish, OrderlyInv, Control, Up
<1>3. StayPut(c)
  BY <1>1, <1>2 DEF StayPut, TypeOK
<1>4. Slots'
  BY SlotsKept DEF Reject, dictVars, OrderlyInv
<1>5. Control(c)'
  BY <1>1, <1>2 DEF Control, TypeOK, Busy, Phases, Leaving, NoCast, About
<1>6. QED
  BY <1>3, <1>4, <1>5, OneHandler DEF Reject

\* An accepted hello adds c behind everyone else.
LEMMA OrderlyRegister ==
  ASSUME Orderly, TypeOK, OrderlyInv, NEW c \in Conns, NEW i \in Ids,
         NEW claimed \in BOOLEAN, Register(c, i, claimed)
  PROVE  OrderlyInv'
<1>1. Members' = Members \cup {c} /\ cast' = cast /\ link' = link
      /\ c \notin Members /\ cast[c] = NoCast
  BY RegisterEffect DEF Register, OrderlyInv, Control
<1>2. pc' = [pc EXCEPT ![c] = "welcome"] /\ cpu' = c /\ Up(c)
  BY SendsSucceed DEF Register
<1>3. StayPut(c)
  BY <1>1, <1>2 DEF StayPut, TypeOK
<1>4. Slots'
  <2>1. slot' = [slot EXCEPT ![c] = nextSlot] /\ nextSlot' = nextSlot + 1
    BY DEF Register
  <2>2. \A d \in Conns : slot[d] < nextSlot
    BY DEF OrderlyInv, Slots
  <2>3. \A d \in Members : d \in Conns /\ d # c
    BY <1>1 DEF Members
  <2>4. QED
    BY <1>1, <2>1, <2>2, <2>3 DEF OrderlyInv, Slots, TypeOK
<1>5. Control(c)'
  BY <1>1, <1>2 DEF Control, TypeOK, Busy, Phases, Leaving, NoCast, About, Up
<1>6. QED
  BY <1>3, <1>4, <1>5, OneHandler DEF Register

\* A frame as StartCast leaves it is in order, for a sender that is registered
\* unless it says farewell.
LEMMA CastInOrder ==
  ASSUME TypeOK, OrderlyInv, NEW c \in Conns, NEW m, NEW size,
         StartCast(c, m, size), size = Cardinality(Members'), epoch' = epoch,
         link' = link, Up(c),
         c \in Members' <=> m.kind # "peer_left"
  PROVE  Control(c)'
<1>1. pc'[c] = "cast" /\ cpu' = c /\ link'[c] = link[c]
      /\ cast'[c] = [msg |-> m, at |-> 0, size |-> size, left |-> size, epoch |-> epoch,
                     target |-> NoConn, dead |-> {}]
  BY DEF StartCast, TypeOK
<1>2. After(0)' = Members'
  BY DEF After, Members
<1>3. InCast(c)'
  <2>1. /\ cast'[c].at = 0 /\ cast'[c].size = size /\ cast'[c].left = size
        /\ cast'[c].epoch = epoch
    BY <1>1
  <2>2. After(cast[c].at)' = Members'
    BY <1>2, <2>1 DEF After
  <2>3. QED
    BY <2>1, <2>2 DEF InCast
<1>4. QED
  BY <1>1, <1>3 DEF Control, Busy, Phases, Leaving, Up

\* Whatever a client sends, it is broadcast next.
LEMMA OrderlyMessage ==
  ASSUME Orderly, TypeOK, OrderlyInv, NEW c \in Conns, NEW m, m.kind # "peer_left",
         cpu = NoConn, pc[c] = "reading", RelayMessage(c, m)
  PROVE  OrderlyInv'
<1>1. c \in Members /\ Up(c)
  BY ReaderRegistered
<1>2. Members' = Members /\ link' = link /\ epoch' = epoch
      /\ StartCast(c, m, Cardinality(Members))
  BY DEF RelayMessage, Members, dictVars
<1>3. Control(c)'
  BY <1>1, <1>2, CastInOrder
<1>4. StayPut(c)
  BY <1>2 DEF StayPut, StartCast, TypeOK
<1>5. Slots'
  BY SlotsKept DEF RelayMessage, dictVars, OrderlyInv
<1>6. QED
  BY <1>3, <1>4, <1>5, OneHandler

\* A client that stops is about to be unregistered.
LEMMA OrderlyReadFails ==
  ASSUME TypeOK, OrderlyInv, NEW c \in Conns, ReadFails(c)
  PROVE  OrderlyInv'
<1>1. c \in Members /\ Up(c) /\ cast[c] = NoCast /\ ~ Leaving(c)
  BY ReaderRegistered DEF ReadFails
<1>2. pc' = [pc EXCEPT ![c] = "closing"] /\ cpu' = c /\ link' = link
      /\ cast' = [cast EXCEPT ![c] = NoCast]
  BY <1>1 DEF ReadFails, Raise, Leaving
<1>3. Members' = Members
  BY DEF ReadFails, dictVars, Members
<1>4. StayPut(c)
  BY <1>2, <1>3 DEF StayPut, TypeOK
<1>5. Slots'
  BY SlotsKept DEF ReadFails, dictVars, OrderlyInv
<1>6. Control(c)'
  BY <1>1, <1>2, <1>3 DEF Control, TypeOK, Busy, Phases, Leaving, NoCast, About, Up
<1>7. QED
  BY <1>4, <1>5, <1>6, OneHandler DEF ReadFails

\* No step of a client disturbs what is known of the handlers.
LEMMA OrderlyClientStep ==
  ASSUME Orderly, TypeOK, OrderlyInv, NEW c \in Conns, ClientStep(c)
  PROVE  OrderlyInv'
<1>1. ASSUME PlayerState(c)
      PROVE  OrderlyInv'
  BY <1>1, OrderlyMessage DEF PlayerState, Reads, About
<1>2. ASSUME NEW w \in World, WorldState(c, w)
      PROVE  OrderlyInv'
  BY <1>2, OrderlyMessage DEF WorldState, Reads
<1>3. ASSUME NEW authoritative \in BOOLEAN, CombatEvent(c, authoritative)
      PROVE  OrderlyInv'
  BY <1>3, OrderlyMessage DEF CombatEvent, Reads, About
<1>4. QED
  BY <1>1, <1>2, <1>3, OrderlyReject, OrderlyRegister, OrderlyReadFails DEF ClientStep

-----------------------------------------------------------------------------
(* The steps a handler takes by itself.                                    *)

\* A loop of the replay starts with everything still to send.
LEMMA LoopStarts ==
  ASSUME TypeOK, NEW c \in Conns, NEW phase \in Phases, room' = room, pc'[c] = phase,
         replay' = [replay EXCEPT ![c] = StartReplay(phase)]
  PROVE  InReplay(c)' /\ replay'[c].sent = {}
<1>1. replay'[c] = [size |-> Cardinality(Stored(phase)), left |-> Cardinality(Stored(phase)),
                    sent |-> {}]
  BY DEF TypeOK, StartReplay
<1>2. Stored(pc[c])' = Stored(phase) /\ Stored(phase)' = Stored(phase)
  BY DEF Stored
<1>3. ToReplay(c)' = Stored(phase)
  BY <1>1, <1>2 DEF ToReplay
<1>4. QED
  BY <1>1, <1>2, <1>3 DEF InReplay

\* Without failures the welcome is followed by the replay of the players.
LEMMA OrderlyWelcomed ==
  ASSUME Orderly, TypeOK, OrderlyInv, NEW c \in Conns, Welcomed(c)
  PROVE  /\ OrderlyInv'
         /\ pc' = [pc EXCEPT ![c] = "players"]
         /\ replay' = [replay EXCEPT ![c] = StartReplay("players")]
         /\ UNCHANGED <<cast, clientVars>>
<1>1. DrainOutcome(c) = {"ok"} /\ pc[c] = "welcome" /\ Runs(c)
  BY SendsSucceed DEF Welcomed
<1>2. /\ pc' = [pc EXCEPT ![c] = "players"]
      /\ replay' = [replay EXCEPT ![c] = StartReplay("players")]
      /\ cpu' = c
      /\ UNCHANGED <<cast, link, clientVars>>
  BY <1>1 DEF Welcomed
<1>3. Members' = Members /\ room' = room
  BY DEF Welcomed, dictVars, Members
<1>4. StayPut(c)
  BY <1>2, <1>3 DEF StayPut, TypeOK
<1>5. Slots'
  BY SlotsKept DEF Welcomed, dictVars, OrderlyInv
<1>6. Control(c)'
  <2>1. pc'[c] = "players" /\ cast'[c] = cast[c] /\ Up(c)' /\ c \in Members'
        /\ cast[c] = NoCast
    BY <1>1, <1>2, <1>3, ReaderRegistered DEF TypeOK, Up
  <2>2. InReplay(c)'
    BY <1>2, <1>3, <2>1, LoopStarts DEF Phases
  <2>3. QED
    BY <1>2, <2>1, <2>2 DEF Control, Leaving, NoCast, About
<1>7. QED
  BY <1>1, <1>2, <1>4, <1>5, <1>6, OneHandler DEF Busy

\* One message of the replay.
LEMMA OrderlyReplayNext ==
  ASSUME Orderly, TypeOK, OrderlyInv, NEW c \in Conns, NEW key, ReplayNext(c, key)
  PROVE  OrderlyInv'
<1>1. pc[c] \in Phases /\ Runs(c) /\ pc[c] # "done" /\ pc[c] \in Busy
  BY DEF ReplayNext, Replaying, Phases, Busy
<1>2. cpu' = c
  <2>1. AfterSend(c, c) = {c}
    BY <1>1, SendsSucceed
  <2>2. QED
    BY <2>1 DEF ReplayNext
<1>3. Members' = Members /\ UNCHANGED <<room, pc, cast, link>>
  BY DEF ReplayNext, dictVars, Members
<1>4. StayPut(c)
  BY <1>3 DEF StayPut
<1>5. Slots'
  BY SlotsKept DEF ReplayNext, dictVars, OrderlyInv
<1>6. Control(c)'
  <2>1. /\ replay'[c].size = replay[c].size /\ replay'[c].left = replay[c].left - 1
        /\ replay'[c].sent = replay[c].sent \cup {key}
    BY DEF ReplayNext, TypeOK
  <2>2. Stored(pc[c])' = Stored(pc[c])
    BY <1>3 DEF Stored
  <2>3. ToReplay(c)' = ToReplay(c) \ {key} /\ key \in ToReplay(c)
    BY <2>1, <2>2 DEF ReplayNext, ToReplay
  <2>4. Cardinality(ToReplay(c)') = Cardinality(ToReplay(c)) - 1
    <3>1. IsFiniteSet(ToReplay(c))
      BY <1>1, Sizes, FS_Subset DEF ToReplay
    <3>2. QED
      BY <2>3, <3>1, FS_RemoveElement
  <2>5. InReplay(c)'
    BY <1>1, <2>1, <2>2, <2>4 DEF OrderlyInv, Control, InReplay
  <2>6. QED
    BY <1>1, <1>2, <1>3, <2>5 DEF OrderlyInv, Control, Leaving, Phases, Up
<1>7. QED
  BY <1>1, <1>4, <1>5, <1>6, OneHandler

\* The end of a replay loop.
LEMMA OrderlyReplayEnd ==
  ASSUME Orderly, TypeOK, OrderlyInv, NEW c \in Conns, ReplayEnd(c)
  PROVE  OrderlyInv'
<1>1. pc[c] \in Phases /\ Runs(c) /\ pc[c] \in Busy
  BY DEF ReplayEnd, Replaying, Phases, Busy
<1>2. Members' = Members /\ UNCHANGED <<room, link, epoch>>
  BY DEF ReplayEnd, dictVars, Members
<1>3. Slots'
  BY SlotsKept DEF ReplayEnd, dictVars, OrderlyInv
<1>4. c \in Members /\ Up(c) /\ cast[c] = NoCast
  BY <1>1, ReaderRegistered
<1>5. StayPut(c)
  <2>1. CASE pc[c] = "loots"
    BY <1>2, <2>1 DEF ReplayEnd, StartCast, StayPut, TypeOK
  <2>2. CASE pc[c] # "loots"
    BY <1>2, <2>2 DEF ReplayEnd, StayPut, TypeOK
  <2>3. QED
    BY <2>1, <2>2
<1>6. Control(c)'
  <2>1. CASE pc[c] = "loots"
    <3>1. StartCast(c, About("peer_joined", id[c]), Cardinality(Members))
      BY <2>1 DEF ReplayEnd
    <3>2. QED
      BY <1>2, <1>4, <3>1, CastInOrder DEF About
  <2>2. CASE pc[c] # "loots"
    <3>1. PICK phase \in Phases : /\ pc'[c] = phase
                                  /\ replay' = [replay EXCEPT ![c] = StartReplay(phase)]
      BY <2>2 DEF ReplayEnd, TypeOK, Phases
    <3>2. InReplay(c)'
      BY <1>2, <3>1, LoopStarts
    <3>3. cast' = cast /\ cpu' = c
      BY <2>2 DEF ReplayEnd
    <3>4. QED
      BY <1>2, <1>4, <3>1, <3>2, <3>3 DEF Control, Leaving, Phases, Up, NoCast, About
  <2>3. QED
    BY <2>1, <2>2
<1>7. QED
  BY <1>1, <1>3, <1>5, <1>6, OneHandler

\* First picks the foremost of a set of sessions.
LEMMA FirstIsForemost ==
  ASSUME TypeOK, NEW S \in SUBSET Conns, S # {}
  PROVE  \A d \in S : slot[First(S)] <= slot[d]
<1> DEFINE T == {slot[c] : c \in S}
<1>1. T \in SUBSET Nat /\ T # {}
  BY DEF TypeOK
<1>2. PICK m \in T : \A k \in T : m <= k
  <2> HIDE DEF T
  <2> QED BY <1>1, MinNat
<1>3. PICK c \in S : \A d \in S : slot[c] <= slot[d]
  BY <1>2
<1>4. QED
  BY <1>3 DEF First

\* Up to the next peer the iterator yields what is passed with it.
LEMMA PassedToFirst ==
  ASSUME TypeOK, NEW c \in Conns, Targets(c) # {}
  PROVE  After(slot[First(Targets(c))]) = After(cast[c].at) \ Passed(c)
<1>1. PICK t \in Targets(c) : t = First(Targets(c)) /\ \A u \in Targets(c) : slot[t] <= slot[u]
  <2>1. Targets(c) \in SUBSET Conns
    BY DEF Targets, After, Members
  <2>2. QED
    BY <2>1, FirstIsMember, FirstIsForemost
<1>2. cast[c].at \in Nat /\ \A m \in Members : slot[m] \in Nat
  BY DEF TypeOK, Members
<1>3. t \in After(cast[c].at) /\ t \in Members /\ slot[t] > cast[c].at
  BY DEF Targets, After
<1>4. ASSUME NEW m \in After(slot[t])
      PROVE  m \in After(cast[c].at) \ Passed(c)
  <2>1. m \in Members /\ slot[m] > slot[t]
    BY DEF After
  <2>2. slot[m] > cast[c].at /\ ~ (slot[m] <= slot[t])
    BY <1>2, <1>3, <2>1
  <2>3. QED
    BY <2>1, <2>2 DEF After, Passed
<1>5. ASSUME NEW m \in After(cast[c].at) \ Passed(c)
      PROVE  m \in After(slot[t])
  <2>1. PICK u \in Targets(c) : ~ (slot[m] <= slot[u])
    BY DEF Passed
  <2>2. m \in Members /\ u \in Members
    BY DEF After, Targets
  <2>3. slot[t] <= slot[u]
    BY <1>1
  <2>4. slot[m] > slot[t]
    BY <1>2, <1>3, <2>1, <2>2, <2>3
  <2>5. QED
    BY <2>2, <2>4 DEF After
<1>6. QED
  BY <1>1, <1>4, <1>5

\* One message of a broadcast goes to the first of the remaining targets.
LEMMA OrderlyCastNext ==
  ASSUME Orderly, TypeOK, OrderlyInv, NEW c \in Conns, CastNext(c)
  PROVE  /\ OrderlyInv'
         /\ First(Targets(c)) \in Targets(c)
         /\ cast'[c].msg = cast[c].msg /\ cast'[c].at = slot[First(Targets(c))]
         /\ Deliver(First(Targets(c)), cast[c].msg)
<1> DEFINE t == First(Targets(c))
           less == cast[c].left - Cardinality(Passed(c))
<1>1. pc[c] = "cast" /\ Runs(c)
  BY DEF CastNext
<1>2. t \in Targets(c) /\ Targets(c) \in SUBSET Members
  <2>1. Targets(c) \in SUBSET Members /\ Targets(c) \in SUBSET Conns
    BY DEF Targets, After, Members
  <2>2. QED
    BY <2>1, FirstIsMember DEF CastNext
<1>3. t \in Members /\ t \in Conns /\ pc[t] # "done"
  BY <1>2 DEF OrderlyInv, Control, Members
<1>4. /\ cast' = [cast EXCEPT ![c].at = slot[t], ![c].target = t, ![c].left = less,
                              ![c].dead = {}]
      /\ Deliver(t, cast[c].msg)
      /\ cpu' = c
  <2>1. PICK outcome \in DrainOutcome(cast[c].target) \ {"error"} :
          /\ cast' = [cast EXCEPT ![c].at = slot[t], ![c].target = t,
                                  ![c].left = @ - Cardinality(Passed(c)),
                                  ![c].dead = DeadAfter(c, outcome)]
          /\ Deliver(t, cast[c].msg)
          /\ cpu' \in AfterSend(c, t)
    BY DEF CastNext
  <2>2. outcome = "ok" /\ DeadAfter(c, "ok") = {}
    BY CastsProceed
  <2>3. AfterSend(c, t) = {c}
    BY <1>3, SendsSucceed
  <2>4. QED
    BY <2>1, <2>2, <2>3
<1>5. cast'[c] = [cast[c] EXCEPT !.at = slot[t], !.target = t, !.left = less, !.dead = {}]
  BY <1>4 DEF TypeOK
<1>6. Members' = Members /\ UNCHANGED <<pc, link, epoch>>
  BY DEF CastNext, dictVars, Members
<1>7. StayPut(c)
  BY <1>4, <1>6 DEF StayPut, TypeOK
<1>8. Slots'
  BY SlotsKept DEF CastNext, dictVars, OrderlyInv
<1>9. cast'[c].msg = cast[c].msg /\ cast'[c].dead = {} /\ cast'[c].target = t
      /\ cast'[c].size = cast[c].size /\ cast'[c].epoch = cast[c].epoch
      /\ cast'[c].at = slot[t] /\ cast'[c].left = less
  <2> HIDE DEF t, less
  <2> QED BY <1>5 DEF TypeOK
<1>10. InCast(c)'
  <2> DEFINE at == cast[c].at
  <2>1. After(cast[c].at)' = After(slot[t])
    BY <1>6, <1>9 DEF CastNext, dictVars, After
  <2>2. After(slot[t]) = After(at) \ Passed(c)
    BY <1>2, PassedToFirst DEF CastNext
  <2>3. Passed(c) \subseteq After(at) /\ After(at) \in SUBSET Members
    BY DEF Passed, After
  <2>4. IsFiniteSet(After(at)) /\ After(at) \cap Passed(c) = Passed(c)
    BY <2>3, Sizes
  <2>5. Cardinality(After(slot[t])) = Cardinality(After(at)) - Cardinality(Passed(c))
    <3> HIDE DEF t, at
    <3> QED BY <2>2, <2>4, FS_Difference
  <2>6. InCast(c)
    BY <1>1 DEF OrderlyInv, Control
  <2>7. QED
    <3> HIDE DEF t
    <3> QED BY <1>6, <1>9, <2>1, <2>5, <2>6 DEF InCast
<1>11. Control(c)'
  <2> HIDE DEF t, less
  <2> QED BY <1>1, <1>3, <1>4, <1>6, <1>9, <1>10
             DEF OrderlyInv, Control, Leaving, Phases, Up
<1>12. QED
  BY <1>1, <1>2, <1>4, <1>7, <1>8, <1>9, <1>11, OneHandler DEF Busy

\* The end of a broadcast's loop.
LEMMA OrderlyCastEnd ==
  ASSUME Orderly, TypeOK, OrderlyInv, NEW c \in Conns, CastEnd(c)
  PROVE  OrderlyInv'
<1>1. pc[c] = "cast" /\ Runs(c) /\ pc' = [pc EXCEPT ![c] = "reap"] /\ cpu' = c
  BY DEF CastEnd
<1>2. cast' = [cast EXCEPT ![c].target = NoConn, ![c].dead = {}]
  <2>1. PICK outcome \in DrainOutcome(cast[c].target) \ {"error"} :
          cast' = [cast EXCEPT ![c].target = NoConn, ![c].dead = DeadAfter(c, outcome)]
    BY DEF CastEnd
  <2>2. outcome = "ok" /\ DeadAfter(c, "ok") = {}
    BY CastsProceed
  <2>3. QED
    BY <2>1, <2>2
<1>3. Members' = Members /\ link' = link
  BY DEF CastEnd, dictVars, Members
<1>4. cast'[c].msg = cast[c].msg /\ cast'[c].dead = {} /\ cast'[c].target = NoConn
  BY <1>2 DEF TypeOK
<1>5. StayPut(c)
  BY <1>1, <1>2, <1>3 DEF StayPut, TypeOK
<1>6. Slots'
  BY SlotsKept DEF CastEnd, dictVars, OrderlyInv
<1>7. pc'[c] = "reap"
  BY <1>1 DEF TypeOK
<1>8. Control(c)'
  BY <1>1, <1>3, <1>4, <1>7 DEF OrderlyInv, Control, Leaving, Phases, Up
<1>9. QED
  BY <1>1, <1>5, <1>6, <1>8, OneHandler DEF Busy

\* The end of a broadcast.
LEMMA OrderlyReapEnd ==
  ASSUME Orderly, TypeOK, OrderlyInv, NEW c \in Conns, ReapEnd(c)
  PROVE  OrderlyInv'
<1>1. pc[c] = "reap" /\ Runs(c) /\ cpu' = NoConn /\ cast' = [cast EXCEPT ![c] = NoCast]
  BY DEF ReapEnd, Finish
<1>2. Members' = Members
  BY DEF ReapEnd, dictVars, Members
<1>3. Slots'
  BY SlotsKept DEF ReapEnd, dictVars, OrderlyInv
<1>4. IF Leaving(c)
      THEN pc' = [pc EXCEPT ![c] = "done"]
           /\ link' = [link EXCEPT ![c] = IF @ = "up" THEN "closed" ELSE @]
      ELSE pc' = [pc EXCEPT ![c] = "reading"] /\ link' = link
  BY DEF ReapEnd, Finish, Leaving
<1>5. StayPut(c)
  BY <1>1, <1>2, <1>4 DEF StayPut, TypeOK
<1>6. cast'[c] = NoCast /\ cast'[c].dead = {} /\ cast'[c].target = NoConn /\ ~ Leaving(c)'
  BY <1>1 DEF TypeOK, NoCast, About, Leaving
<1>7. Control(c)'
  <2>1. CASE Leaving(c)
    <3>1. pc'[c] = "done" /\ c \notin Members
      BY <1>4, <2>1 DEF OrderlyInv, Control, TypeOK
    <3>2. QED
      BY <1>2, <1>6, <3>1 DEF Control, Busy, Phases
  <2>2. CASE ~ Leaving(c)
    <3>1. pc'[c] = "reading" /\ link' = link /\ c \in Members /\ Up(c)
      BY <1>1, <1>4, <2>2 DEF OrderlyInv, Control, TypeOK
    <3>2. QED
      BY <1>2, <1>6, <3>1 DEF Control, Busy, Phases, Up
  <2>3. QED
    BY <2>1, <2>2
<1>8. QED
  BY <1>1, <1>3, <1>5, <1>7, OneHandler DEF Busy

\* A departing session is found in the room under its id, and it is the only
\* one that is.
LEMMA DepartsAlone ==
  ASSUME TypeOK, RoomInv, OrderlyInv, NEW c \in Conns, pc[c] = "closing"
  PROVE  c \in Members /\ Holder(c) = {c}
<1>1. c \in Members
  BY ReaderRegistered
<1>2. QED
  BY <1>1 DEF Holder, RoomInv, RoomBounded

\* A departure.
LEMMA OrderlyUnregister ==
  ASSUME Orderly, TypeOK, RoomInv, OrderlyInv, NEW c \in Conns, Unregister(c)
  PROVE  OrderlyInv'
<1>1. pc[c] = "closing" /\ Runs(c)
  BY DEF Unregister
<1>2. Holder(c) = {c} /\ Members' = Members \ {c} /\ c \in Members
      /\ cast[c] = NoCast /\ Up(c)
  BY <1>1, DepartsAlone, ReaderRegistered, UnregisterEffect
<1>3. Slots'
  BY SlotsKept DEF Unregister, OrderlyInv
<1>4. CASE Members \ {c} = {}
  <2>1. Finish(c) /\ cast' = cast
    BY <1>2, <1>4 DEF Unregister
  <2>2. StayPut(c)
    BY <1>2, <2>1 DEF StayPut, Finish, TypeOK
  <2>3. pc'[c] = "done" /\ cast'[c] = NoCast /\ cast'[c].dead = {}
        /\ cast'[c].target = NoConn /\ c \notin Members'
    BY <1>2, <2>1 DEF Finish, TypeOK, NoCast
  <2>4. Control(c)'
    BY <2>3 DEF Control, Busy, Phases
  <2>5. QED
    BY <1>1, <1>3, <2>2, <2>4, OneHandler DEF Busy
<1>5. CASE Members \ {c} # {}
  <2>1. StartCast(c, About("peer_left", id[c]), Cardinality(Members \ {c}))
        /\ epoch' = epoch /\ link' = link
    BY <1>2, <1>5 DEF Unregister
  <2>2. Control(c)'
    BY <1>2, <2>1, CastInOrder DEF About
  <2>3. StayPut(c)
    BY <1>2, <2>1 DEF StayPut, StartCast, TypeOK
  <2>4. QED
    BY <1>1, <1>3, <2>2, <2>3, OneHandler DEF Busy
<1>6. QED
  BY <1>4, <1>5

\* A restart finds nobody under way.
LEMMA OrderlyRestart ==
  ASSUME Orderly, TypeOK, OrderlyInv, Environment
  PROVE  OrderlyInv'
<1>1. Crash /\ Members' = {}
  BY OnlyRestarts
<1>2. Slots'
  BY <1>1 DEF Crash, Slots, TypeOK
<1>3. ASSUME NEW c \in Conns
      PROVE  Control(c)'
  <2>1. /\ pc'[c] = IF pc[c] = "hello" THEN "hello" ELSE "done"
        /\ link'[c] = IF pc[c] = "hello" THEN link[c] ELSE "closed"
        /\ cast'[c] = NoCast
    BY <1>1 DEF Crash
  <2>2. cast'[c].dead = {} /\ cast'[c].target = NoConn
    BY <2>1 DEF NoCast
  <2>3. pc[c] = "hello" => Up(c)
    BY DEF OrderlyInv, Control
  <2>4. QED
    BY <1>1, <2>1, <2>2, <2>3 DEF Control, Busy, Phases, Up
<1>4. QED
  BY <1>2, <1>3 DEF OrderlyInv

\* Every handler stays in order: the other handlers' steps cannot disturb it.
LEMMA OrderlyStep ==
  ASSUME Orderly, TypeOK, RoomInv, OrderlyInv, [Next]_vars
  PROVE  OrderlyInv'
<1>1. ASSUME NEW c \in Conns, HandlerStep(c)
      PROVE  OrderlyInv'
  BY <1>1, OrderlyWelcomed, OrderlyReplayNext, OrderlyReplayEnd, OrderlyCastNext,
     OrderlyCastEnd, OrderlyReapEnd, OrderlyUnregister, CastsProceed, NoFailures
     DEF HandlerStep
<1>2. CASE UNCHANGED vars
  <2>1. UNCHANGED <<pc, cpu, cast, replay, link, slot, nextSlot, epoch, room>>
    BY <1>2 DEF vars, handlerVars, dictVars
  <2>2. Members' = Members /\ \A phase : Stored(phase)' = Stored(phase)
    BY <2>1 DEF Members, Stored
  <2>3. Slots'
    BY <2>1, <2>2 DEF Slots, OrderlyInv
  <2>4. ASSUME NEW c \in Conns
        PROVE  Control(c)'
    <3>1. /\ After(cast[c].at)' = After(cast[c].at) /\ Stored(pc[c])' = Stored(pc[c])
          /\ ToReplay(c)' = ToReplay(c)
      BY <2>1, <2>2 DEF After, Stored, ToReplay
    <3>2. (InCast(c) => InCast(c)') /\ (InReplay(c) => InReplay(c)')
      BY <2>1, <2>2, <3>1 DEF InCast, InReplay
    <3>3. QED
      BY <2>1, <2>2, <3>2 DEF OrderlyInv, Control, Leaving, Up
  <2>5. QED
    BY <2>3, <2>4 DEF OrderlyInv
<1>3. QED
  BY <1>1, <1>2, OrderlyClientStep, OrderlyRestart DEF Next

\* What is known of the handlers holds throughout.
LEMMA OrderlyInvariant == Orderly => (Spec => []OrderlyInv)
<1> SUFFICES ASSUME Orderly
             PROVE  Spec => []OrderlyInv
  OBVIOUS
<1>1. Init => OrderlyInv
  BY DEF Init, OrderlyInv, Slots, Control, Members, Busy, Phases, Up, Leaving,
         NoCast, About
<1>2. TypeOK /\ RoomInv /\ OrderlyInv /\ [Next]_vars => OrderlyInv'
  BY OrderlyStep
<1>3. QED
  BY <1>1, <1>2, TypeCorrect, RoomInvInvariant, PTL DEF Spec

-----------------------------------------------------------------------------
(* Only the host's updates are relayed.                                    *)

\* A step after which c relays an authoritative message: it was relaying it
\* before, or c starts to and carries the flag of the host.
LEMMA AuthoritativeCast ==
  ASSUME Orderly, RequireHost, TypeOK, RoomInv, OrderlyInv, [Next]_vars,
         NEW c \in Conns,
         pc'[c] = "cast", cast'[c].msg.kind \in {"world_state", "combat_event"}
  PROVE  \/ /\ pc[c] = "cast" /\ cast'[c].msg = cast[c].msg
            /\ UNCHANGED <<id, slot>> /\ room'.host = room.host
         \/ /\ isHost[c] /\ c \in Members
            /\ UNCHANGED <<id, slot>> /\ room'.host = room.host
<1> DEFINE Goal == \/ /\ pc[c] = "cast" /\ cast'[c].msg = cast[c].msg
                      /\ UNCHANGED <<id, slot>> /\ room'.host = room.host
                   \/ /\ isHost[c] /\ c \in Members
                      /\ UNCHANGED <<id, slot>> /\ room'.host = room.host
<1>1. ASSUME NEW e \in Conns, e # c, ClientStep(e) \/ HandlerStep(e)
      PROVE  FALSE
  <2>1. cpu = NoConn \/ (pc[e] \in Busy /\ Runs(e))
    BY <1>1 DEF ClientStep, HandlerStep, Reject, Register, PlayerState, WorldState,
       CombatEvent, Reads, ReadFails, Welcomed, ReplayFails, ReplayNext, ReplayEnd,
       Replaying, CastFails, CastNext, CastEnd, Reap, ReapFails, ReapEnd,
       UnregisterNobody, Unregister, Busy
  <2>2. pc[c] \notin Busy
    BY <1>1, <2>1, Alone
  <2>3. pc'[c] = pc[c]
    BY <1>1 DEF ClientStep, HandlerStep, Reject, Register, PlayerState, WorldState,
       CombatEvent, RelayMessage, ReadFails, Welcomed, ReplayFails, ReplayNext,
       ReplayEnd, CastFails, CastNext, CastEnd, Reap, ReapFails, ReapEnd,
       UnregisterNobody, Unregister, StartCast, Raise, Finish, TypeOK
  <2>4. QED
    BY <2>2, <2>3 DEF Busy
<1>2. CASE ClientStep(c)
  <2>1. CASE Reject(c)
    BY <2>1 DEF Reject, Finish, TypeOK
  <2>2. ASSUME NEW i \in Ids, NEW claimed \in BOOLEAN, Register(c, i, claimed)
        PROVE  Goal
    BY <2>2 DEF Register, TypeOK
  <2>3. CASE PlayerState(c)
    BY <2>3 DEF PlayerState, RelayMessage, StartCast, TypeOK, About
  <2>4. ASSUME NEW w \in World, WorldState(c, w)
        PROVE  Goal
    <3>1. c \in Members
      BY <2>4, ReaderRegistered DEF WorldState, Reads
    <3>2. room'.host = room.host
      BY <2>4 DEF WorldState, TypeOK, RoomState
    <3>3. QED
      BY <2>4, <3>1, <3>2 DEF WorldState, MayWriteWorld, RelayMessage, helloVars, dictVars
  <2>5. ASSUME NEW authoritative \in BOOLEAN, CombatEvent(c, authoritative)
        PROVE  Goal
    <3>1. c \in Members
      BY <2>5, ReaderRegistered DEF CombatEvent, Reads
    <3>2. authoritative
      BY <2>5 DEF CombatEvent, RelayMessage, StartCast, TypeOK, About
    <3>3. QED
      BY <2>5, <3>1, <3>2 DEF CombatEvent, MayWriteWorld, RelayMessage, helloVars, dictVars
  <2>6. CASE ReadFails(c)
    BY <2>6 DEF ReadFails, Raise, Finish, TypeOK
  <2>7. QED
    BY <1>2, <2>1, <2>2, <2>3, <2>4, <2>5, <2>6 DEF ClientStep
<1>3. CASE HandlerStep(c)
  <2>1. CASE Welcomed(c)
    BY <2>1, OrderlyWelcomed DEF TypeOK
  <2>2. ASSUME NEW key \in Ids \cup World, ReplayNext(c, key)
        PROVE  FALSE
    BY <2>2 DEF ReplayNext, Replaying, Phases
  <2>3. CASE ReplayEnd(c)
    <3>1. CASE pc[c] = "loots"
      BY <2>3, <3>1 DEF ReplayEnd, StartCast, TypeOK, About
    <3>2. CASE pc[c] # "loots"
      BY <2>3, <3>2 DEF ReplayEnd, TypeOK
    <3>3. QED
      BY <3>1, <3>2
  <2>4. CASE CastNext(c)
    <3>1. cast'[c].msg = cast[c].msg
      BY <2>4 DEF CastNext, TypeOK
    <3>2. QED
      BY <2>4, <3>1 DEF CastNext, helloVars, dictVars
  <2>5. CASE CastEnd(c)
    BY <2>5 DEF CastEnd, TypeOK
  <2>6. CASE ReapEnd(c)
    BY <2>6 DEF ReapEnd, Finish, TypeOK
  <2>7. CASE Unregister(c)
    BY <2>7 DEF Unregister, Finish, StartCast, TypeOK, About
  <2>8. QED
    BY <1>3, <2>1, <2>2, <2>3, <2>4, <2>5, <2>6, <2>7, CastsProceed, NoFailures
       DEF HandlerStep
<1>4. CASE UNCHANGED vars
  BY <1>4 DEF vars, handlerVars, helloVars, dictVars
<1>5. CASE Environment
  <2>1. pc'[c] \in {"hello", "done"}
    BY <1>5, OnlyRestarts
  <2>2. QED
    BY <2>1
<1>6. QED
  BY <1>1, <1>2, <1>3, <1>4, <1>5 DEF Next

\* While an authoritative message is relayed its sender stays the room's host:
\* the handover that another departure would cause waits for the broadcast.
THEOREM RelayedByTheHost ==
  Orderly /\ RequireHost /\ HostPlayerId = NoId => (Spec => []RelayedByHost)
<1> SUFFICES ASSUME Orderly, RequireHost, HostPlayerId = NoId
             PROVE  Spec => []RelayedByHost
  OBVIOUS
<1>1. Init => RelayedByHost
  BY DEF Init, RelayedByHost
<1>2. ASSUME TypeOK, RoomInv, OrderlyInv, HostFlag, RelayedByHost, [Next]_vars
      PROVE  RelayedByHost'
  <2>1. SUFFICES ASSUME NEW c \in Conns, pc'[c] = "cast",
                        cast'[c].msg.kind \in {"world_state", "combat_event"}
                 PROVE  c \in Members' /\ id'[c] = room'.host
    BY DEF RelayedByHost
  <2>2. CASE /\ pc[c] = "cast" /\ cast'[c].msg = cast[c].msg
             /\ UNCHANGED <<id, slot>> /\ room'.host = room.host
    BY <1>2, <2>1, <2>2 DEF RelayedByHost, Members
  <2>3. CASE /\ isHost[c] /\ c \in Members
             /\ UNCHANGED <<id, slot>> /\ room'.host = room.host
    BY <1>2, <2>3 DEF HostFlag, Members
  <2>4. QED
    BY <1>2, <2>1, <2>2, <2>3, AuthoritativeCast
<1>3. QED
  BY <1>1, <1>2, TypeCorrect, RoomInvInvariant, OrderlyInvariant, FlagNamesTheHost,
     PTL DEF Spec

-----------------------------------------------------------------------------
(* The relay implements SharedRoom.                                        *)

\* A room that changes in no way its players can tell.
LEMMA Stutter ==
  ASSUME Members' = Members, UNCHANGED <<id, claims, room>>
  PROVE  UNCHANGED Promise!vars
BY DEF Promise!vars, IdsOf

\* SharedRoom counts as Relay does.
LEMMA SameCardinality == \A S : Promise!Cardinality(S) = Cardinality(S)
BY DEF Promise!Cardinality, Cardinality

\* An accepted hello is a Join.
LEMMA RegisterIsJoin ==
  ASSUME HostPlayerId = NoId, TypeOK, RoomInv, NEW c \in Conns, NEW i \in Ids,
         NEW claimed \in BOOLEAN, Register(c, i, claimed)
  PROVE  Promise!Join(i, claimed)
<1>1. /\ Members' = Members \cup {c}
      /\ id' = [id EXCEPT ![c] = i]
      /\ claims' = [claims EXCEPT ![c] = claimed]
  BY RegisterEffect
<1>2. c \notin Members /\ i \notin Present
  BY DEF Register, RoomInv, Present
<1>3. \A d \in Members : d \in Conns /\ d # c /\ id'[d] = id[d] /\ claims'[d] = claims[d]
  BY <1>1, <1>2 DEF Members, TypeOK
<1>4. id'[c] = i /\ claims'[c] = claimed
  BY <1>1 DEF TypeOK
<1>5. Present' = Present \cup {i}
  BY <1>1, <1>3, <1>4 DEF Present, IdsOf
<1>6. Claimants' = IF claimed THEN Claimants \cup {i} ELSE Claimants
  BY <1>1, <1>3, <1>4 DEF Claimants, IdsOf
<1>7. Cardinality(Present) < RoomCapacity
  <2>1. Cardinality(Members) < RoomCapacity /\ Cardinality(Members) \in Nat
    BY Sizes DEF Register, HasPlace
  <2>2. QED
    BY <2>1, PresentBounded, RelayAssumption DEF RelayAssumption
<1>8. room'.host = IF claimed /\ room.host = NoId THEN i ELSE room.host
  BY RegisterEffect, RelayAssumption DEF RelayAssumption
<1>9. room'.players = room.players /\ room'.world = room.world
  BY DEF Register, TypeOK, RoomState
<1>10. QED
  <2>1. CASE claimed
    BY <2>1, <1>2, <1>5, <1>6, <1>7, <1>8, <1>9, SameCardinality
       DEF Promise!Join, Present, Claimants
  <2>2. CASE ~ claimed
    BY <2>2, <1>2, <1>5, <1>6, <1>7, <1>8, <1>9, SameCardinality
       DEF Promise!Join, Present, Claimants
  <2>3. QED
    BY <2>1, <2>2

\* A departure is a Leave, and the successor is a claimant who remains.
LEMMA UnregisterIsLeave ==
  ASSUME HostPlayerId = NoId, TypeOK, RoomInv, OrderlyInv, NEW c \in Conns,
         Unregister(c)
  PROVE  Promise!Leave(id[c])
<1> DEFINE i == id[c]
           remaining == Members \ {c}
           hosts == {m \in remaining : claims[m]}
<1>1. c \in Members /\ Holder(c) = {c}
  BY DepartsAlone DEF Unregister
<1>2. Members' = remaining /\ UNCHANGED <<id, claims>>
      /\ room'.host = IF room.host = i THEN NextHost(remaining) ELSE room.host
  BY <1>1, UnregisterEffect
<1>3. \A d \in remaining : d \in Conns /\ id[d] # i /\ id[d] \in Ids
  BY <1>1 DEF RoomInv, RoomBounded, Members
<1>4. Present' = Present \ {i} /\ i \in Present
  BY <1>1, <1>2, <1>3 DEF Present, IdsOf
<1>5. Claimants' = Claimants \ {i} /\ Claimants' = IdsOf(hosts)
  BY <1>1, <1>2, <1>3 DEF Claimants, IdsOf
<1>6. NextHost(remaining) = IF hosts # {} THEN id[First(hosts)] ELSE NoId
  <2>1. HostPlayerId \notin IdsOf(remaining)
    BY <1>3, RelayAssumption DEF IdsOf, RelayAssumption
  <2>2. QED
    BY <2>1 DEF NextHost
<1>7. CASE hosts # {}
  <2>1. hosts \in SUBSET Conns
    BY <1>3
  <2>2. First(hosts) \in hosts
    <3> HIDE DEF hosts
    <3> QED BY <1>7, <2>1, FirstIsMember
  <2>3. id[First(hosts)] \in Claimants'
    BY <1>5, <2>2 DEF IdsOf
  <2>4. \/ room.host # i /\ room'.host = room.host
        \/ room.host = i /\ room'.host \in Claimants'
    BY <1>2, <1>6, <1>7, <2>3
  <2>5. room'.players = room.players \ {i} /\ room'.world = room.world
    BY DEF Unregister, TypeOK, RoomState
  <2>6. QED
    BY <1>4, <1>5, <2>4, <2>5 DEF Promise!Leave, Present, Claimants
<1>8. CASE hosts = {}
  <2>1. Claimants' = {}
    BY <1>5, <1>8 DEF IdsOf
  <2>2. \/ room.host # i /\ room'.host = room.host
        \/ room.host = i /\ room'.host = NoId
    BY <1>2, <1>6, <1>8
  <2>3. room'.players = room.players \ {i} /\ room'.world = room.world
    BY DEF Unregister, TypeOK, RoomState
  <2>4. QED
    BY <1>4, <1>5, <2>1, <2>2, <2>3 DEF Promise!Leave, Present, Claimants
<1>9. QED
  BY <1>7, <1>8

\* A player's state is an Appear, the host's update a Publish, and whatever
\* else a client does the room does not notice.
LEMMA ClientStepImplements ==
  ASSUME HostPlayerId = NoId, RequireHost, TypeOK, RoomInv, OrderlyInv, HostFlag,
         NEW c \in Conns, ClientStep(c)
  PROVE  Promise!Next \/ UNCHANGED Promise!vars
<1>1. CASE Reject(c)
  BY <1>1, Stutter DEF Reject, helloVars, dictVars, Members
<1>2. ASSUME NEW i \in Ids, NEW claimed \in BOOLEAN, Register(c, i, claimed)
      PROVE  Promise!Next
  BY <1>2, RegisterIsJoin DEF Promise!Next
<1>3. ASSUME PlayerState(c) \/ \E w \in World : WorldState(c, w)
      PROVE  /\ c \in Members /\ id[c] \in Ids /\ id[c] \in Present
             /\ Present' = Present /\ Claimants' = Claimants
  <2>1. c \in Members
    BY <1>3, ReaderRegistered DEF PlayerState, WorldState, Reads
  <2>2. Members' = Members /\ UNCHANGED <<id, claims>>
    BY <1>3 DEF PlayerState, WorldState, RelayMessage, Members, helloVars, dictVars
  <2>3. QED
    BY <2>1, <2>2 DEF RoomInv, Present, Claimants, IdsOf
<1>4. CASE PlayerState(c)
  <2>1. room'.players = room.players \cup {id[c]} /\ room'.host = room.host
        /\ room'.world = room.world
    BY <1>4 DEF PlayerState, TypeOK, RoomState
  <2>2. Promise!Appear(id[c])
    BY <1>3, <1>4, <2>1 DEF Promise!Appear, Present, Claimants
  <2>3. QED
    BY <1>3, <1>4, <2>2 DEF Promise!Next
<1>5. ASSUME NEW w \in World, WorldState(c, w)
      PROVE  Promise!Next
  <2>1. /\ room'.world = [room.world EXCEPT ![w] = @ + 1]
        /\ room'.host = room.host /\ room'.players = room.players
        /\ room.world[w] < MaxVersion
    BY <1>5 DEF WorldState, TypeOK, RoomState
  <2>2. room.host = id[c]
    BY <1>3, <1>5 DEF WorldState, MayWriteWorld, HostFlag
  <2>3. Promise!Publish(w)
    BY <1>3, <1>5, <2>1, <2>2 DEF Promise!Publish, Present, Claimants
  <2>4. QED
    BY <2>3 DEF Promise!Next
<1>6. ASSUME NEW authoritative \in BOOLEAN, CombatEvent(c, authoritative)
      PROVE  UNCHANGED Promise!vars
  BY <1>6, Stutter DEF CombatEvent, RelayMessage, helloVars, dictVars, Members
<1>7. CASE ReadFails(c)
  BY <1>7, Stutter DEF ReadFails, helloVars, dictVars, Members
<1>8. QED
  BY <1>1, <1>2, <1>4, <1>5, <1>6, <1>7 DEF ClientStep

\* Of a handler's own steps the room notices only the departure.
LEMMA HandlerStepImplements ==
  ASSUME Orderly, HostPlayerId = NoId, TypeOK, RoomInv, OrderlyInv,
         NEW c \in Conns, HandlerStep(c)
  PROVE  Promise!Next \/ UNCHANGED Promise!vars
<1>1. CASE Unregister(c)
  <2>1. id[c] \in Ids
    BY <1>1, DepartsAlone DEF Unregister, RoomInv
  <2>2. QED
    BY <1>1, <2>1, UnregisterIsLeave DEF Promise!Next
<1>2. ASSUME ~ Unregister(c)
      PROVE  UNCHANGED Promise!vars
  <2>1. UNCHANGED <<id, claims, slot, room>>
    BY <1>2, CastsProceed, NoFailures
       DEF HandlerStep, Welcomed, ReplayNext, ReplayEnd, CastNext, CastEnd, ReapEnd,
           helloVars, dictVars
  <2>2. QED
    BY <2>1, Stutter DEF Members
<1>3. QED
  BY <1>1, <1>2

\* Behind connections, broadcasts and replays, the room of a relay that is not
\* restarted does what SharedRoom says: places, successors and the one writer
\* are kept.
THEOREM RelayKeepsPromise ==
  Orderly /\ MaxCrashes = 0 /\ RequireHost /\ HostPlayerId = NoId
    => (Spec => KeepsPromise)
<1> SUFFICES ASSUME Orderly, MaxCrashes = 0, RequireHost, HostPlayerId = NoId
             PROVE  Spec => KeepsPromise
  OBVIOUS
<1>1. Init => Promise!Init
  BY DEF Init, Promise!Init, Members, IdsOf, EmptyRoom, NoWorld
<1>2. TypeOK /\ RoomInv /\ OrderlyInv /\ HostFlag /\ [Next]_vars
        => [Promise!Next]_Promise!vars
  <2> SUFFICES ASSUME TypeOK, RoomInv, OrderlyInv, HostFlag, [Next]_vars
               PROVE  Promise!Next \/ UNCHANGED Promise!vars
    OBVIOUS
  <2>1. CASE UNCHANGED vars
    BY <2>1, Stutter DEF vars, helloVars, dictVars, Members
  <2>2. ~ Environment
    <3>1. crashes \in Nat /\ ~ (crashes < MaxCrashes)
      BY DEF TypeOK
    <3>2. QED
      BY <3>1, OnlyRestarts DEF Crash
  <2>3. QED
    BY <2>1, <2>2, ClientStepImplements, HandlerStepImplements DEF Next
<1>3. QED
  BY <1>1, <1>2, TypeCorrect, RoomInvInvariant, OrderlyInvariant, FlagNamesTheHost,
     PTL DEF Spec, KeepsPromise, Promise!Spec

\* The theorem about SharedRoom is one about the relay's room.
Led == INSTANCE SharedRoomProofs WITH
  present   <- IdsOf(Members),
  claimants <- IdsOf({c \in Members : claims[c]}),
  host      <- room.host,
  players   <- room.players,
  world     <- room.world

\* The two instances are of one module.
LEMMA SameSharedRoom ==
  /\ Promise!Init => Led!Init
  /\ [Promise!Next]_Promise!vars => [Led!Next]_Led!vars
  /\ Led!Leadership => Promise!Leadership
<1>1. Promise!Init => Led!Init
  BY DEF Promise!Init, Led!Init
<1>2. [Promise!Next]_Promise!vars => [Led!Next]_Led!vars
  <2>1. ASSUME NEW i, NEW claimed, Promise!Join(i, claimed)
        PROVE  Led!Join(i, claimed)
    BY <2>1 DEF Promise!Join, Led!Join, Promise!Cardinality, Led!Cardinality
  <2>2. QED
    BY <2>1 DEF Promise!Next, Led!Next, Promise!vars, Led!vars,
      Promise!Leave, Led!Leave, Promise!Appear, Led!Appear, Promise!Publish, Led!Publish
<1>3. Led!Leadership => Promise!Leadership
  BY DEF Led!Leadership, Promise!Leadership, Led!Cardinality, Promise!Cardinality
<1>4. QED
  BY <1>1, <1>2, <1>3

\* Unless the relay is restarted its host is a claimant who is in the room, and
\* a room with a claimant has one: no successor is somebody who is gone.
THEOREM RelayIsLed ==
  Orderly /\ MaxCrashes = 0 /\ RequireHost /\ HostPlayerId = NoId
    => (Spec => []Promise!Leadership)
<1> SUFFICES ASSUME Orderly, MaxCrashes = 0, RequireHost, HostPlayerId = NoId
             PROVE  Spec => []Promise!Leadership
  OBVIOUS
<1>1. Led!Sensible
  BY RelayAssumption DEF RelayAssumption, Led!Sensible
<1>2. KeepsPromise => Led!Spec
  BY SameSharedRoom, PTL DEF KeepsPromise, Promise!Spec, Led!Spec
<1>3. Led!Spec => []Led!Leadership
  BY <1>1, Led!RoomIsLed
<1>4. Led!Leadership => Promise!Leadership
  BY SameSharedRoom
<1>5. QED
  BY <1>2, <1>3, <1>4, RelayKeepsPromise, PTL

-----------------------------------------------------------------------------
(* What the clients hold.                                                  *)

\* The client holds the room's world and the player states of its peers.
Current(d) == view[d] = room.world /\ avatars[d] = room.players \ {id[d]}

\* It will once it has received m.
Awaits(d, m) ==
  /\ room.world = IF m.kind = "world_state"
                  THEN [view[d] EXCEPT ![m.about] = m.version] ELSE view[d]
  /\ room.players \ {id[d]} = CASE m.kind = "player_state" -> avatars[d] \cup {m.about}
                                [] m.kind = "peer_left" -> avatars[d] \ {m.about}
                                [] OTHER -> avatars[d]

\* The broadcasts that have still to reach d.
Pending(d) == {c \in Conns : pc[c] = "cast" /\ d \in Targets(c)}

\* What a joining client holds follows the replay.
JoinerCopy(d) ==
  /\ pc[d] \in {"hello", "welcome", "players"} => view[d] = NoWorld
  /\ pc[d] \in {"hello", "welcome"} => avatars[d] = {}
  /\ pc[d] \in Phases => replay[d].sent \subseteq Stored(pc[d])
  /\ pc[d] = "players" => avatars[d] = replay[d].sent \ {id[d]}
  /\ pc[d] \in {"quests", "loots"} =>
       /\ avatars[d] = room.players \ {id[d]}
       /\ view[d] = [w \in World |->
                       IF w \in replay[d].sent \/ (pc[d] = "loots" /\ w \in Quests)
                       THEN room.world[w] ELSE 0]

\* What any other registered client holds is current, or a pending broadcast
\* will make it so.
MemberCopy(d) ==
  d \in Members /\ pc[d] \notin {"welcome"} \cup Phases =>
    /\ Pending(d) = {} => Current(d)
    /\ \A c \in Pending(d) : Awaits(d, cast[c].msg)

CopiesInv == \A d \in Conns : JoinerCopy(d) /\ MemberCopy(d)

\* c has the floor: it holds the processor or nobody does.
Floor(c) == cpu = NoConn \/ (pc[c] \in Busy /\ Runs(c))

\* The step of c changes nothing else that belongs to the others.
OthersKept(c) ==
  \A d \in Conns \ {c} :
    /\ pc'[d] = pc[d] /\ id'[d] = id[d] /\ replay'[d] = replay[d]
    /\ d \in Members' => d \in Members

\* While c has the floor and casts nothing, nothing is pending.
LEMMA NothingPending ==
  ASSUME OrderlyInv, NEW c \in Conns, Floor(c), pc[c] # "cast" \/ Targets(c) = {},
         NEW d \in Conns
  PROVE  Pending(d) = {}
<1>1. \A e \in Conns \ {c} : pc[e] # "cast"
  BY Alone DEF Floor, Busy
<1>2. QED
  BY <1>1 DEF Pending

\* Of the others only those who have not joined yet have a joiner's copy.
LEMMA OthersJoin ==
  ASSUME OrderlyInv, CopiesInv, NEW c \in Conns, Floor(c), OthersKept(c),
         NEW d \in Conns \ {c}, view'[d] = view[d], avatars'[d] = avatars[d]
  PROVE  JoinerCopy(d)'
<1>1. pc[d] \notin Busy
  BY Alone DEF Floor
<1>2. QED
  BY <1>1 DEF OthersKept, CopiesInv, JoinerCopy, Busy, Phases

\* A step of c before and after which nothing is pending, and which leaves the
\* room's copy alone, keeps everybody's.
LEMMA NothingCast ==
  ASSUME OrderlyInv, CopiesInv, NEW c \in Conns, Floor(c), OthersKept(c),
         pc[c] # "cast" \/ Targets(c) = {}, pc'[c] # "cast",
         room'.world = room.world, room'.players = room.players,
         \A d \in Conns \ {c} : view'[d] = view[d] /\ avatars'[d] = avatars[d],
         JoinerCopy(c)', c \in Members' /\ pc'[c] \notin {"welcome"} \cup Phases
                           => Current(c)'
  PROVE  CopiesInv'
<1>1. \A e \in Conns : pc'[e] # "cast"
  BY Alone DEF Floor, OthersKept, Busy
<1>2. ASSUME NEW d \in Conns
      PROVE  Pending(d)' = {}
  BY <1>1 DEF Pending
<1>3. ASSUME NEW d \in Conns, d # c
      PROVE  JoinerCopy(d)' /\ MemberCopy(d)'
  <2>1. JoinerCopy(d)'
    BY <1>3, OthersJoin
  <2>2. Pending(d) = {}
    BY NothingPending
  <2>3. ASSUME d \in Members'
        PROVE  Current(d)'
    <3>1. d \in Members /\ pc[d] \notin {"welcome"} \cup Phases
      BY <1>3, <2>3, Alone DEF Floor, OthersKept, Busy
    <3>2. Current(d)
      BY <2>2, <3>1 DEF CopiesInv, MemberCopy
    <3>3. QED
      BY <1>3, <3>2 DEF Current, OthersKept
  <2>4. QED
    BY <1>2, <2>1, <2>3 DEF MemberCopy
<1>4. MemberCopy(c)'
  BY <1>2 DEF MemberCopy
<1>5. QED
  BY <1>3, <1>4 DEF CopiesInv

\* A broadcast that begins is pending for everybody but its sender.
LEMMA CastPending ==
  ASSUME TypeOK, OrderlyInv, NEW c \in Conns, Floor(c), OthersKept(c), NEW m, NEW size,
         StartCast(c, m, size),
         \A d \in Members' \ {c} : id'[d] # id'[c]
  PROVE  /\ cast'[c].msg = m
         /\ \A d \in Members' : Pending(d)' = IF d = c THEN {} ELSE {c}
<1>1. pc'[c] = "cast" /\ cast'[c].msg = m /\ cast'[c].at = 0
  BY DEF StartCast, TypeOK
<1>2. \A e \in Conns \ {c} : pc'[e] # "cast"
  BY Alone DEF Floor, OthersKept, Busy
<1>3. Targets(c)' = Members' \ {c}
  BY <1>1 DEF Targets, After, Members
<1>4. QED
  BY <1>1, <1>2, <1>3 DEF Pending

\* A step of c that starts a broadcast: it suffices that c is current and that
\* the message makes the others so.
LEMMA CastStarts ==
  ASSUME TypeOK, OrderlyInv, CopiesInv, NEW c \in Conns, Floor(c), OthersKept(c),
         NEW m, NEW size, StartCast(c, m, size),
         pc[c] # "cast",
         \A d \in Members' \ {c} : id'[d] # id'[c],
         \A d \in Conns \ {c} : view'[d] = view[d] /\ avatars'[d] = avatars[d],
         c \in Members' => Current(c)',
         \A d \in Members' \ {c} : Current(d) => Awaits(d, m)'
  PROVE  CopiesInv'
<1>1. cast'[c].msg = m /\ \A d \in Members' : Pending(d)' = IF d = c THEN {} ELSE {c}
  BY CastPending
<1>2. ASSUME NEW d \in Conns, d # c
      PROVE  JoinerCopy(d)' /\ MemberCopy(d)'
  <2>1. JoinerCopy(d)'
    BY <1>2, OthersJoin
  <2>2. Pending(d) = {}
    BY NothingPending
  <2>3. ASSUME d \in Members'
        PROVE  Awaits(d, m)'
    <3>1. d \in Members /\ pc[d] \notin {"welcome"} \cup Phases
      BY <1>2, <2>3, Alone DEF Floor, OthersKept, Busy
    <3>2. Current(d)
      BY <2>2, <3>1 DEF CopiesInv, MemberCopy
    <3>3. QED
      BY <1>2, <2>3, <3>2
  <2>4. QED
    BY <1>1, <1>2, <2>1, <2>3 DEF MemberCopy, Awaits
<1>3. JoinerCopy(c)' /\ MemberCopy(c)'
  <2>1. pc'[c] = "cast"
    BY DEF StartCast, TypeOK
  <2>2. JoinerCopy(c)'
    BY <2>1 DEF JoinerCopy, Phases
  <2>3. MemberCopy(c)'
    BY <1>1 DEF MemberCopy
  <2>4. QED
    BY <2>2, <2>3
<1>4. QED
  BY <1>2, <1>3 DEF CopiesInv

\* No other registered session has the id of c.
LEMMA MembersDiffer ==
  ASSUME RoomInv, NEW c \in Members
  PROVE  \A d \in Members \ {c} : id[d] # id[c]
BY DEF RoomInv, RoomBounded

\* A reader's copy is current while it has the floor.
LEMMA ReaderCurrent ==
  ASSUME OrderlyInv, CopiesInv, NEW c \in Conns, Floor(c),
         pc[c] \in {"reading", "closing"}
  PROVE  Current(c)
<1>1. Pending(c) = {} /\ c \in Members
  BY NothingPending, ReaderRegistered
<1>2. QED
  BY <1>1 DEF CopiesInv, MemberCopy, Phases

\* What a client sends is current with itself, and makes its peers so.
LEMMA CopiesMessage ==
  ASSUME TypeOK, RoomInv, OrderlyInv, CopiesInv, NEW c \in Conns, NEW m,
         cpu = NoConn, pc[c] = "reading", RelayMessage(c, m),
         \A d \in Conns \ {c} : view'[d] = view[d],
         Current(c)',
         \A d \in Members \ {c} : Current(d) => Awaits(d, m)'
  PROVE  CopiesInv'
<1>1. c \in Members
  BY ReaderRegistered
<1>2. Members' = Members /\ id' = id /\ avatars' = avatars /\ replay' = replay
      /\ StartCast(c, m, Cardinality(Members))
  BY DEF RelayMessage, Members, dictVars, helloVars
<1>3. OthersKept(c)
  BY <1>2 DEF OthersKept, StartCast, TypeOK
<1>4. \A d \in Members' \ {c} : id'[d] # id'[c]
  BY <1>1, <1>2, MembersDiffer
<1>5. QED
  BY <1>2, <1>3, <1>4, CastStarts DEF Floor

\* A player's own state.
LEMMA CopiesPlayerState ==
  ASSUME TypeOK, RoomInv, OrderlyInv, CopiesInv, NEW c \in Conns, PlayerState(c)
  PROVE  CopiesInv'
<1>1. cpu = NoConn /\ pc[c] = "reading" /\ Current(c) /\ c \in Members
  BY ReaderCurrent, ReaderRegistered DEF PlayerState, Reads, Floor
<1>2. room'.players = room.players \cup {id[c]} /\ room'.world = room.world
      /\ UNCHANGED <<view, avatars, id>>
  BY DEF PlayerState, RelayMessage, helloVars, TypeOK, RoomState
<1>3. Current(c)'
  BY <1>1, <1>2 DEF Current
<1>4. ASSUME NEW m, m = About("player_state", id[c]), NEW d \in Members \ {c}, Current(d)
      PROVE  Awaits(d, m)'
  <2>1. id[d] # id[c]
    BY <1>1, MembersDiffer
  <2>2. m.kind = "player_state" /\ m.about = id[c]
    BY <1>4 DEF About
  <2>3. room'.players \ {id'[d]} = avatars'[d] \cup {m.about}
    BY <1>2, <1>4, <2>1, <2>2 DEF Current
  <2>4. room'.world = view'[d]
    BY <1>2, <1>4 DEF Current
  <2>5. QED
    BY <2>2, <2>3, <2>4 DEF Awaits
<1>5. ASSUME NEW m, m = About("player_state", id[c]), RelayMessage(c, m)
      PROVE  CopiesInv'
  BY <1>1, <1>2, <1>3, <1>4, <1>5, CopiesMessage
<1>6. QED
  BY <1>5 DEF PlayerState

\* A world update.
LEMMA CopiesWorldState ==
  ASSUME TypeOK, RoomInv, OrderlyInv, CopiesInv, NEW c \in Conns, NEW w \in World,
         WorldState(c, w)
  PROVE  CopiesInv'
<1>1. cpu = NoConn /\ pc[c] = "reading" /\ Current(c) /\ c \in Members
  BY ReaderCurrent, ReaderRegistered DEF WorldState, Reads, Floor
<1>2. room'.world = [room.world EXCEPT ![w] = room.world[w] + 1]
      /\ room'.players = room.players /\ UNCHANGED <<avatars, id>>
  BY DEF WorldState, RelayMessage, helloVars, TypeOK, RoomState
<1>3. view' = [view EXCEPT ![c][w] = room.world[w] + 1]
  BY DEF WorldState
<1>4. Current(c)'
  BY <1>1, <1>2, <1>3 DEF Current, TypeOK
<1>5. \A d \in Conns \ {c} : view'[d] = view[d]
  BY <1>3 DEF TypeOK
<1>6. ASSUME NEW m, m = [kind |-> "world_state", about |-> w,
                         version |-> room.world[w] + 1],
             NEW d \in Members \ {c}, Current(d)
      PROVE  Awaits(d, m)'
  <2>1. m.kind = "world_state" /\ m.about = w /\ m.version = room.world[w] + 1
    BY <1>6
  <2>2. view'[d] = room.world /\ avatars'[d] = room.players \ {id[d]}
    BY <1>2, <1>5, <1>6 DEF Current, Members
  <2>3. QED
    BY <1>2, <2>1, <2>2 DEF Awaits
<1>7. ASSUME NEW m, m = [kind |-> "world_state", about |-> w,
                         version |-> room.world[w] + 1], RelayMessage(c, m)
      PROVE  CopiesInv'
  BY <1>1, <1>4, <1>5, <1>6, <1>7, CopiesMessage
<1>8. QED
  BY <1>7 DEF WorldState

\* A combat event changes nobody's copy.
LEMMA CopiesCombatEvent ==
  ASSUME TypeOK, RoomInv, OrderlyInv, CopiesInv, NEW c \in Conns,
         NEW authoritative \in BOOLEAN, CombatEvent(c, authoritative)
  PROVE  CopiesInv'
<1>1. cpu = NoConn /\ pc[c] = "reading" /\ Current(c) /\ c \in Members
  BY ReaderCurrent, ReaderRegistered DEF CombatEvent, Reads, Floor
<1>2. UNCHANGED <<room, view, avatars, id>>
  BY DEF CombatEvent, RelayMessage, helloVars
<1>3. Current(c)'
  BY <1>1, <1>2 DEF Current
<1>4. ASSUME NEW m, m.kind \in {"combat_event", "other"}, NEW d \in Members \ {c}, Current(d)
      PROVE  Awaits(d, m)'
  BY <1>2, <1>4 DEF Awaits, Current
<1>5. ASSUME NEW m, m.kind \in {"combat_event", "other"}, RelayMessage(c, m)
      PROVE  CopiesInv'
  BY <1>1, <1>2, <1>3, <1>4, <1>5, CopiesMessage
<1>6. QED
  BY <1>5 DEF CombatEvent, About

\* A refusal, a hello and a farewell leave every copy as it is.
LEMMA CopiesComeAndGo ==
  ASSUME Orderly, TypeOK, OrderlyInv, CopiesInv, NEW c \in Conns,
         \/ Reject(c) \/ ReadFails(c)
         \/ \E i \in Ids, claimed \in BOOLEAN : Register(c, i, claimed)
  PROVE  CopiesInv'
<1>1. CASE Reject(c)
  <2>1. Floor(c) /\ pc[c] = "hello" /\ pc' = [pc EXCEPT ![c] = "done"]
        /\ view' = [view EXCEPT ![c] = NoWorld] /\ avatars' = [avatars EXCEPT ![c] = {}]
        /\ UNCHANGED <<id, replay, slot, room>>
    BY <1>1 DEF Reject, Finish, Floor, helloVars, dictVars
  <2>2. Members' = Members /\ c \notin Members
    BY <2>1 DEF Members, OrderlyInv, Control
  <2>3. pc'[c] = "done" /\ JoinerCopy(c)'
    BY <2>1 DEF TypeOK, JoinerCopy, Phases
  <2>4. OthersKept(c) /\ \A d \in Conns \ {c} : view'[d] = view[d] /\ avatars'[d] = avatars[d]
    BY <2>1, <2>2 DEF OthersKept, TypeOK
  <2>5. QED
    BY <2>1, <2>2, <2>3, <2>4, NothingCast
<1>2. CASE ReadFails(c)
  <2>1. Floor(c) /\ pc[c] = "reading" /\ UNCHANGED <<id, slot, room>>
    BY <1>2 DEF ReadFails, Floor, helloVars, dictVars
  <2>2. ~ Leaving(c)
    BY <2>1, ReaderRegistered
  <2>3. pc' = [pc EXCEPT ![c] = "closing"] /\ UNCHANGED <<view, avatars>>
        /\ \A d \in Conns \ {c} : replay'[d] = replay[d]
    BY <1>2, <2>2 DEF ReadFails, Raise, Leaving, clientVars, TypeOK
  <2>4. Members' = Members
    BY <2>1 DEF Members
  <2>5. pc'[c] = "closing" /\ JoinerCopy(c)'
    BY <2>3 DEF TypeOK, JoinerCopy, Phases
  <2>6. OthersKept(c)
    BY <2>1, <2>3, <2>4 DEF OthersKept, TypeOK
  <2>7. Current(c)'
    BY <2>1, <2>3, ReaderCurrent DEF Current
  <2>8. QED
    BY <2>1, <2>3, <2>5, <2>6, <2>7, NothingCast
<1>3. ASSUME NEW i \in Ids, NEW claimed \in BOOLEAN, Register(c, i, claimed)
      PROVE  CopiesInv'
  <2>1. Floor(c) /\ pc[c] = "hello" /\ UNCHANGED <<view, avatars, replay>>
        /\ pc' = [pc EXCEPT ![c] = "welcome"] /\ id' = [id EXCEPT ![c] = i]
    BY <1>3 DEF Register, Floor, clientVars
  <2>2. room'.world = room.world /\ room'.players = room.players
    BY <1>3 DEF Register, TypeOK, RoomState
  <2>3. Members' = Members \cup {c}
    BY <1>3, RegisterEffect
  <2>4. pc'[c] = "welcome" /\ JoinerCopy(c)'
    BY <2>1 DEF TypeOK, JoinerCopy, CopiesInv, Phases
  <2>5. OthersKept(c)
    BY <2>1, <2>3 DEF OthersKept, TypeOK
  <2>6. QED
    BY <2>1, <2>2, <2>4, <2>5, NothingCast
<1>4. QED
  BY <1>1, <1>2, <1>3

\* The replay begins with an empty copy.
LEMMA CopiesWelcomed ==
  ASSUME Orderly, TypeOK, OrderlyInv, CopiesInv, NEW c \in Conns, Welcomed(c)
  PROVE  CopiesInv'
<1>1. Floor(c) /\ pc[c] = "welcome" /\ UNCHANGED <<id, slot, room>>
  BY DEF Welcomed, Floor, Busy, helloVars, dictVars
<1>2. /\ pc' = [pc EXCEPT ![c] = "players"]
      /\ replay' = [replay EXCEPT ![c] = StartReplay("players")]
      /\ UNCHANGED <<view, avatars>>
  BY OrderlyWelcomed DEF clientVars
<1>3. pc'[c] = "players" /\ replay'[c].sent = {}
  <2>1. pc'[c] = "players" /\ room' = room
    BY <1>1, <1>2 DEF TypeOK
  <2>2. QED
    BY <1>2, <2>1, LoopStarts DEF Phases
<1>4. OthersKept(c)
  BY <1>1, <1>2 DEF OthersKept, Members, TypeOK
<1>5. JoinerCopy(c)'
  BY <1>1, <1>2, <1>3 DEF CopiesInv, JoinerCopy
<1>6. QED
  BY <1>1, <1>2, <1>3, <1>4, <1>5, NothingCast DEF Phases

\* Every replayed message brings the copy one entry further.
LEMMA CopiesReplayNext ==
  ASSUME Orderly, TypeOK, OrderlyInv, CopiesInv, NEW c \in Conns,
         NEW key \in Ids \cup World, ReplayNext(c, key)
  PROVE  CopiesInv'
<1>1. /\ pc[c] \in Phases /\ Floor(c) /\ pc[c] # "cast" /\ Up(c)
      /\ UNCHANGED <<pc, id, slot, room>>
  BY SendsSucceed
     DEF ReplayNext, Replaying, Floor, Busy, Phases, helloVars, dictVars
<1>2. replay'[c].sent = replay[c].sent \cup {key}
      /\ \A d \in Conns \ {c} : replay'[d] = replay[d]
  BY DEF ReplayNext, TypeOK
<1>3. key \in Stored(pc[c])
  BY DEF ReplayNext, ToReplay
<1>4. \A d \in Conns \ {c} : view'[d] = view[d] /\ avatars'[d] = avatars[d]
  BY DEF ReplayNext, Deliver, TypeOK, clientVars
<1>5. OthersKept(c)
  BY <1>1, <1>2 DEF OthersKept, Members
<1>6. Stored(pc[c])' = Stored(pc[c])
  BY <1>1 DEF Stored
<1>7. JoinerCopy(c)'
  <2>1. replay'[c].sent \subseteq Stored(pc[c])'
    <3>1. replay[c].sent \subseteq Stored(pc[c])
      BY <1>1 DEF CopiesInv, JoinerCopy
    <3>2. QED
      BY <1>2, <1>3, <1>6, <3>1
  <2>2. CASE pc[c] = "players"
    <3>1. view' = view /\ avatars'[c] = IF key = id[c] THEN avatars[c]
                                        ELSE avatars[c] \cup {key}
      BY <1>1, <2>2 DEF ReplayNext, Deliver, About, TypeOK, clientVars
    <3>2. QED
      BY <1>1, <1>2, <1>3, <2>1, <2>2, <3>1 DEF CopiesInv, JoinerCopy
  <2>3. CASE pc[c] \in {"quests", "loots"}
    <3>1. Deliver(c, [kind |-> "world_state", about |-> key, version |-> room.world[key]])
      BY <2>3 DEF ReplayNext
    <3>2. avatars' = avatars /\ view' = [view EXCEPT ![c][key] = room.world[key]]
      BY <1>1, <3>1 DEF Deliver
    <3>3. key \in World
      BY <1>3, <2>3 DEF Stored, World
    <3>4. view'[c] = [view[c] EXCEPT ![key] = room.world[key]]
      BY <3>2 DEF TypeOK
    <3>5. view[c] = [w \in World |->
                       IF w \in replay[c].sent \/ (pc[c] = "loots" /\ w \in Quests)
                       THEN room.world[w] ELSE 0]
      BY <2>3 DEF CopiesInv, JoinerCopy
    <3>6. view'[c] = [w \in World |->
                        IF w \in replay'[c].sent \/ (pc[c] = "loots" /\ w \in Quests)
                        THEN room.world[w] ELSE 0]
      BY <1>2, <3>3, <3>4, <3>5
    <3>7. QED
      BY <1>1, <2>1, <2>3, <3>2, <3>6 DEF CopiesInv, JoinerCopy
  <2>4. QED
    BY <1>1, <2>2, <2>3 DEF Phases
<1>8. QED
  BY <1>1, <1>4, <1>5, <1>7, NothingCast

\* A loop ends when everything stored was sent; after the last one the copy is
\* complete, and peer_joined changes nobody's.
LEMMA CopiesReplayEnd ==
  ASSUME Orderly, TypeOK, RoomInv, OrderlyInv, CopiesInv, NEW c \in Conns, ReplayEnd(c)
  PROVE  CopiesInv'
<1>1. /\ pc[c] \in Phases /\ Floor(c) /\ pc[c] # "cast"
      /\ UNCHANGED <<id, slot, room, view, avatars>>
  BY DEF ReplayEnd, Replaying, Floor, Busy, Phases, helloVars, dictVars, clientVars
<1>2. OthersKept(c)
  <2>1. CASE pc[c] = "loots"
    BY <1>1, <2>1 DEF ReplayEnd, StartCast, OthersKept, Members, TypeOK
  <2>2. CASE pc[c] # "loots"
    BY <1>1, <2>2 DEF ReplayEnd, OthersKept, Members, TypeOK
  <2>3. QED
    BY <2>1, <2>2
<1>3. replay[c].sent \subseteq Stored(pc[c]) /\ ToReplay(c) = {}
  BY <1>1 DEF CopiesInv, JoinerCopy, ReplayEnd
<1>4. CASE pc[c] = "players"
  <2>1. pc'[c] = "quests" /\ replay'[c].sent = {}
    <3>1. pc'[c] = "quests" /\ replay' = [replay EXCEPT ![c] = StartReplay("quests")]
      BY <1>4 DEF ReplayEnd, TypeOK
    <3>2. QED
      BY <1>1, <3>1, LoopStarts DEF Phases
  <2>2. view[c] = NoWorld /\ avatars[c] = room.players \ {id[c]}
    BY <1>3, <1>4 DEF CopiesInv, JoinerCopy, ToReplay, Stored
  <2>3. JoinerCopy(c)'
    BY <1>1, <2>1, <2>2 DEF JoinerCopy, NoWorld
  <2>4. QED
    BY <1>1, <1>2, <2>1, <2>3, NothingCast DEF Phases
<1>5. CASE pc[c] = "quests"
  <2>1. pc'[c] = "loots" /\ replay'[c].sent = {}
    <3>1. pc'[c] = "loots" /\ replay' = [replay EXCEPT ![c] = StartReplay("loots")]
      BY <1>5 DEF ReplayEnd, TypeOK
    <3>2. QED
      BY <1>1, <3>1, LoopStarts DEF Phases
  <2>2. view[c] = [w \in World |-> IF w \in replay[c].sent THEN room.world[w] ELSE 0]
        /\ avatars[c] = room.players \ {id[c]}
    BY <1>5 DEF CopiesInv, JoinerCopy
  <2>3. replay[c].sent = {q \in Quests : room.world[q] > 0}
    BY <1>3, <1>5 DEF ToReplay, Stored
  <2>4. \A w \in World : room.world[w] \in Nat
    BY DEF TypeOK, RoomState
  <2>5. view[c] = [w \in World |-> IF w \in Quests THEN room.world[w] ELSE 0]
    BY <2>2, <2>3, <2>4
  <2>6. JoinerCopy(c)'
    BY <1>1, <2>1, <2>2, <2>5 DEF JoinerCopy
  <2>7. QED
    BY <1>1, <1>2, <2>1, <2>6, NothingCast DEF Phases
<1>6. CASE pc[c] = "loots"
  <2>1. c \in Members
    BY <1>1, ReaderRegistered
  <2>2. view[c] = [w \in World |-> IF w \in replay[c].sent \/ w \in Quests
                                   THEN room.world[w] ELSE 0]
        /\ avatars[c] = room.players \ {id[c]}
    BY <1>6 DEF CopiesInv, JoinerCopy
  <2>3. replay[c].sent = {l \in Loots : room.world[l] > 0}
    BY <1>3, <1>6 DEF ToReplay, Stored
  <2>4. room.world \in [World -> Nat]
    BY DEF TypeOK, RoomState
  <2>5. view[c] = room.world
    BY <2>2, <2>3, <2>4 DEF World
  <2>6. Current(c)'
    BY <1>1, <2>2, <2>5 DEF Current
  <2>7. ASSUME NEW m, m.kind = "peer_joined", NEW d \in Members \ {c}, Current(d)
        PROVE  Awaits(d, m)'
    BY <1>1, <2>7 DEF Awaits, Current
  <2>8. ASSUME NEW m, m.kind = "peer_joined", StartCast(c, m, Cardinality(Members))
        PROVE  CopiesInv'
    <3>1. Members' = Members
      BY <1>1 DEF Members
    <3>2. \A d \in Members' \ {c} : id'[d] # id'[c]
      BY <1>1, <2>1, <3>1, MembersDiffer
    <3>3. QED
      BY <1>1, <1>2, <2>6, <2>7, <2>8, <3>1, <3>2, CastStarts
  <2>9. QED
    BY <1>6, <2>8 DEF ReplayEnd, About
<1>7. QED
  BY <1>1, <1>4, <1>5, <1>6 DEF Phases

\* A broadcast makes the copy of its next target current; the others wait on.
LEMMA CopiesCastNext ==
  ASSUME Orderly, TypeOK, OrderlyInv, CopiesInv, NEW c \in Conns, CastNext(c)
  PROVE  CopiesInv'
<1>0. /\ First(Targets(c)) \in Targets(c)
      /\ cast'[c].msg = cast[c].msg /\ cast'[c].at = slot[First(Targets(c))]
      /\ Deliver(First(Targets(c)), cast[c].msg)
  BY OrderlyCastNext
<1>1. /\ pc[c] = "cast" /\ Floor(c)
      /\ UNCHANGED <<pc, id, slot, room, replay>>
  BY DEF CastNext, Floor, Busy, helloVars, dictVars
<1>2. PICK t \in Targets(c) :
         /\ t = First(Targets(c))
         /\ cast'[c].msg = cast[c].msg /\ cast'[c].at = slot[t]
         /\ Deliver(t, cast[c].msg)
  BY <1>0
<1>3. cast'[c].msg = cast[c].msg /\ cast'[c].at = slot[t]
  BY <1>2
<1>4. Targets(c) \in SUBSET Conns /\ Targets(c) \subseteq Members /\ Members' = Members
  BY <1>1 DEF Targets, After, Members
<1>5. \A d \in Targets(c) : slot[t] <= slot[d]
  BY <1>2, <1>4, FirstIsForemost
<1>6. t \in Conns /\ t # c /\ t \in Members /\ Up(t) /\ pc[t] = "reading"
  <2>1. t \in Conns /\ t \in Members /\ t # c
    BY <1>2, <1>4 DEF Targets, Members
  <2>2. pc[t] \notin Busy /\ pc[t] \notin {"hello", "done"}
    BY <1>1, <2>1, Alone DEF Floor, OrderlyInv, Control
  <2>3. pc[t] = "reading" /\ Up(t)
    BY <2>1, <2>2, SendsSucceed DEF TypeOK, Busy
  <2>4. QED
    BY <2>1, <2>3
<1>7. Targets(c)' = Targets(c) \ {t}
  <2>1. Targets(c)' = {m \in Members : slot[m] > slot[t] /\ id[m] # id[c]}
    BY <1>1, <1>3, <1>4 DEF Targets, After
  <2>2. cast[c].at \in Nat /\ slot[t] \in Nat /\ \A d \in Members : slot[d] \in Nat
    BY <1>6 DEF TypeOK, Members
  <2>3. slot[t] > cast[c].at /\ id[t] # id[c]
    BY <1>2 DEF Targets, After
  <2>4. \A d \in Members : slot[d] = slot[t] => d = t
    BY <1>6 DEF OrderlyInv, Slots
  <2>5. ASSUME NEW d \in Members, slot[d] > slot[t], id[d] # id[c]
        PROVE  d \in Targets(c) \ {t}
    BY <2>2, <2>3, <2>5 DEF Targets, After
  <2>6. ASSUME NEW d \in Targets(c) \ {t}
        PROVE  d \in Members /\ slot[d] > slot[t] /\ id[d] # id[c]
    <3>1. d \in Members /\ slot[t] <= slot[d] /\ slot[d] # slot[t]
      BY <1>4, <1>5, <2>4, <2>6
    <3>2. QED
      BY <2>2, <2>6, <3>1 DEF Targets
  <2>7. QED
    BY <2>1, <2>5, <2>6
<1>8. \A e \in Conns \ {c} : pc[e] # "cast"
  BY <1>1, Alone DEF Floor, Busy
<1>9. \A d \in Conns : /\ Pending(d) = IF d \in Targets(c) THEN {c} ELSE {}
                       /\ Pending(d)' = IF d \in Targets(c) \ {t} THEN {c} ELSE {}
  BY <1>1, <1>7, <1>8 DEF Pending
<1>10. OthersKept(c)
  BY <1>1, <1>4 DEF OthersKept
<1>11. \A d \in Conns \ {t} : view'[d] = view[d] /\ avatars'[d] = avatars[d]
  BY <1>2 DEF Deliver, TypeOK
<1>12. MemberCopy(t)' /\ JoinerCopy(t)'
  <2>1. Awaits(t, cast[c].msg)
    BY <1>2, <1>6, <1>9 DEF CopiesInv, MemberCopy, Phases
  <2>2. view'[t] = room.world /\ avatars'[t] = room.players \ {id[t]}
    BY <1>2, <1>6, <2>1 DEF Deliver, Awaits, TypeOK
  <2>3. Pending(t)' = {}
    BY <1>6, <1>9
  <2>4. QED
    BY <1>1, <1>6, <2>2, <2>3 DEF MemberCopy, JoinerCopy, Current, Phases
<1>13. ASSUME NEW d \in Conns, d # t
       PROVE  MemberCopy(d)' /\ JoinerCopy(d)'
  <2>1. Pending(d)' = Pending(d) /\ Pending(d) \subseteq {c}
    BY <1>9, <1>13
  <2>2. JoinerCopy(d)'
    <3>1. CASE d = c
      BY <1>1, <3>1 DEF JoinerCopy, Phases
    <3>2. CASE d # c
      BY <1>1, <1>10, <1>11, <1>13, <3>2, OthersJoin
    <3>3. QED
      BY <3>1, <3>2
  <2>3. MemberCopy(d)'
    <3>1. view'[d] = view[d] /\ avatars'[d] = avatars[d]
      BY <1>11, <1>13
    <3>2. SUFFICES ASSUME d \in Members, pc[d] \notin {"welcome"} \cup Phases
                   PROVE  /\ Pending(d)' = {} => Current(d)'
                          /\ \A e \in Pending(d)' : Awaits(d, cast[e].msg)'
      BY <1>1, <1>4 DEF MemberCopy
    <3>3. Pending(d) = {} => Current(d)
      BY <3>2 DEF CopiesInv, MemberCopy
    <3>4. c \in Pending(d) => Awaits(d, cast[c].msg)
      BY <3>2 DEF CopiesInv, MemberCopy
    <3>5. c \in Pending(d) => Awaits(d, cast[c].msg)'
      BY <1>1, <1>3, <3>1, <3>4 DEF Awaits
    <3>6. Pending(d)' = {} => Current(d)'
      BY <1>1, <2>1, <3>1, <3>3 DEF Current
    <3>7. QED
      BY <2>1, <3>5, <3>6
  <2>4. QED
    BY <2>2, <2>3
<1>14. QED
  BY <1>12, <1>13 DEF CopiesInv

\* Nothing is pending at the end of a broadcast.
LEMMA CopiesCastEnd ==
  ASSUME Orderly, TypeOK, OrderlyInv, CopiesInv, NEW c \in Conns,
         CastEnd(c) \/ ReapEnd(c)
  PROVE  CopiesInv'
<1>1. /\ Floor(c) /\ pc[c] \in {"cast", "reap"} /\ (pc[c] = "cast" => Targets(c) = {})
      /\ UNCHANGED <<id, slot, room, replay>>
  BY DEF CastEnd, ReapEnd, Floor, Busy, helloVars, dictVars
<1>2. \/ pc' = [pc EXCEPT ![c] = "reap"] /\ UNCHANGED <<view, avatars>>
      \/ pc' = [pc EXCEPT ![c] = "reading"] /\ UNCHANGED <<view, avatars>>
      \/ /\ pc' = [pc EXCEPT ![c] = "done"] /\ c \notin Members
         /\ view' = [view EXCEPT ![c] = NoWorld] /\ avatars' = [avatars EXCEPT ![c] = {}]
  BY DEF CastEnd, ReapEnd, Finish, OrderlyInv, Control, Leaving, clientVars
<1>3. pc'[c] \in {"reap", "reading", "done"} /\ OthersKept(c)
      /\ \A d \in Conns \ {c} : view'[d] = view[d] /\ avatars'[d] = avatars[d]
  BY <1>1, <1>2 DEF OthersKept, Members, TypeOK
<1>4. JoinerCopy(c)'
  BY <1>3 DEF JoinerCopy, Phases
<1>5. Members' = Members
  BY <1>1 DEF Members
<1>6. ASSUME c \in Members
      PROVE  Current(c)'
  <2>1. Pending(c) = {}
    BY <1>1, NothingPending
  <2>2. Current(c)
    BY <1>1, <1>6, <2>1 DEF CopiesInv, MemberCopy, Phases
  <2>3. QED
    BY <1>1, <1>2, <1>6, <2>2 DEF Current
<1>7. QED
  BY <1>1, <1>3, <1>4, <1>5, <1>6, NothingCast

\* A departure is pending for everybody who remains.
LEMMA CopiesUnregister ==
  ASSUME Orderly, TypeOK, RoomInv, OrderlyInv, CopiesInv, NEW c \in Conns, Unregister(c)
  PROVE  CopiesInv'
<1>1. Floor(c) /\ pc[c] = "closing" /\ pc[c] # "cast"
  BY DEF Unregister, Floor, Busy
<1>2. c \in Members /\ Holder(c) = {c} /\ Members' = Members \ {c} /\ id' = id
      /\ replay' = replay
  <2>1. c \in Members /\ Holder(c) = {c} /\ Members' = Members \ {c} /\ id' = id
    BY <1>1, DepartsAlone, UnregisterEffect DEF Unregister
  <2>2. \A d \in Conns : pc[d] # "players"
    BY <1>1, Alone DEF Floor, Busy, Phases
  <2>3. Reopened(id[c]) = replay
    BY <2>2 DEF Reopened, TypeOK
  <2>4. QED
    BY <2>1, <2>3 DEF Unregister
<1>3. room'.world = room.world /\ room'.players = room.players \ {id[c]}
  BY DEF Unregister, TypeOK, RoomState
<1>4. CASE Members \ {c} = {}
  <2>1. Finish(c)
    BY <1>2, <1>4 DEF Unregister
  <2>2. /\ pc'[c] = "done" /\ OthersKept(c) /\ Members' = {}
        /\ \A d \in Conns \ {c} : view'[d] = view[d] /\ avatars'[d] = avatars[d]
    BY <1>2, <1>4, <2>1 DEF Finish, OthersKept, TypeOK
  <2>3. \A d \in Conns : MemberCopy(d)'
    BY <2>2 DEF MemberCopy
  <2>4. \A d \in Conns \ {c} : JoinerCopy(d)'
    BY <1>1, <2>2, OthersJoin
  <2>5. JoinerCopy(c)'
    BY <2>2 DEF JoinerCopy, Phases
  <2>6. QED
    BY <2>3, <2>4, <2>5 DEF CopiesInv
<1>5. CASE Members \ {c} # {}
  <2>1. StartCast(c, About("peer_left", id[c]), Cardinality(Members \ {c}))
        /\ UNCHANGED <<view, avatars>>
    BY <1>2, <1>5 DEF Unregister, clientVars
  <2>2. OthersKept(c)
    BY <1>2, <2>1 DEF OthersKept, StartCast, TypeOK
  <2>3. ASSUME NEW m, m.kind = "peer_left", m.about = id[c],
               NEW d \in Members \ {c}, Current(d)
        PROVE  Awaits(d, m)'
    BY <1>2, <1>3, <2>1, <2>3 DEF Awaits, Current
  <2>4. ASSUME NEW m, m.kind = "peer_left", m.about = id[c],
               NEW size, StartCast(c, m, size)
        PROVE  CopiesInv'
    <3>1. \A d \in Members' \ {c} : id'[d] # id'[c]
      BY <1>2, MembersDiffer
    <3>2. QED
      BY <1>1, <1>2, <2>1, <2>2, <2>3, <2>4, <3>1, CastStarts
  <2>5. QED
    BY <2>1, <2>4 DEF About
<1>6. QED
  BY <1>4, <1>5

\* A restart leaves nobody with a copy.
LEMMA CopiesRestart ==
  ASSUME Orderly, TypeOK, CopiesInv, Environment
  PROVE  CopiesInv'
<1>1. Crash /\ Members' = {}
  BY OnlyRestarts
<1>2. ASSUME NEW d \in Conns
      PROVE  JoinerCopy(d)' /\ MemberCopy(d)'
  <2>1. /\ pc'[d] \in {"hello", "done"} /\ view'[d] = NoWorld /\ avatars'[d] = {}
        /\ replay'[d].sent = {}
    BY <1>1 DEF Crash, NoReplay
  <2>2. QED
    BY <1>1, <2>1 DEF JoinerCopy, MemberCopy, Phases
<1>3. QED
  BY <1>2 DEF CopiesInv

\* Every step keeps every copy.
LEMMA CopiesStep ==
  ASSUME Orderly, TypeOK, RoomInv, OrderlyInv, CopiesInv, [Next]_vars
  PROVE  CopiesInv'
<1>1. ASSUME NEW c \in Conns, ClientStep(c)
      PROVE  CopiesInv'
  BY <1>1, CopiesPlayerState, CopiesWorldState, CopiesCombatEvent, CopiesComeAndGo
     DEF ClientStep
<1>2. ASSUME NEW c \in Conns, HandlerStep(c)
      PROVE  CopiesInv'
  BY <1>2, CopiesWelcomed, CopiesReplayNext, CopiesReplayEnd, CopiesCastNext,
     CopiesCastEnd, CopiesUnregister, CastsProceed, NoFailures DEF HandlerStep
<1>3. CASE UNCHANGED vars
  <2>1. UNCHANGED <<pc, cast, replay, id, slot, room, view, avatars>>
    BY <1>3 DEF vars, handlerVars, helloVars, dictVars, clientVars
  <2>2. Members' = Members /\ \A phase : Stored(phase)' = Stored(phase)
    BY <2>1 DEF Members, Stored
  <2>3. \A d \in Conns : Pending(d)' = Pending(d)
    BY <2>1, <2>2 DEF Pending, Targets, After
  <2>4. ASSUME NEW d \in Conns
        PROVE  JoinerCopy(d)'
    BY <2>1, <2>2 DEF CopiesInv, JoinerCopy
  <2>5. ASSUME NEW d \in Conns
        PROVE  MemberCopy(d)'
    BY <2>1, <2>2, <2>3 DEF CopiesInv, MemberCopy, Current, Awaits
  <2>6. QED
    BY <2>4, <2>5 DEF CopiesInv
<1>4. QED
  BY <1>1, <1>2, <1>3, CopiesRestart DEF Next

\* What is known of the copies holds throughout.
LEMMA CopiesInvariant == Orderly => (Spec => []CopiesInv)
<1> SUFFICES ASSUME Orderly
             PROVE  Spec => []CopiesInv
  OBVIOUS
<1>1. Init => CopiesInv
  BY DEF Init, CopiesInv, JoinerCopy, MemberCopy, Members, NoReplay, Phases
<1>2. TypeOK /\ RoomInv /\ OrderlyInv /\ CopiesInv /\ [Next]_vars => CopiesInv'
  BY CopiesStep
<1>3. QED
  BY <1>1, <1>2, TypeCorrect, RoomInvInvariant, OrderlyInvariant, PTL DEF Spec

\* Replay and broadcast together leave nobody behind: once nothing is under
\* way every registered client holds the room's world and its peers' states,
\* whenever it joined and whatever was stored while it did.
THEOREM CopiesConverge == Orderly => (Spec => []Converged)
<1> SUFFICES ASSUME Orderly
             PROVE  Spec => []Converged
  OBVIOUS
<1>1. OrderlyInv /\ CopiesInv => Converged
  <2> SUFFICES ASSUME OrderlyInv, CopiesInv, Quiet, NEW c \in Conns, c \in Members
               PROVE  Current(c)
    BY DEF Converged, Current, Members
  <2>1. pc[c] = "reading" /\ Pending(c) = {}
    BY DEF Quiet, Pending, OrderlyInv, Control
  <2>2. QED
    BY <2>1 DEF CopiesInv, MemberCopy, Phases
<1>2. QED
  BY <1>1, OrderlyInvariant, CopiesInvariant, PTL

=============================================================================
