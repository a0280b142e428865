------------------------------- MODULE Relay -------------------------------
(***************************************************************************)
(* The asyncio relay of server/relay_server.py: one room, the connection   *)
(* handlers that share it, and the file the room is saved to.              *)
(*                                                                         *)
(* asyncio runs one handler at a time, and a handler gives the processor   *)
(* up only inside an await that really suspends.  The variable cpu names   *)
(* the handler that is between two such awaits; while it is set no other   *)
(* handler moves.  Every send is writer.write followed by await            *)
(* writer.drain(); drain returns at once while the transport's buffer is   *)
(* below its high-water mark, so a send to a peer that keeps up holds the  *)
(* processor.  A send to a peer in Slow may suspend, and so may one to a   *)
(* transport that is closing (drain then yields once and raises).          *)
(***************************************************************************)
EXTENDS Integers, FiniteSets, Sequences

CONSTANTS
  Conns,         \* TCP connections; each is accepted once
  NoConn,        \* no connection
  Ids,           \* player ids a hello may carry
  NoId,          \* Python's None for host_session_id, "" for host_player_id
  Quests,        \* quest ids
  Loots,         \* loot ids
  Slow,          \* connections whose write buffer can fill up
  RoomCapacity,  \* config room_capacity
  HostPlayerId,  \* config host_player_id, NoId when empty
  RequireHost,   \* config require_host_for_world_state
  Kinds,         \* bound: kinds of message the clients send
  MaxVersion,    \* bound: updates of one quest or loot entry
  MaxLosses,     \* bound: links that break
  MaxCrashes     \* bound: restarts of the relay

ASSUME RelayAssumption ==
  /\ IsFiniteSet(Conns) /\ IsFiniteSet(Ids)
  /\ IsFiniteSet(Quests) /\ IsFiniteSet(Loots)
  /\ NoConn \notin Conns
  /\ NoId \notin Ids
  /\ Slow \subseteq Conns
  /\ RoomCapacity \in Nat
  /\ HostPlayerId \in Ids \cup {NoId}
  /\ RequireHost \in BOOLEAN
  /\ Kinds \subseteq {"player_state", "world_state", "combat_event"}
  /\ MaxVersion \in Nat
  /\ MaxLosses \in Nat
  /\ MaxCrashes \in Nat

VARIABLES
  pc,        \* where each handler is
  cpu,       \* the handler between two suspending awaits, or NoConn
  link,      \* the transport of each connection
  id,        \* session_id, from the hello
  claims,    \* the hello carried role = "host"
  isHost,    \* ClientSession.is_host
  slot,      \* position in the dict self.rooms[room]; 0 when not in it
  nextSlot,  \* the next insertion position of that dict
  epoch,     \* which dict object self.rooms[room] is
  cast,      \* the frame of each handler's _broadcast
  replay,    \* the frame of each handler's _sync_room_state_to_client
  room,      \* RoomState in memory
  disk,      \* the saved RoomState
  view,      \* last version of each world entry the client was sent
  avatars,   \* peers whose player_state the client holds
  losses,    \* links broken so far
  crashes,   \* restarts so far
  cut        \* since the start a broadcast raised or removed a session (history)

handlerVars == <<pc, cpu, cast, replay>>
dictVars    == <<slot, nextSlot, epoch>>
helloVars   == <<id, claims>>
clientVars  == <<view, avatars>>
envVars     == <<losses, crashes, cut>>
vars == <<handlerVars, link, helloVars, isHost, dictVars, room, disk,
          clientVars, envVars>>

-----------------------------------------------------------------------------
(* Messages, frames and the room's state.                                  *)

World == Quests \cup Loots

\* What a broadcast carries, as far as a receiver's state depends on it.
Message ==
  [kind : {"peer_joined", "peer_left", "player_state", "combat_event", "other"},
   about : Ids \cup {NoId}, version : {0}]
  \cup [kind : {"world_state"}, about : World, version : 0..MaxVersion]

About(kind, i) == [kind |-> kind, about |-> i, version |-> 0]

Phases == {"players", "quests", "loots"}

RoomState == [host : Ids \cup {NoId}, players : SUBSET (Ids \cup {NoId}),
              world : [World -> 0..MaxVersion]]

NoWorld == [w \in World |-> 0]

EmptyRoom == [host |-> NoId, players |-> {}, world |-> NoWorld]

\* The sessions in self.rooms[room], and their ids.
Members == {c \in Conns : slot[c] > 0}

IdsOf(S) == {id[c] : c \in S}

\* The dict's entries that an iterator at position n has still to visit.
After(n) == {c \in Members : slot[c] > n}

First(S) == CHOOSE c \in S : \A d \in S : slot[c] <= slot[d]

\* Slips that the runs' properties are tested against carry a name ending in
\* _slip and stand before the definition they would replace.

\* No loot_state in the replay.
Stored_slip(phase) ==
  CASE phase = "players" -> room.players
    [] phase = "quests"  -> {q \in Quests : room.world[q] > 0}
    [] phase = "loots"   -> {}

\* The keys of the three dicts replayed to a joiner.
Stored(phase) ==
  CASE phase = "players" -> room.players
    [] phase = "quests"  -> {q \in Quests : room.world[q] > 0}
    [] phase = "loots"   -> {l \in Loots : room.world[l] > 0}

\* An iterator of a dict remembers how many entries the dict had ("size") and how
\* many it has yet to yield ("left"); of a broadcast's also the place is kept, of
\* a replay's the entries visited.
NoCast == [msg |-> About("other", NoId), at |-> 0, size |-> 0, left |-> 0,
           epoch |-> 0, target |-> NoConn, dead |-> {}]

StartReplay(phase) == [size |-> Cardinality(Stored(phase)),
                       left |-> Cardinality(Stored(phase)), sent |-> {}]

NoReplay == [size |-> 0, left |-> 0, sent |-> {}]

-----------------------------------------------------------------------------
(* Scheduling, sending and the ways a handler moves on.                    *)

\* Handler c may run: it holds the processor, or nobody does.
Runs(c) == cpu \in {c, NoConn}

Up(c) == link[c] = "up"

\* After handler c wrote to t: drain returns at once, or suspends c.
AfterSend(c, t) == IF t \in Slow \/ ~Up(t) THEN {c, NoConn} ELSE {c}

\* How the drain that follows a write to t can end.  A broken link raises the
\* transport's own exception to whoever is suspended on it or writes later, and
\* ConnectionResetError to whoever discovers it; only subclasses of
\* ConnectionError make the peer "dead", any other OSError is an "error".
DrainOutcome(t) ==
  IF t = NoConn THEN {"ok"}
  ELSE [up |-> {"ok"}, closed |-> {"ok", "dead"}, reset |-> {"dead"},
        timedout |-> {"dead", "error"}][link[t]]

\* What the client behind t holds once it was sent m.
Deliver(t, m) ==
  /\ view' = IF m.kind = "world_state" /\ Up(t)
             THEN [view EXCEPT ![t][m.about] = m.version] ELSE view
  /\ avatars' = CASE m.kind = "player_state" /\ Up(t) ->
                       [avatars EXCEPT ![t] = @ \cup {m.about}]
                  [] m.kind = "peer_left" /\ Up(t) ->
                       [avatars EXCEPT ![t] = @ \ {m.about}]
                  [] OTHER -> avatars

\* Entering _broadcast: the iterator remembers the dict and its size.
StartCast(c, m, size) ==
  /\ pc' = [pc EXCEPT ![c] = "cast"]
  /\ cast' = [cast EXCEPT ![c] = [msg |-> m, at |-> 0, size |-> size, left |-> size,
                                  epoch |-> epoch, target |-> NoConn, dead |-> {}]]
  /\ cpu' = c

\* The handler returns; its transport is closed, and the client's copy is gone.
Finish(c) ==
  /\ pc' = [pc EXCEPT ![c] = "done"]
  /\ link' = [link EXCEPT ![c] = IF @ = "up" THEN "closed" ELSE @]
  /\ cpu' = NoConn
  /\ view' = [view EXCEPT ![c] = NoWorld]
  /\ avatars' = [avatars EXCEPT ![c] = {}]

\* An exception leaves the try block, and its finally clause is next; one
\* raised inside the finally clause, by the peer_left broadcast, ends the task.
Raise(c) ==
  /\ IF cast[c].msg.kind = "peer_left"
     THEN Finish(c)
     ELSE /\ pc' = [pc EXCEPT ![c] = "closing"]
          /\ cpu' = c
          /\ UNCHANGED <<link, clientVars>>
  /\ cast' = [cast EXCEPT ![c] = NoCast]
  /\ replay' = [replay EXCEPT ![c] = NoReplay]

\* The file is written before the update is stored.
Save_slip == disk' = room

\* _save_room_state, called with the state the same step leaves in memory.
Save == disk' = room'

-----------------------------------------------------------------------------
(* A connection from its hello to the read loop.                           *)

\* Off by one in the comparison with room_capacity.
HasPlace_slip == Cardinality(Members) <= RoomCapacity

HasPlace == Cardinality(Members) < RoomCapacity

\* _register_client raises ValueError (token, version, capacity, duplicate
\* id), or no hello arrives: there is no session to unregister.
Reject(c) ==
  /\ cpu = NoConn
  /\ pc[c] = "hello"
  /\ Finish(c)
  /\ UNCHANGED <<cast, replay, helloVars, isHost, dictVars, room, disk,
                 envVars>>

\* _register_client accepts the hello of player i; welcome is sent.
Register(c, i, claimed) ==
  /\ cpu = NoConn
  /\ pc[c] = "hello"
  /\ HasPlace
  /\ i \notin IdsOf(Members)
  /\ id' = [id EXCEPT ![c] = i]
  /\ claims' = [claims EXCEPT ![c] = claimed]
  /\ room' = IF i = HostPlayerId \/ (room.host = NoId /\ claimed)
             THEN [room EXCEPT !.host = i] ELSE room
  /\ isHost' = [isHost EXCEPT ![c] = room'.host = i]
  /\ slot' = [slot EXCEPT ![c] = nextSlot]
  /\ nextSlot' = nextSlot + 1
  /\ Save
  /\ pc' = [pc EXCEPT ![c] = "welcome"]
  /\ cpu' \in AfterSend(c, c)
  /\ UNCHANGED <<link, cast, replay, epoch, clientVars, envVars>>

\* The drain of welcome ended; the replay enters its first loop.
Welcomed(c) ==
  /\ Runs(c)
  /\ pc[c] = "welcome"
  /\ \/ /\ "ok" \in DrainOutcome(c)
        /\ pc' = [pc EXCEPT ![c] = "players"]
        /\ replay' = [replay EXCEPT ![c] = StartReplay("players")]
        /\ cpu' = c
        /\ UNCHANGED <<cast, link, clientVars>>
     \/ /\ DrainOutcome(c) # {"ok"}
        /\ Raise(c)
  /\ UNCHANGED <<helloVars, isHost, dictVars, room, disk, envVars>>

\* What the current loop has still to visit, the joiner's own player_state included.
ToReplay(c) == Stored(pc[c]) \ replay[c].sent

\* The iterator notices another size of the dict, and an entry to visit after as
\* many as there were at the start (an entry visited has gone and one has come).
Intact(c) ==
  /\ Cardinality(Stored(pc[c])) = replay[c].size
  /\ ToReplay(c) # {} => replay[c].left > 0

\* The drain of the last replayed message raised, or the dict changed while c was
\* suspended (RuntimeError).
ReplayFails(c) ==
  /\ Runs(c)
  /\ pc[c] \in Phases
  /\ DrainOutcome(c) # {"ok"} \/ ~Intact(c)
  /\ Raise(c)
  /\ UNCHANGED <<helloVars, isHost, dictVars, room, disk, envVars>>

Replaying(c) ==
  /\ Runs(c)
  /\ pc[c] \in Phases
  /\ "ok" \in DrainOutcome(c)
  /\ Intact(c)

\* One iteration of a replay loop: the message stored now is sent, but the
\* joiner's own player_state is not.
ReplayNext(c, key) ==
  /\ Replaying(c)
  /\ key \in ToReplay(c)
  /\ replay' = [replay EXCEPT ![c].left = @ - 1, ![c].sent = @ \cup {key}]
  /\ IF pc[c] = "players" /\ key = id[c]
     THEN cpu' = c /\ UNCHANGED clientVars
     ELSE /\ Deliver(c, IF pc[c] = "players" THEN About("player_state", key)
                        ELSE [kind |-> "world_state", about |-> key,
                              version |-> room.world[key]])
          /\ cpu' \in AfterSend(c, c)
  /\ UNCHANGED <<pc, cast, link, helloVars, isHost, dictVars, room, disk, envVars>>

\* A replay loop ends: the next one begins, or peer_joined is broadcast.
ReplayEnd(c) ==
  /\ Replaying(c)
  /\ ToReplay(c) = {}
  /\ IF pc[c] = "loots"
     THEN /\ StartCast(c, About("peer_joined", id[c]), Cardinality(Members))
          /\ replay' = [replay EXCEPT ![c] = NoReplay]
     ELSE LET next == IF pc[c] = "players" THEN "quests" ELSE "loots" IN
          /\ pc' = [pc EXCEPT ![c] = next]
          /\ replay' = [replay EXCEPT ![c] = StartReplay(next)]
          /\ cpu' = c
          /\ UNCHANGED cast
  /\ UNCHANGED <<link, helloVars, isHost, dictVars, room, disk, clientVars, envVars>>

-----------------------------------------------------------------------------
(* _broadcast.  A step first learns how the drain of the previous send     *)
(* ended, then asks the dict's iterator for the next entry.                *)

\* A peer whose drain raised a ConnectionError is dead.
DeadAfter(c, outcome) ==
  cast[c].dead \cup (IF outcome = "dead" THEN {id[cast[c].target]} ELSE {})

\* The first peer is skipped.
Targets_slip(c) == {m \in After(cast[c].at + 1) : id[m] # id[c]}

\* Who is still replayed to is left out.
Targets_replay_slip(c) == {m \in After(cast[c].at) : id[m] # id[c] /\ pc[m] \notin Phases}

\* The peers this broadcast has still to reach; exclude is by session id.
Targets(c) == {m \in After(cast[c].at) : id[m] # id[c]}

\* What the iterator yields next: the sender's own entry, if it comes before the
\* next peer or is all that is left, and that peer.
Passed(c) == {m \in After(cast[c].at) : \A t \in Targets(c) : slot[m] <= slot[t]}

\* The iterator goes on: its dict is the same and as large as at the start, and it
\* does not yield more entries than there were then.
Iterates(c) ==
  /\ cast[c].epoch = epoch
  /\ cast[c].size = Cardinality(Members)
  /\ Cardinality(Passed(c)) <= cast[c].left

\* RuntimeError of the iterator, or an OSError other than ConnectionError.
CastFails(c) ==
  /\ Runs(c)
  /\ pc[c] = "cast"
  /\ \/ "error" \in DrainOutcome(cast[c].target)
     \/ ~Iterates(c)
  /\ Raise(c)
  /\ cut' = TRUE
  /\ UNCHANGED <<helloVars, isHost, dictVars, room, disk, losses, crashes>>

\* One iteration: the message is written to the next peer of the dict.
CastNext(c) ==
  /\ Runs(c)
  /\ pc[c] = "cast"
  /\ Iterates(c)
  /\ Targets(c) # {}
  /\ \E outcome \in DrainOutcome(cast[c].target) \ {"error"} :
       LET t == First(Targets(c)) IN
       /\ cast' = [cast EXCEPT ![c].at = slot[t], ![c].target = t,
                               ![c].left = @ - Cardinality(Passed(c)),
                               ![c].dead = DeadAfter(c, outcome)]
       /\ Deliver(t, cast[c].msg)
       /\ cpu' \in AfterSend(c, t)
  /\ UNCHANGED <<pc, replay, link, helloVars, isHost, dictVars, room, disk, envVars>>

\* The loop is over; the sessions found dead are removed next.
CastEnd(c) ==
  /\ Runs(c)
  /\ pc[c] = "cast"
  /\ Iterates(c)
  /\ Targets(c) = {}
  /\ \E outcome \in DrainOutcome(cast[c].target) \ {"error"} :
       cast' = [cast EXCEPT ![c].target = NoConn, ![c].dead = DeadAfter(c, outcome)]
  /\ pc' = [pc EXCEPT ![c] = "reap"]
  /\ cpu' = c
  /\ UNCHANGED <<replay, link, helloVars, isHost, dictVars, room, disk, clientVars, envVars>>

\* clients.pop(session_id) finds whoever holds a dead id by now.
Stale(c, i) == {m \in Members : id[m] = i /\ cast[c].epoch = epoch}

\* It is removed without _unregister_client, and its transport closed.
Reap(c, i) ==
  /\ Runs(c)
  /\ pc[c] = "reap"
  /\ i \in cast[c].dead
  /\ \A m \in Stale(c, i) : link[m] # "timedout"
  /\ cast' = [cast EXCEPT ![c].dead = @ \ {i}]
  /\ slot' = [m \in Conns |-> IF m \in Stale(c, i) THEN 0 ELSE slot[m]]
  /\ link' = [m \in Conns |-> IF m \in Stale(c, i) /\ Up(m) THEN "closed" ELSE link[m]]
  /\ cpu' \in IF \E m \in Stale(c, i) : Up(m) THEN {c, NoConn} ELSE {c}
  /\ cut' = (cut \/ Stale(c, i) # {})
  /\ UNCHANGED <<pc, replay, nextSlot, epoch, helloVars, isHost, room, disk,
                 clientVars, losses, crashes>>

\* wait_closed raises what has broken the transport; if that is no ConnectionError
\* it escapes from _broadcast, and nobody else is removed.
ReapFails(c, i) ==
  /\ Runs(c)
  /\ pc[c] = "reap"
  /\ i \in cast[c].dead
  /\ \E m \in Stale(c, i) : link[m] = "timedout"
  /\ slot' = [m \in Conns |-> IF m \in Stale(c, i) THEN 0 ELSE slot[m]]
  /\ Raise(c)
  /\ cut' = TRUE
  /\ UNCHANGED <<nextSlot, epoch, helloVars, isHost, room, disk, losses, crashes>>

\* _broadcast returns: to the read loop, or out of the finally clause.
ReapEnd(c) ==
  /\ Runs(c)
  /\ pc[c] = "reap"
  /\ cast[c].dead = {}
  /\ IF cast[c].msg.kind = "peer_left"
     THEN Finish(c)
     ELSE /\ pc' = [pc EXCEPT ![c] = "reading"]
          /\ cpu' = NoConn
          /\ UNCHANGED <<link, clientVars>>
  /\ cast' = [cast EXCEPT ![c] = NoCast]
  /\ UNCHANGED <<replay, helloVars, isHost, dictVars, room, disk, envVars>>

-----------------------------------------------------------------------------
(* The read loop: validate, store, save, broadcast.                        *)

\* A line can still be read: the transport is up, or it was closed by the
\* relay with lines left in the reader's buffer.
Reads(c, kind) ==
  /\ kind \in Kinds
  /\ cpu = NoConn
  /\ pc[c] = "reading"
  /\ link[c] \in {"up", "closed"}

\* The role in the hello is trusted instead of the flag of the session.
MayWriteWorld_slip(c) == claims[c] \/ ~RequireHost

MayWriteWorld(c) == isHost[c] \/ ~RequireHost

RelayMessage(c, m) ==
  /\ Save
  /\ StartCast(c, m, Cardinality(Members))
  /\ UNCHANGED <<replay, link, helloVars, isHost, dictVars, avatars, envVars>>

PlayerState(c) ==
  /\ Reads(c, "player_state")
  /\ room' = [room EXCEPT !.players = @ \cup {id[c]}]
  /\ RelayMessage(c, About("player_state", id[c]))
  /\ UNCHANGED view

\* quest_state or loot_state for entry w; the sender holds what it sent.
WorldState(c, w) ==
  /\ Reads(c, "world_state")
  /\ MayWriteWorld(c)
  /\ room.world[w] < MaxVersion
  /\ room' = [room EXCEPT !.world[w] = @ + 1]
  /\ RelayMessage(c, [kind |-> "world_state", about |-> w,
                      version |-> room.world[w] + 1])
  /\ view' = [view EXCEPT ![c][w] = room.world[w] + 1]

\* combat_event; authoritative when of a listed kind or with damage.
CombatEvent(c, authoritative) ==
  /\ Reads(c, "combat_event")
  /\ authoritative => MayWriteWorld(c)
  /\ UNCHANGED <<room, view>>
  /\ RelayMessage(c, About(IF authoritative THEN "combat_event" ELSE "other", id[c]))

\* End of file, a broken link, or a line that is no protocol message.
ReadFails(c) ==
  /\ cpu = NoConn
  /\ pc[c] = "reading"
  /\ Raise(c)
  /\ UNCHANGED <<helloVars, isHost, dictVars, room, disk, envVars>>

-----------------------------------------------------------------------------
(* _unregister_client, from the finally clause.                            *)

\* The session object instead of its id.
NextHost_type_slip(remaining) ==
  LET hosts == {m \in remaining : claims[m]} IN
  IF HostPlayerId \in IdsOf(remaining) THEN HostPlayerId
  ELSE IF hosts # {} THEN First(hosts) ELSE NoId

\* Whoever comes first, whether it asked to lead or not.
NextHost_any_slip(remaining) ==
  IF HostPlayerId \in IdsOf(remaining) THEN HostPlayerId
  ELSE IF remaining # {} THEN id[First(remaining)] ELSE NoId

\* _choose_next_host over the sessions that remain, in the dict's order.
NextHost(remaining) ==
  LET hosts == {m \in remaining : claims[m]} IN
  IF HostPlayerId \in IdsOf(remaining) THEN HostPlayerId
  ELSE IF hosts # {} THEN id[First(hosts)] ELSE NoId

\* The loop over the remaining sessions is forgotten.
HandOver_slip(remaining, host) == isHost

\* The flags after a handover: only the new host's session is marked.
HandOver(remaining, host) ==
  [m \in Conns |-> IF m \in remaining THEN id[m] = host ELSE isHost[m]]

\* Nothing is popped for a transport that is already broken.
Holder_slip(c) == {m \in Members : id[m] = id[c] /\ Up(m)}

\* room_clients.pop(session_id) finds whoever holds c's id in the room.
Holder(c) == {m \in Members : id[m] = id[c]}

UnregisterNobody(c) ==
  /\ Runs(c)
  /\ pc[c] = "closing"
  /\ Holder(c) = {}
  /\ Finish(c)
  /\ UNCHANGED <<cast, replay, helloVars, isHost, dictVars, room, disk,
                 envVars>>

\* A player_state that is popped and stored again is a new entry to the replays.
Reopened(i) ==
  [m \in Conns |-> [replay[m] EXCEPT !.sent = IF pc[m] = "players" THEN @ \ {i} ELSE @]]

Unregister(c) ==
  LET remaining == Members \ Holder(c)
      leaderLeft == room.host = id[c]
  IN
  /\ Runs(c)
  /\ pc[c] = "closing"
  /\ Holder(c) # {}
  /\ slot' = [m \in Conns |-> IF m \in Holder(c) THEN 0 ELSE slot[m]]
  /\ room' = [room EXCEPT !.players = @ \ {id[c]},
                          !.host = IF leaderLeft THEN NextHost(remaining) ELSE @]
  /\ isHost' = IF leaderLeft THEN HandOver(remaining, room'.host) ELSE isHost
  /\ Save
  /\ IF remaining = {}
     THEN /\ epoch' = epoch + 1     \* self.rooms.pop(room)
          /\ Finish(c)
          /\ UNCHANGED cast
     ELSE /\ StartCast(c, About("peer_left", id[c]), Cardinality(remaining))
          /\ UNCHANGED <<epoch, link, clientVars>>
  /\ replay' = Reopened(id[c])
  /\ UNCHANGED <<nextSlot, helloVars, envVars>>

-----------------------------------------------------------------------------
(* The network and the process.                                            *)

\* The transport of c breaks, with a ConnectionError or with another OSError.
LoseLink(c, how) ==
  /\ cpu = NoConn
  /\ losses < MaxLosses
  /\ Up(c)
  /\ pc[c] \notin {"hello", "done"}
  /\ link' = [link EXCEPT ![c] = how]
  /\ losses' = losses + 1
  /\ UNCHANGED <<handlerVars, helloVars, isHost, dictVars, room, disk,
                 clientVars, crashes, cut>>

\* The process dies and a new one loads the saved rooms.
Crash ==
  /\ crashes < MaxCrashes
  /\ crashes' = crashes + 1
  /\ cut' = FALSE
  /\ pc' = [c \in Conns |-> IF pc[c] = "hello" THEN "hello" ELSE "done"]
  /\ link' = [c \in Conns |-> IF pc[c] = "hello" THEN link[c] ELSE "closed"]
  /\ cpu' = NoConn
  /\ cast' = [c \in Conns |-> NoCast]
  /\ replay' = [c \in Conns |-> NoReplay]
  /\ slot' = [c \in Conns |-> 0]
  /\ epoch' = epoch + 1
  /\ room' = disk
  /\ view' = [c \in Conns |-> NoWorld]
  /\ avatars' = [c \in Conns |-> {}]
  /\ UNCHANGED <<nextSlot, helloVars, isHost, disk, losses>>

-----------------------------------------------------------------------------
(* The relay as a whole.                                                   *)

Init ==
  /\ pc = [c \in Conns |-> "hello"]
  /\ cpu = NoConn
  /\ link = [c \in Conns |-> "up"]
  /\ id = [c \in Conns |-> NoId]
  /\ claims = [c \in Conns |-> FALSE]
  /\ isHost = [c \in Conns |-> FALSE]
  /\ slot = [c \in Conns |-> 0]
  /\ nextSlot = 1
  /\ epoch = 0
  /\ cast = [c \in Conns |-> NoCast]
  /\ replay = [c \in Conns |-> NoReplay]
  /\ room = EmptyRoom
  /\ disk = EmptyRoom
  /\ view = [c \in Conns |-> NoWorld]
  /\ avatars = [c \in Conns |-> {}]
  /\ losses = 0
  /\ crashes = 0
  /\ cut = FALSE

\* What a client decides: to say hello, to send, to leave.
ClientStep(c) ==
  \/ Reject(c)
  \/ \E i \in Ids, claimed \in BOOLEAN : Register(c, i, claimed)
  \/ PlayerState(c)
  \/ \E w \in World : WorldState(c, w)
  \/ \E authoritative \in BOOLEAN : CombatEvent(c, authoritative)
  \/ ReadFails(c)

\* What the handler does by itself once it has something to do.
HandlerStep(c) ==
  \/ Welcomed(c)
  \/ ReplayFails(c)
  \/ \E key \in Ids \cup World : ReplayNext(c, key)
  \/ ReplayEnd(c)
  \/ CastFails(c)
  \/ CastNext(c)
  \/ CastEnd(c)
  \/ \E i \in Ids : Reap(c, i) \/ ReapFails(c, i)
  \/ ReapEnd(c)
  \/ UnregisterNobody(c)
  \/ Unregister(c)

Environment ==
  \/ \E c \in Conns, how \in {"reset", "timedout"} : LoseLink(c, how)
  \/ Crash

Next ==
  \/ \E c \in Conns : ClientStep(c) \/ HandlerStep(c)
  \/ Environment

Spec == Init /\ [][Next]_vars

-----------------------------------------------------------------------------
(* Fairness.  The event loop's ready queue is first in, first out, so a    *)
(* handler that is time and again able to go on does go on; strong         *)
(* fairness, because others hold the processor in between.  A transport    *)
(* that breaks or is closed feeds end of file to its reader, so a handler  *)
(* that reads from it does see the failure.  For a peer in Slow this also  *)
(* says that its buffer drains some day: no timeout in the code sees to    *)
(* that, so liveness is asked only of instances where Slow is empty.       *)
(* Nothing is assumed of what clients send, nor that links break or the    *)
(* relay restarts.                                                         *)
FairSpec ==
  /\ Spec
  /\ \A c \in Conns : /\ SF_vars(HandlerStep(c))
                      /\ SF_vars(~Up(c) /\ ReadFails(c))

-----------------------------------------------------------------------------
(* Properties.                                                             *)

\* The types of the variables.
TypeOK ==
  /\ pc \in [Conns -> {"hello", "welcome", "cast", "reap", "reading",
                       "closing", "done"} \cup Phases]
  /\ cpu \in Conns \cup {NoConn}
  /\ link \in [Conns -> {"up", "closed", "reset", "timedout"}]
  /\ id \in [Conns -> Ids \cup {NoId}]
  /\ claims \in [Conns -> BOOLEAN]
  /\ isHost \in [Conns -> BOOLEAN]
  /\ slot \in [Conns -> Nat]
  /\ nextSlot \in Nat \ {0}
  /\ epoch \in Nat
  /\ cast \in [Conns -> [msg : Message, at : Nat, size : Nat, left : Nat, epoch : Nat,
                         target : Conns \cup {NoConn}, dead : SUBSET (Ids \cup {NoId})]]
  /\ replay \in [Conns -> [size : Nat, left : Nat, sent : SUBSET (Ids \cup World \cup {NoId})]]
  /\ room \in RoomState
  /\ disk \in RoomState
  /\ view \in [Conns -> [World -> 0..MaxVersion]]
  /\ avatars \in [Conns -> SUBSET (Ids \cup {NoId})]
  /\ losses \in Nat
  /\ crashes \in Nat
  /\ cut \in BOOLEAN

\* No handler is under way, and none is about to find its link broken.
Quiet ==
  \A c \in Conns : \/ pc[c] \in {"hello", "done"}
                   \/ pc[c] = "reading" /\ Up(c)

\* The room never holds more sessions than it has places, and never two with
\* one id: the checks of _register_client and the insertion are one step.
RoomBounded ==
  /\ Cardinality(Members) <= RoomCapacity
  /\ \A c, d \in Members : id[c] = id[d] => c = d

\* Whatever step the process dies after, the file holds the room as the relay
\* last had it in memory: no update is broadcast that a restart forgets.
DiskCurrent == disk = room

\* A registered session is marked as host exactly when host_session_id names
\* it: the flag that _validate_client_message trusts agrees with the room.
HostFlag == \A c \in Members : isHost[c] <=> id[c] = room.host

\* The session that host_session_id names is never refused, whoever was
\* configured and whatever failed: it is marked as host.
HostMarked == \A c \in Members : id[c] = room.host => isHost[c]

\* A session stays in the room only as long as its handler lives, which takes
\* it out at the end: no way out of a handler leaves its session behind, not
\* even when other sessions come and go under the same id.  (Saves succeed here.)
NoOrphans == \A c \in Members : pc[c] \notin {"hello", "done"}

\* At most one registered session may write the world.
OneWriter == \A c, d \in Members : isHost[c] /\ isHost[d] => c = d

\* While a world update or authoritative combat event is being relayed, its
\* sender is still registered and still the room's host: no second writer was
\* elected behind its back.
RelayedByHost ==
  \A c \in Conns :
    pc[c] = "cast" /\ cast[c].msg.kind \in {"world_state", "combat_event"}
      => c \in Members /\ id[c] = room.host

\* Once no handler is under way, every registered client holds exactly the
\* room's world and the player states of its peers, whenever it joined and
\* whatever it received by replay or by broadcast.
Converged ==
  Quiet => \A c \in Members : /\ view[c] = room.world
                              /\ avatars[c] = room.players \ {id[c]}

\* Also where sends to a stalled peer suspend replays and broadcasts, and others
\* join, leave and write in between, a registered client lags behind the room only
\* once a broadcast has been cut short by an exception or has removed somebody:
\* what is stored while a joiner is replayed to reaches it.  (No host configured.)
CurrentUnlessCut == Quiet /\ ~cut => \A c \in Members : view[c] = room.world

\* A client is not left holding a peer that is gone.
NoGhostAvatars == Quiet => \A c \in Members : avatars[c] \subseteq IdsOf(Members)

\* A connection that broke leaves the room.
BrokenLinkLeaves ==
  \A c \in Conns : c \in Members /\ ~Up(c) ~> c \notin Members

\* Every stored world update reaches every registered client, as long as no
\* link has broken.
Delivered ==
  \A w \in World, v \in 1..MaxVersion :
    room.world[w] >= v ~> losses > 0 \/ \A c \in Members : view[c][w] >= v

Promise == INSTANCE SharedRoom WITH
  present   <- IdsOf(Members),
  claimants <- IdsOf({c \in Members : claims[c]}),
  host      <- room.host,
  players   <- room.players,
  world     <- room.world

\* The relay implements the promise of SharedRoom.
KeepsPromise == Promise!Spec

\* The connections with a session whose handler runs.
Served == {c \in Conns : pc[c] \notin {"hello", "done"}}

Durable == INSTANCE DurableRoom WITH
  served    <- IdsOf(Served),
  present   <- IdsOf(Members),
  claimants <- IdsOf({c \in Members : claims[c]}),
  writers   <- IdsOf({c \in Served : isHost[c]}),
  host      <- room.host,
  players   <- room.players,
  world     <- room.world

\* Whatever breaks, stalls or restarts, the relay implements DurableRoom.
SurvivesFaults == Durable!Spec

=============================================================================
