----------------------------- MODULE RoomStore ------------------------------
(***************************************************************************)
(* What server/relay_server.py keeps of its rooms from one run of the      *)
(* process to the next: several rooms, each in memory and in a file of     *)
(* state_root, through crashes and orderly stops.                          *)
(*                                                                         *)
(* A handler changes a room and calls _save_room_state without an await in *)
(* between, and write_text truncates the file before it writes: a step is  *)
(* the change with the truncation, or the writing.  Nobody sees the change *)
(* before the file is cut, so a crash in between is one before the change. *)
(* How the handlers interleave inside one room is the subject of Relay;    *)
(* here a room changes by whole handler steps.                             *)
(***************************************************************************)
EXTENDS Naturals, FiniteSets

CONSTANTS
  Rooms,         \* room names, as the hellos carry them
  Files,         \* the names of the files in state_root
  FileOf,        \* sanitize_room_name; two rooms may share a file
  NoRoom,        \* no room
  Ids,           \* player ids
  NoId,          \* Python's None for host_session_id, "" for host_player_id
  RoomCapacity,  \* config room_capacity
  HostPlayerId,  \* config host_player_id, NoId when empty
  MaxJoins,      \* bound: hellos accepted
  MaxVersion,    \* bound: world updates stored, until a room has had that many
  MaxCrashes     \* bound: times the process dies

ASSUME StoreAssumption ==
  /\ FileOf \in [Rooms -> Files]
  /\ NoRoom \notin Rooms \cup Ids \cup {NoId}
  /\ IsFiniteSet(Ids) /\ NoId \notin Ids
  /\ RoomCapacity \in Nat
  /\ HostPlayerId \in Ids \cup {NoId}
  /\ MaxJoins \in Nat /\ MaxVersion \in Nat /\ MaxCrashes \in Nat

VARIABLES
  phase,       \* the process: "down", "up", or "stopping"
  members,     \* the sessions in self.rooms[r], by id
  claimants,   \* those whose hello carried role = "host"
  adrift,      \* connections without a session in the dict that are still served, by id
  memory,      \* self.room_states
  file,        \* the files
  writing,     \* the room whose file has been cut and not written yet, or NoRoom
  last,        \* what each room was last changed to (history)
  leftBehind,  \* players of a room whose session went before its connection (history)
  joins, crashes

sessionVars == <<members, claimants, adrift>>
writeVars == <<file, writing>>
countVars == <<joins, crashes>>
vars == <<phase, sessionVars, memory, writeVars, last, leftBehind, countVars>>

RoomState == [host : Ids \cup {NoId}, players : SUBSET Ids, world : 0..MaxVersion]

EmptyRoom == [host |-> NoId, players |-> {}, world |-> 0]

\* No RoomState, no file, and one that does not load.
None == [EmptyRoom EXCEPT !.host = NoRoom]
Missing == [room |-> NoRoom, state |-> None]
Torn == [room |-> NoRoom, state |-> EmptyRoom]

\* setdefault.
StateOf(r) == IF memory[r] = None THEN EmptyRoom ELSE memory[r]

\* Some handler may run: the process is up, and none is in the middle of a write.
Runs == phase # "down" /\ writing = NoRoom

-----------------------------------------------------------------------------
(* What handlers do to a room.                                             *)

\* A message is taken from whoever is connected, in the dict or not.
Heard(r, i) == i \in members[r] \/ adrift[r][i] > 0

\* The change and the first half of _save_room_state.
Store(r, s) ==
  /\ memory' = [memory EXCEPT ![r] = s]
  /\ last' = [last EXCEPT ![r] = s]
  /\ file' = [file EXCEPT ![FileOf[r]] = Torn]
  /\ writing' = r

\* A hello that is refused has left an empty room behind, unsaved.
Refuse(r) ==
  /\ Runs
  /\ memory' = [memory EXCEPT ![r] = StateOf(r)]
  /\ UNCHANGED <<phase, sessionVars, writeVars, last, leftBehind, countVars>>

\* Off by one.
HasPlace_slip(r) == Cardinality(members[r]) <= RoomCapacity

HasPlace(r) == Cardinality(members[r]) < RoomCapacity

\* _register_client accepts.
Register(r, i, claimed) ==
  LET s == StateOf(r) IN
  /\ Runs
  /\ joins < MaxJoins
  /\ HasPlace(r)
  /\ i \notin members[r]
  /\ Store(r, IF i = HostPlayerId \/ (s.host = NoId /\ claimed)
              THEN [s EXCEPT !.host = i] ELSE s)
  /\ members' = [members EXCEPT ![r] = @ \cup {i}]
  /\ claimants' = IF claimed THEN [claimants EXCEPT ![r] = @ \cup {i}] ELSE claimants
  /\ joins' = joins + 1
  /\ UNCHANGED <<phase, adrift, leftBehind, crashes>>

\* _process_client_message, of a session that may send this (see Relay): a
\* player's state, a quest's or loot's, or what is only relayed.  Nothing asks
\* whether the session is still in the dict.
Message(r, i) ==
  /\ Runs
  /\ Heard(r, i)
  /\ \/ Store(r, [memory[r] EXCEPT !.players = @ \cup {i}])
     \/ /\ \A q \in Rooms : last[q].world < MaxVersion
        /\ Store(r, [memory[r] EXCEPT !.world = @ + 1])
     \/ Store(r, memory[r])
  /\ UNCHANGED <<phase, sessionVars, leftBehind, countVars>>

\* The role stays with whoever had it.
Successors_slip(r, i) == {memory[r].host}

\* _choose_next_host: the configured player, or the first claimant of those that
\* remain, in the order of the dict (any of them, here).
Successors(r, i) ==
  LET remaining == members[r] \ {i} IN
  IF HostPlayerId \in remaining THEN {HostPlayerId}
  ELSE IF claimants[r] \cap remaining # {} THEN claimants[r] \cap remaining
  ELSE {NoId}

\* The player's last state stays.
WithoutPlayer_slip(s, i) == s

\* player_states.pop
WithoutPlayer(s, i) == [s EXCEPT !.players = @ \ {i}]

\* The session leaves the dict.
Pop(r, i) ==
  /\ members' = [members EXCEPT ![r] = @ \ {i}]
  /\ claimants' = [claimants EXCEPT ![r] = @ \ {i}]

\* _unregister_client finds a session under the id: whose it is, it does not ask.
Remove(r, i) ==
  LET s == WithoutPlayer(memory[r], i) IN
  /\ Runs
  /\ i \in members[r]
  /\ Pop(r, i)
  /\ IF s.host = i
     THEN \E next \in Successors(r, i) : Store(r, [s EXCEPT !.host = next])
     ELSE Store(r, s)

\* The member's own connection has ended.
Unregister(r, i) ==
  /\ Remove(r, i)
  /\ leftBehind' = IF adrift[r][i] = 0 THEN [leftBehind EXCEPT ![r] = @ \ {i}] ELSE leftBehind
  /\ UNCHANGED <<phase, adrift, countVars>>

\* A connection ends whose session has left the dict before: its handler removes
\* the session that took the id since, whose connection is adrift now ...
UnregisterOther(r, i) ==
  /\ adrift[r][i] > 0
  /\ Remove(r, i)
  /\ UNCHANGED <<phase, adrift, leftBehind, countVars>>

\* ... or finds none.
UnregisterNone(r, i) ==
  /\ Runs
  /\ adrift[r][i] > 0
  /\ i \notin members[r]
  /\ adrift' = [adrift EXCEPT ![r][i] = @ - 1]
  /\ UNCHANGED <<phase, members, claimants, memory, writeVars, last, leftBehind, countVars>>

\* A broadcast finds the session's transport dead: it is popped, and nothing is
\* saved.  Its own handler may have messages to read yet.
Evict(r, i) ==
  /\ Runs
  /\ i \in members[r]
  /\ Pop(r, i)
  /\ adrift' = [adrift EXCEPT ![r][i] = @ + 1]
  /\ leftBehind' = [leftBehind EXCEPT ![r] = @ \cup {i}]
  /\ UNCHANGED <<phase, memory, writeVars, last, countVars>>

-----------------------------------------------------------------------------
(* The second half of _save_room_state.                                    *)

Written ==
  /\ writing # NoRoom
  /\ file' = [file EXCEPT ![FileOf[writing]] = [room |-> writing, state |-> memory[writing]]]
  /\ writing' = NoRoom
  /\ UNCHANGED <<phase, sessionVars, memory, last, leftBehind, countVars>>

-----------------------------------------------------------------------------
(* The process.                                                            *)

\* Memory is gone, sessions are over.
Gone ==
  /\ phase' = "down"
  /\ memory' = [r \in Rooms |-> None]
  /\ members' = [r \in Rooms |-> {}]
  /\ claimants' = [r \in Rooms |-> {}]
  /\ adrift' = [r \in Rooms |-> [i \in Ids |-> 0]]
  /\ leftBehind' = [r \in Rooms |-> leftBehind[r] \cup members[r]]

\* The process is killed, as the host launcher does it, or dies.
Crash ==
  /\ phase # "down"
  /\ crashes < MaxCrashes
  /\ crashes' = crashes + 1
  /\ Gone
  /\ writing' = NoRoom
  /\ UNCHANGED <<file, last, joins>>

\* SIGINT, SIGTERM or Ctrl-C: run_server closes the listening socket.
Stop ==
  /\ phase = "up"
  /\ phase' = "stopping"
  /\ UNCHANGED <<sessionVars, memory, writeVars, last, leftBehind, countVars>>

\* wait_closed is through and asyncio.run has cancelled what was left: every
\* handler has been through its finally clause.
Exit ==
  /\ phase = "stopping"
  /\ writing = NoRoom
  /\ \A r \in Rooms, i \in Ids : ~Heard(r, i)
  /\ Gone
  /\ UNCHANGED <<writeVars, last, countVars>>

\* A file that does not load ends the loading.
Loads_slip(f) == \A g \in Files : file[g] # Torn

\* json.loads succeeds; the except clause is inside the loop.
Loads(f) == file[f] \notin {Missing, Torn}

\* main and run_server: _load_existing_room_states keys a state by the room
\* inside the file.  (Where the config or the port is refused nothing happens.)
Start ==
  /\ phase = "down"
  /\ phase' = "up"
  /\ memory' = [r \in Rooms |-> IF Loads(FileOf[r]) /\ file[FileOf[r]].room = r
                                THEN file[FileOf[r]].state ELSE None]
  /\ UNCHANGED <<sessionVars, writeVars, last, leftBehind, countVars>>

Init ==
  /\ phase = "down"
  /\ members = [r \in Rooms |-> {}]
  /\ claimants = [r \in Rooms |-> {}]
  /\ adrift = [r \in Rooms |-> [i \in Ids |-> 0]]
  /\ memory = [r \in Rooms |-> None]
  /\ file = [f \in Files |-> Missing]
  /\ writing = NoRoom
  /\ last = [r \in Rooms |-> None]
  /\ leftBehind = [r \in Rooms |-> {}]
  /\ joins = 0 /\ crashes = 0

Next ==
  \/ \E r \in Rooms :
       \/ Refuse(r)
       \/ \E i \in Ids : \/ \E claimed \in BOOLEAN : Register(r, i, claimed)
                         \/ Message(r, i)
                         \/ Unregister(r, i)
                         \/ UnregisterOther(r, i)
                         \/ UnregisterNone(r, i)
                         \/ Evict(r, i)
  \/ Written
  \/ Crash
  \/ Stop
  \/ Exit
  \/ Start

Spec == Init /\ [][Next]_vars

-----------------------------------------------------------------------------
(* Properties.                                                             *)

\* The types; no room is over its capacity, and only members claim.
StoreTypeOK ==
  /\ phase \in {"down", "up", "stopping"}
  /\ \A r \in Rooms : Cardinality(members[r]) <= RoomCapacity
  /\ members \in [Rooms -> SUBSET Ids]
  /\ claimants \in [Rooms -> SUBSET Ids] /\ \A r \in Rooms : claimants[r] \subseteq members[r]
  /\ adrift \in [Rooms -> [Ids -> Nat]]
  /\ memory \in [Rooms -> RoomState \cup {None}]
  /\ last \in [Rooms -> RoomState \cup {None}]
  /\ file \in [Files -> [room : Rooms, state : RoomState] \cup {Missing, Torn}]
  /\ writing \in Rooms \cup {NoRoom}
  /\ leftBehind \in [Rooms -> SUBSET Ids]
  /\ joins \in Nat /\ crashes \in Nat

\* Every room that was ever saved is in memory as it was last changed, over all
\* restarts, orderly or not, unless its own file was cut by a crash or holds a room
\* of another name by now: no room suffers from what happens to another's file.
SurvivesRestart ==
  phase # "down" =>
    \A r \in Rooms : last[r] # None =>
      \/ memory[r] = last[r]
      \/ file[FileOf[r]] = Torn
      \/ file[FileOf[r]].room \in Rooms \ {r}

\* A room remembers no player but its members and those whose session was lost
\* while they were connected -- in a crash, an eviction, or to the finally clause
\* of an older connection under the same id -- and that have not come and left with
\* their session since.  Whoever leaves in order is forgotten.
RemembersItsOwn ==
  \A r \in Rooms : memory[r] # None => memory[r].players \subseteq members[r] \cup leftBehind[r]

\* While a player that asked to lead is in the room its host is a member, too, or
\* one of those left behind: neither a restart nor a handover leaves a claimant
\* under a leader that has taken its leave.
LedByItsOwn ==
  \A r \in Rooms : claimants[r] # {} => memory[r].host \in members[r] \cup leftBehind[r]
=============================================================================
