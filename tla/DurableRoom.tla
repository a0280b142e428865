---------------------------- MODULE DurableRoom ----------------------------
(***************************************************************************)
(* What is left of a room's promises when links break, peers stall and the *)
(* relay is restarted, with or without a configured host.  Players are     *)
(* dropped without notice here, and those who were may still be heard; but *)
(* nobody stays whom the relay does not serve, only who has been host      *)
(* writes the world, and the world and the host outlive the relay.         *)
(* Relay is shown to implement it without any condition.                   *)
(***************************************************************************)
EXTENDS Integers, FiniteSets

CONSTANTS Ids, NoId, World, RoomCapacity, HostPlayerId, RequireHost, MaxVersion

VARIABLES
  served,     \* players with a connection that the relay still serves
  present,    \* those of them in the room
  claimants,  \* those present who asked to lead
  writers,    \* those served who have a connection marked as host
  host,       \* the leader, or NoId
  players,    \* those whose player state the room keeps
  world       \* version of each quest and loot entry

vars == <<served, present, claimants, writers, host, players, world>>

Init ==
  /\ served = {}
  /\ present = {}
  /\ claimants = {}
  /\ writers = {}
  /\ host = NoId
  /\ players = {}
  /\ world = [w \in World |-> 0]

\* A player enters.  The configured one leads; another does if it asks to and
\* nobody does.
Join(i, claimed) ==
  /\ i \notin present
  /\ Cardinality(present) < RoomCapacity
  /\ served' = served \cup {i}
  /\ present' = present \cup {i}
  /\ claimants' = IF claimed THEN claimants \cup {i} ELSE claimants
  /\ host' = IF i = HostPlayerId \/ (host = NoId /\ claimed) THEN i ELSE host
  /\ writers' = IF host' = i THEN writers \cup {i} ELSE writers
  /\ UNCHANGED <<players, world>>

\* Connections may end, but those of players who stay, and the mark of a host
\* who stays.
Stays ==
  /\ present' \subseteq served' /\ served' \subseteq served
  /\ writers' \subseteq served'
  /\ host' \in present' => host' \in writers'

\* Who leads next: the configured player, a claimant, or nobody.
Succeeds(next) ==
  \/ HostPlayerId \in present' /\ next = HostPlayerId
  \/ HostPlayerId \notin present' /\ next \in claimants'
  \/ HostPlayerId \notin present' /\ claimants' = {} /\ next = NoId

\* A player leaves with its state, and a leader is succeeded.
Leave(i) ==
  /\ i \in present
  /\ present' = present \ {i}
  /\ claimants' = claimants \ {i}
  /\ players' = players \ {i}
  /\ IF host = i THEN Succeeds(host') ELSE host' = host
  /\ writers' \subseteq writers \cup {host'}
  /\ Stays
  /\ UNCHANGED world

\* A player is dropped: it is not present any more.  A connection may end with it,
\* that of whoever found it gone.
Drop(i) ==
  /\ present' = present \ {i}
  /\ claimants' = claimants \ {i}
  /\ writers' \subseteq writers
  /\ Stays
  /\ UNCHANGED <<host, players, world>>

\* A connection that takes nobody out of the room ends.
HangUp ==
  /\ writers' \subseteq writers
  /\ Stays
  /\ UNCHANGED <<present, claimants, host, players, world>>

\* A player that is served publishes its state.
Appear(i) ==
  /\ i \in served
  /\ players' = players \cup {i}
  /\ UNCHANGED <<served, present, claimants, writers, host, world>>

\* Somebody marked as host publishes the next version of a quest or loot entry.
Publish(w) ==
  /\ RequireHost => writers # {}
  /\ world[w] < MaxVersion
  /\ world' = [world EXCEPT ![w] = @ + 1]
  /\ UNCHANGED <<served, present, claimants, writers, host, players>>

\* The relay starts again: nobody is there, and the room is as it was.
Restart ==
  /\ served' = {}
  /\ present' = {}
  /\ claimants' = {}
  /\ writers' = {}
  /\ UNCHANGED <<host, players, world>>

Next ==
  \/ \E i \in Ids, claimed \in BOOLEAN : Join(i, claimed)
  \/ \E i \in Ids : Leave(i) \/ Drop(i) \/ Appear(i)
  \/ \E w \in World : Publish(w)
  \/ HangUp
  \/ Restart

Spec == Init /\ [][Next]_vars

-----------------------------------------------------------------------------

\* The types, and who is contained in whom: nobody is in the room whom the
\* relay does not serve (RelayServer.handle_connection, its finally clause).
TypeOK ==
  /\ served \subseteq Ids
  /\ present \subseteq served
  /\ claimants \subseteq present
  /\ writers \subseteq served
  /\ host \in Ids \cup {NoId}
  /\ players \subseteq Ids
  /\ world \in [World -> 0..MaxVersion]

\* A host that is present may write, and the room is never overfull
\* (_register_client, _unregister_client).
Order ==
  /\ Cardinality(present) <= RoomCapacity
  /\ host \in present => host \in writers

\* No fault takes a world update back, not even a restart: each entry stays
\* or goes forward by one (_process_client_message, _load_existing_room_states).
NeverBack == [][\A w \in World : world'[w] \in {world[w], world[w] + 1}]_vars

\* Whoever has been named host stays it until it leaves the room by itself or
\* the configured player comes: being dropped, or a restart, takes the role
\* from nobody (_register_client, _broadcast, _load_existing_room_states).
HostStays ==
  [][host # NoId /\ host' # host =>
       \/ host \in present /\ host \notin present'
       \/ host' = HostPlayerId /\ HostPlayerId \in present' \ present]_vars

\* Nobody is given the right to write but the host: a connection that was not
\* marked becomes so only when its player is named (_register_client, _unregister_client).
OnlyHostsWrite == [][writers' \subseteq writers \cup {host'}]_vars
=============================================================================
