----------------------------- MODULE SharedRoom -----------------------------
(***************************************************************************)
(* What a room of the relay promises its players, without connections,     *)
(* messages or handlers: who is present, who of them leads, and one copy   *)
(* of the player states and of the world that only the leader advances.    *)
(* Relay is shown to implement it while every peer keeps up, no link       *)
(* breaks and it is not restarted; DurableRoom is what holds otherwise.    *)
(***************************************************************************)
EXTENDS Integers, FiniteSets

CONSTANTS Ids, NoId, World, RoomCapacity, MaxVersion

VARIABLES
  present,    \* players in the room
  claimants,  \* those of them who asked to lead
  host,       \* the leader, or NoId
  players,    \* those whose player state the room keeps
  world       \* version of each quest and loot entry

vars == <<present, claimants, host, players, world>>

Init ==
  /\ present = {}
  /\ claimants = {}
  /\ host = NoId
  /\ players = {}
  /\ world = [w \in World |-> 0]

\* A player enters, and leads if it asks to and nobody does.
Join(i, claimed) ==
  /\ i \notin present
  /\ Cardinality(present) < RoomCapacity
  /\ present' = present \cup {i}
  /\ claimants' = IF claimed THEN claimants \cup {i} ELSE claimants
  /\ host' = IF claimed /\ host = NoId THEN i ELSE host
  /\ UNCHANGED <<players, world>>

\* A player leaves with its state; a leader is succeeded by another claimant.
Leave(i) ==
  /\ i \in present
  /\ present' = present \ {i}
  /\ claimants' = claimants \ {i}
  /\ players' = players \ {i}
  /\ \/ host # i /\ host' = host
     \/ host = i /\ host' \in claimants'
     \/ host = i /\ claimants' = {} /\ host' = NoId
  /\ UNCHANGED world

\* A player that is present publishes its state.
Appear(i) ==
  /\ i \in present
  /\ players' = players \cup {i}
  /\ UNCHANGED <<present, claimants, host, world>>

\* The leader publishes the next version of a quest or loot entry.
Publish(w) ==
  /\ host \in present
  /\ world[w] < MaxVersion
  /\ world' = [world EXCEPT ![w] = @ + 1]
  /\ UNCHANGED <<present, claimants, host, players>>

Next ==
  \/ \E i \in Ids, claimed \in BOOLEAN : Join(i, claimed)
  \/ \E i \in Ids : Leave(i) \/ Appear(i)
  \/ \E w \in World : Publish(w)

Spec == Init /\ [][Next]_vars

-----------------------------------------------------------------------------

\* The types, and that states, claims and leadership are of players present
\* (RelayServer._unregister_client removes them together).
TypeOK ==
  /\ present \subseteq Ids
  /\ claimants \subseteq present
  /\ players \subseteq present
  /\ host \in present \cup {NoId}
  /\ world \in [World -> 0..MaxVersion]

\* The room never holds more players than it has places, its leader is one of
\* the claimants present, and nobody leads only while nobody asked to
\* (RelayServer._register_client, _unregister_client and _choose_next_host).
Leadership ==
  /\ Cardinality(present) <= RoomCapacity
  /\ host # NoId => host \in claimants
  /\ claimants # {} => host # NoId
=============================================================================
