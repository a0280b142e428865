------------------------------ MODULE MCRelay ------------------------------
(***************************************************************************)
(* Small instances of Relay for TLC.  Player ids are interchangeable (but  *)
(* for the configured host), and so are connections that are equally slow. *)
(***************************************************************************)
EXTENDS Relay, TLC

PeerSymmetry ==
  Permutations(Ids \ {HostPlayerId}) \cup Permutations(Slow)
    \cup Permutations(Conns \ Slow)

\* Without symmetry, for liveness: connections are numbers, accepted in order.
ArriveInOrder ==
  \A c, d \in Conns : c < d /\ pc[c] = "hello" => pc'[d] = "hello"

\* The state up to what no later step looks at: the flags of ended sessions,
\* the number of rooms that came and went, the absolute positions in the dict.
RelevantState ==
  <<pc, cpu, link, id, room, disk, view, avatars, losses, crashes, cut, replay,
    [c \in Conns |-> pc[c] # "done" /\ claims[c]],
    [c \in Conns |-> pc[c] # "done" /\ isHost[c]],
    [c \in Conns |-> {d \in Members : slot[d] > cast[c].at}],
    [c \in Conns |-> {d \in Members : slot[d] > slot[c]}],
    [c \in Conns |-> [cast[c] EXCEPT !.at = 0,
                                     !.epoch = IF cast[c].epoch = epoch THEN 1 ELSE 0]]>>
=============================================================================
