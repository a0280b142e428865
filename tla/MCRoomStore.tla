---------------------------- MODULE MCRoomStore -----------------------------
(***************************************************************************)
(* Small instances of RoomStore for TLC: three rooms, two of whose names   *)
(* sanitize alike.                                                         *)
(***************************************************************************)
EXTENDS RoomStore, TLC

CONSTANTS
  s1, s_2, sx2,  \* rooms, as "s1", "s_2" and "s 2"
  f1, f2         \* files, as "s1.json" and "s_2.json"

RoomNames == {s1, s_2, sx2}
FileNames == {f1, f2}
Sanitized == [r \in RoomNames |-> IF r = s1 THEN f1 ELSE f2]

\* Players are alike, and so are the two rooms of one file.
Symmetry == Permutations(Ids) \cup Permutations({s_2, sx2})
=============================================================================
