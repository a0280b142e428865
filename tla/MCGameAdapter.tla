---------------------------- MODULE MCGameAdapter ----------------------------
(***************************************************************************)
(* Small instances of GameAdapter for TLC: three cells, two of which have  *)
(* one name.                                                               *)
(***************************************************************************)
EXTENDS GameAdapter

CONSTANTS x, y, z, hall, road

CellPlaces == {x, y, z}
CellNames == {hall, road}
Named == [c \in CellPlaces |-> IF c = z THEN road ELSE hall]

\* Two of them, with names of their own.
ApartPlaces == {x, z}
NamedApart == [c \in ApartPlaces |-> IF c = z THEN road ELSE hall]
=============================================================================
