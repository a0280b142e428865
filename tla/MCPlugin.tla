------------------------------ MODULE MCPlugin ------------------------------
(***************************************************************************)
(* Small instances of Plugin for TLC.                                      *)
(***************************************************************************)
EXTENDS Plugin, TLC

\* Every cell has a name of its own.
Named == [c \in Cells |-> c]

PluginSymmetry == Permutations(Peers) \cup Permutations(Quests)
=============================================================================
