----------------------------- MODULE MCLauncher ------------------------------
(***************************************************************************)
(* Small instances of Launcher for TLC.                                    *)
(***************************************************************************)
EXTENDS Launcher

\* The host's own updates would multiply its relays with the scripts.
Pressed == [joiner |-> {"join", "install", "update"}, host |-> {"host"}]
=============================================================================
