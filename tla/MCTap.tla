------------------------------- MODULE MCTap --------------------------------
(* Small instances of Tap for TLC. *)
EXTENDS Tap
=============================================================================
