----------------------------- MODULE MCSimulator -----------------------------
(* Simulator for TLC: the .cfg file gives its constants. *)
EXTENDS Simulator
=============================================================================
