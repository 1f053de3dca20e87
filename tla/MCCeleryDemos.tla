----------------------------- MODULE MCCeleryDemos -----------------------------
(* CeleryDemos for TLC: the .cfg file gives its constants. *)
EXTENDS CeleryDemos
=============================================================================
