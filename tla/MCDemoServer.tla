---------------------------- MODULE MCDemoServer ----------------------------
(* DemoServer for TLC: the .cfg files give its constants. *)
EXTENDS DemoServer, TLC
=============================================================================
