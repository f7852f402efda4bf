--------------------------- MODULE MCControlServer ---------------------------
(* ControlServer on a small instance, for TLC. *)
EXTENDS ControlServer
==============================================================================
