------------------------------ MODULE MCUpdates ------------------------------
(* Updates on a small instance, for TLC. *)
EXTENDS Updates
==============================================================================
