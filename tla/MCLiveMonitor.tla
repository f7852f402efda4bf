---------------------------- MODULE MCLiveMonitor ----------------------------
(* LiveMonitor on a small instance, for TLC.                                 *)
EXTENDS LiveMonitor
==============================================================================
