-------------------------- MODULE MCApplyCoordinator --------------------------
(* ApplyCoordinator for TLC: the daemon and one "totalray build" at a time.  *)
EXTENDS ApplyCoordinator

CONSTANTS daemon, build

TwoProcs == {daemon, build}
==============================================================================
