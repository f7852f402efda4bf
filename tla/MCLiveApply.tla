---------------------------- MODULE MCLiveApply ----------------------------
(* LiveApply on small instances: three servers, groups of up to two. *)
EXTENDS LiveApply

\* The core and both its APIs answer; configs may be rejected and LiveMonitor
\* may switch.
Churn == {"check", "monitor"}

\* Everything may fail.
Faults == AllDisturbances

\* Only a refill's control request fails.
LostRequest == {"control", "monitor"}
==============================================================================
