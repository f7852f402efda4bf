----------------------------- MODULE MCCooldown -----------------------------
(***************************************************************************)
(* LiveMonitor with the switch it ships with (live_monitor.py:341-364),    *)
(* and an observer that remembers when the last switch was decided that    *)
(* _do_failover then called done.                                          *)
(***************************************************************************)
EXTENDS LiveMonitor

VARIABLE last     \* age of the decision of the last switch done

Done == DoFailover /\ loop'.at = "record" /\ loop'.ok

Observe ==
  last' = CASE Done -> IF loop.age < Cooldown THEN loop.age ELSE Cooldown
            [] Tick -> Later(last, Cooldown)
            [] OTHER -> last

ObservedSpec ==
  /\ Init /\ last = Cooldown
  /\ [][Next /\ Observe]_<<vars, last>>
  /\ WF_vars(Loop) /\ WF_vars(Tick)

\* "A cooldown_seconds (default 60s) floor between failovers keeps it from
\* thrashing" (README.md:66-68): no switch is decided within the cooldown of
\* the one done last.
CooldownKept == [][Decide => last >= Cooldown]_<<vars, last>>
=============================================================================
