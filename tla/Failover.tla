------------------------------ MODULE Failover ------------------------------
(***************************************************************************)
(* FailoverController of totalray/failover.py, as operators on the         *)
(* controller's record; LiveMonitor calls attempt.  Instants are ages, as  *)
(* in HealthSignal, and lists have the latest first; history and messages  *)
(* are left out.                                                           *)
(***************************************************************************)
EXTENDS HealthSignal

CONSTANTS
  Cooldown,       \* live_monitor.cooldown_seconds, in ticks
  MaxFailures,    \* live_monitor.circuit_breaker_failures
  FailureWindow   \* live_monitor.circuit_breaker_window_seconds, in ticks

ASSUME FailoverAssumption ==
  Cooldown \in Nat \ {0} /\ MaxFailures \in Nat \ {0} /\ FailureWindow \in Nat

\* The failures: a failure that has left the window stays in the list, at age
\* FailureWindow + 1, until it is pruned.  One more than the limit is kept.
Listed == 1..(MaxFailures + 1)
Absent == FailureWindow + 2

NoFailover ==
  [sinceSwitch |-> Cooldown, target |-> NoTag,
   failures |-> [i \in Listed |-> Absent], open |-> FALSE]

\* _prune, called by attempt and by snapshot only.
Pruned(ctl) ==
  [ctl EXCEPT !.failures =
     [i \in Listed |-> IF @[i] <= FailureWindow THEN @[i] ELSE Absent]]

ControllerType(ctl) ==
  /\ ctl.sinceSwitch \in 0..Cooldown /\ ctl.target \in Tags \cup {NoTag}
  /\ ctl.failures \in [Listed -> 0..Absent]
  /\ ctl.failures[MaxFailures + 1] = Absent
  /\ ctl.open \in BOOLEAN

ControllerAged(ctl) ==
  [ctl EXCEPT !.sinceSwitch = Later(@, Cooldown),
              !.failures = [i \in Listed |-> IF @[i] = Absent THEN Absent
                                            ELSE Later(@[i], FailureWindow + 1)]]

\* A failure so long ago: into the window, and the breaker opens when the
\* window is full.  It never closes by itself.
FailedAt(ctl, age) ==
  LET first == IF age <= FailureWindow THEN age ELSE FailureWindow + 1
      failures == [i \in Listed |-> IF i = 1 THEN first ELSE ctl.failures[i - 1]]
  IN [ctl EXCEPT !.failures = failures,
                 !.open = @ \/ failures[MaxFailures] # Absent]

\* Mutant: a refused attempt starts the cooldown anew.
JudgedRestartingCooldown(ctl, from) ==
  [(IF ctl.target = from /\ ~ctl.open THEN FailedAt(ctl, 0) ELSE ctl)
     EXCEPT !.sinceSwitch = IF @ < Cooldown THEN 0 ELSE @]

\* attempt, up to its checks: the server promoted last that is degraded now
\* is a failed promotion, cooldown or not.
Judged(ctl, from) ==
  IF ctl.target = from /\ ~ctl.open THEN FailedAt(ctl, 0) ELSE ctl

\* Mutant: the cooldown is not looked at.
MaySwitchAtOnce(ctl) == ~ctl.open

MaySwitch(ctl) == ~ctl.open /\ ctl.sinceSwitch >= Cooldown

\* attempt, after the switch: instants are those of its decision.
Switched(ctl, target, age) ==
  [ctl EXCEPT !.sinceSwitch = IF age < Cooldown THEN age ELSE Cooldown,
              !.target = target]
==============================================================================
