----------------------------- MODULE LiveMonitor -----------------------------
(***************************************************************************)
(* The loop of totalray/live_monitor.py: it polls the selected member,     *)
(* samples retransmits, probes the standbys (totalray/standby_probe.py),   *)
(* judges the connections, and asks the failover controller for a switch   *)
(* when the passive signal says "degraded".  Beside it run the thread that *)
(* tails sing-box's journal and feeds the same signal without a lock, and  *)
(* the applies, which select members on their own.                         *)
(*                                                                         *)
(* Servers go bad and recover at any time, so evidence of errors is any.   *)
(* The window of samples that a connection check keeps besides is left     *)
(* out: its verdict counts only with the signal's, judged just before the  *)
(* snapshot.  What the core serves, and the refill, are LiveApply.         *)
(* The controller gets its switch as a parameter.  The type it declares    *)
(* (failover.py:10) is a pair, which its tests pass it; _do_failover, the  *)
(* one LiveMonitor passes it, returns a bool.  Switches has the kinds of   *)
(* switch that a run allows; the shipped daemon is Switches = {"bool"}.    *)
(***************************************************************************)
EXTENDS Failover

CONSTANTS
  Stale,        \* live_monitor.probe_stale_seconds, in ticks
  Shadow,       \* live_monitor.shadow_mode
  Switches      \* what a switch may return: a "pair" (ok, message), or a "bool"

ASSUME MonitorAssumption ==
  Stale \in Nat /\ Shadow \in BOOLEAN /\ Switches \subseteq {"pair", "bool"}

VARIABLES
  active,     \* the member selected in the core
  loop,       \* the monitor thread: at, the tag it polled, the standbys it
              \* has yet to probe, the target and age of its decision
  signal,     \* DegradationDetector
  journal,    \* the journal thread: "tail", or judged "bad" or "good" and
              \* about to count, or "ended"
  good,       \* tag -> age of a last probe that succeeded, NotReady otherwise
  ctl,        \* FailoverController
  answered,   \* history: ages of the latest decisions whose switch answered
  fresh       \* history: judgements made since the signal's tag changed

vars == <<active, loop, signal, journal, good, ctl, answered, fresh>>

NotReady == Stale + 1
LongAgo == IF Cooldown > FailureWindow THEN Cooldown ELSE FailureWindow + 1

\* The most decisions a failure window should see, and the age of older ones.
MostSwitches == (FailureWindow \div Cooldown) + MaxFailures
Decided == 1..(MostSwitches + 1)
Past == FailureWindow + 1
Capped(age) == IF age <= FailureWindow THEN age ELSE Past

Polling ==
  [at |-> "poll", tag |-> NoTag, todo |-> {}, target |-> NoTag, age |-> 0, ok |-> FALSE]

Init ==
  /\ active \in Tags
  /\ loop = Polling
  /\ signal = NoSignal
  /\ journal = "tail"
  /\ good = [t \in Tags |-> NotReady]
  /\ ctl = NoFailover
  /\ answered = [i \in Decided |-> Past]
  /\ fresh = 0

\* History: so many judgements more; Hysteresis of them are enough.
JudgedTimes(n) == fresh' = IF fresh + n < Hysteresis THEN fresh + n ELSE Hysteresis

-----------------------------------------------------------------------------
(* _monitor_loop.                                                           *)

\* _write_status: its snapshots evaluate the signal and prune the failures.
WriteStatus ==
  /\ loop.at = "poll"
  /\ signal' = Evaluated(signal) /\ JudgedTimes(1)
  /\ ctl' = Pruned(ctl)
  /\ UNCHANGED <<active, loop, journal, good, answered>>

\* _get_proxy_info; when it fails the loop sleeps and polls again.
Poll ==
  /\ loop.at = "poll"
  /\ signal' = Activated(signal, active)
  /\ fresh' = IF signal.tag = active THEN fresh ELSE 0
  /\ loop' = [loop EXCEPT !.at = "sample", !.tag = active]
  /\ UNCHANGED <<active, journal, good, ctl, answered>>

\* _sample_retransmits, when one is due.
Sample ==
  /\ loop.at = "sample"
  /\ \/ \E many \in BOOLEAN : signal' = Evaluated(WithRetransmits(signal, many))
        /\ JudgedTimes(1)
     \/ UNCHANGED <<signal, fresh>>
  /\ \E todo \in {{}, Tags \ {loop.tag}} :
       loop' = [loop EXCEPT !.at = "probe", !.todo = todo]
  /\ UNCHANGED <<active, journal, good, ctl, answered>>

\* _probe_standbys, one request after another, of those not polled as active.
Probe ==
  /\ loop.at = "probe" /\ loop.todo # {}
  /\ \E t \in loop.todo :
       /\ loop' = [loop EXCEPT !.todo = @ \ {t}]
       /\ \E age \in {0, NotReady} : good' = [good EXCEPT ![t] = age]
  /\ UNCHANGED <<active, signal, journal, ctl, answered, fresh>>

\* _check_connection_health, which observes nothing when the API is silent,
\* and the snapshot that decides.
Check ==
  /\ loop.at = "probe" /\ loop.todo = {}
  /\ \/ signal' = Evaluated(signal) /\ JudgedTimes(1)
     \/ \E n \in 0..ErrorThreshold :
          signal' = Evaluated(Evaluated(WithErrors(signal, n))) /\ JudgedTimes(2)
  /\ loop' = IF Degraded(signal') THEN [loop EXCEPT !.at = "decide"] ELSE Polling
  /\ UNCHANGED <<active, journal, good, ctl, answered>>

\* Mutant: the active server is not left out.
ReadyOfAll == {t \in Tags : good[t] <= Stale}

\* StandbyProbe.ready, for the members of the pool but the one polled.
Ready == {t \in Tags \ {loop.tag} : good[t] <= Stale}

\* attempt, when it does not come to a switch.
Refused ==
  /\ loop.at = "decide"
  /\ \/ Ready = {} /\ ctl' = Pruned(ctl)
     \/ /\ Ready # {}
        /\ ctl' = Judged(Pruned(ctl), loop.tag)
        /\ ~MaySwitch(ctl') \/ Shadow
  /\ loop' = Polling
  /\ UNCHANGED <<active, signal, journal, good, answered, fresh>>

Decide ==
  /\ loop.at = "decide" /\ Ready # {} /\ ~Shadow
  /\ ctl' = Judged(Pruned(ctl), loop.tag)
  /\ MaySwitch(ctl')
  /\ \E t \in Ready :
       loop' = [loop EXCEPT !.at = "switch", !.target = t, !.age = 0]
  /\ UNCHANGED <<active, signal, journal, good, answered, fresh>>

\* _do_failover: the request succeeds, fails, or fails after it took effect.
\* It writes the status, whose snapshot of the signal may raise while the
\* journal thread appends to it, and runs the callback, which waits for a
\* refill; the loop catches what is raised, and nothing is recorded.
DoFailover ==
  /\ loop.at = "switch"
  /\ \E ok \in BOOLEAN :
       /\ active' \in IF ok THEN {loop.target} ELSE {active, loop.target}
       /\ \/ /\ signal' = Evaluated(signal) /\ JudgedTimes(1)
             /\ ctl' = Pruned(ctl)
             /\ loop' = [loop EXCEPT !.at = "record", !.ok = ok]
          \/ loop' = Polling /\ UNCHANGED <<signal, fresh, ctl>>
  /\ UNCHANGED <<journal, good, answered>>

AnsweredNow ==
  answered' = [i \in Decided |-> IF i = 1 THEN Capped(loop.age) ELSE answered[i - 1]]

\* Mutant: a failed switch is not counted.
RecordSuccess ==
  /\ loop.at = "record"
  /\ \/ /\ "pair" \in Switches
        /\ ctl' = IF loop.ok THEN Switched(ctl, loop.target, loop.age) ELSE ctl
        /\ AnsweredNow
     \/ "bool" \in Switches /\ UNCHANGED <<ctl, answered>>
  /\ loop' = Polling
  /\ UNCHANGED <<active, signal, journal, good, fresh>>

\* attempt after the switch: a pair is recorded, as of the decision;
\* unpacking a bool raises TypeError, which the loop logs.
Record ==
  /\ loop.at = "record"
  /\ \/ /\ "pair" \in Switches
        /\ ctl' = IF loop.ok THEN Switched(ctl, loop.target, loop.age)
                  ELSE FailedAt(ctl, loop.age)
        /\ AnsweredNow
     \/ "bool" \in Switches /\ UNCHANGED <<ctl, answered>>
  /\ loop' = Polling
  /\ UNCHANGED <<active, signal, journal, good, fresh>>

\* An exception before there is a decision, say of a busy database.
LoopFails ==
  /\ loop.at \in {"sample", "probe", "decide"}
  /\ loop' = Polling
  /\ UNCHANGED <<active, signal, journal, good, ctl, answered, fresh>>

-----------------------------------------------------------------------------
(* JournalTailer: the thread appends and judges, and then counts; the loop  *)
(* may have reset the signal, or counted, in between.                       *)

JournalLine ==
  /\ journal = "tail"
  /\ \E n \in {0, IF signal.tag = NoTag THEN 0 ELSE 1} :
       LET observed == WithErrors(signal, n)
       IN /\ signal' = observed /\ JudgedTimes(1)
          /\ journal' = IF IsBad(observed) THEN "bad" ELSE "good"
  /\ UNCHANGED <<active, loop, good, ctl, answered>>

JournalCounts ==
  /\ journal \in {"bad", "good"}
  /\ signal' = Counted(signal, journal = "bad")
  /\ journal' = "tail"
  /\ UNCHANGED <<active, loop, good, ctl, answered, fresh>>

\* journalctl ends, or the thread dies of an exception: nothing restarts it.
JournalEnds ==
  /\ journal # "ended"
  /\ journal' = "ended"
  /\ UNCHANGED <<active, loop, signal, good, ctl, answered, fresh>>

\* An apply selects its best member.
Reselected ==
  /\ active' \in Tags
  /\ UNCHANGED <<loop, signal, journal, good, ctl, answered, fresh>>

Tick ==
  /\ signal' = SignalAged(signal)
  /\ good' = [t \in Tags |-> Later(good[t], NotReady)]
  /\ ctl' = ControllerAged(ctl)
  /\ loop' = [loop EXCEPT !.age = IF loop.at \in {"switch", "record"}
                                  THEN Later(@, LongAgo) ELSE 0]
  /\ answered' = [i \in Decided |-> Later(answered[i], Past)]
  /\ UNCHANGED <<active, journal, fresh>>

Loop == Poll \/ Sample \/ Probe \/ Check \/ Refused \/ Decide \/ DoFailover \/ Record

Next ==
  \/ Loop \/ LoopFails \/ WriteStatus
  \/ JournalLine \/ JournalCounts \/ JournalEnds
  \/ Reselected
  \/ Tick

\* The loop goes round, since each of its requests has a timeout and it
\* catches every exception, and time passes.
Spec == Init /\ [][Next]_vars /\ WF_vars(Loop) /\ WF_vars(Tick)

-----------------------------------------------------------------------------
(* Properties.                                                              *)

\* The type invariant.
TypeOK ==
  /\ active \in Tags
  /\ loop.at \in {"poll", "sample", "probe", "decide", "switch", "record"}
  /\ loop.tag \in Tags \cup {NoTag} /\ loop.todo \subseteq Tags \ {loop.tag}
  /\ loop.target \in Tags \cup {NoTag} /\ loop.age \in 0..LongAgo
  /\ loop.at \in {"switch", "record"} => loop.target # loop.tag
  /\ SignalType(signal)
  /\ journal \in {"tail", "bad", "good", "ended"}
  /\ good \in [Tags -> 0..NotReady]
  /\ ControllerType(ctl)
  /\ answered \in [Decided -> 0..Past]
  /\ fresh \in 0..Hysteresis

\* The flap guard of failover.py, for any caller and any mixture of switches:
\* in no failure window does the controller decide more switches that then
\* answer it than one per whole cooldown that fits in it and one for each
\* failure until the breaker opens, although it asks its questions before the
\* switch and records the answer long after, of a decision since aged, with
\* answers lost in between, failures pruned by the status writes, and applies
\* that select members (SINGBOX_CORE_EMBED_PLAN.md:365-366).  It speaks of
\* switches that answer with the declared pair only; what becomes of the rest
\* is in MCCooldown.
AnsweredBounded == answered[MostSwitches + 1] = Past

\* Hysteresis holds across a change of server: a server is called degraded
\* only after hysteresis_samples judgements made since it became the active
\* one, less the one the journal thread may have made before and counted
\* after (SINGBOX_CORE_EMBED_PLAN.md:283-285, health_signal.py:38-44).
HysteresisHolds == Degraded(signal) => fresh >= Hysteresis - 1

\* Degradation is answered: a monitor that is refused a switch again and again
\* although a standby is ready switches again and again, or its breaker opens:
\* a refusal for the cooldown is never for good
\* (SINGBOX_CORE_EMBED_PLAN.md:363-366).
DegradationAnswered ==
  []<><<Refused /\ Ready # {}>>_vars => []<>(loop.at = "switch") \/ []<>ctl.open
==============================================================================
