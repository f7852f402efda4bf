---------------------------- MODULE HealthSignal ----------------------------
(***************************************************************************)
(* DegradationDetector of totalray/health_signal.py, as operators on a     *)
(* signal record; LiveMonitor says which thread applies them when.         *)
(*                                                                         *)
(* The rolling windows are kept to what _evaluate tells apart: the ages of *)
(* the newest ErrorThreshold errors, the newest first, and the age of the  *)
(* newest retransmit sample that reached its threshold.                    *)
(***************************************************************************)
EXTENDS Naturals

CONSTANTS
  Tags,             \* outbound tags
  NoTag,
  ErrorThreshold,   \* live_monitor.error_threshold
  Hysteresis,       \* live_monitor.hysteresis_samples
  ErrorWindow       \* live_monitor.error_window_seconds, in ticks

ASSUME TagAssumption == NoTag \notin Tags
ASSUME SignalAssumption ==
  ErrorThreshold \in Nat \ {0} /\ Hysteresis \in Nat \ {0} /\ ErrorWindow \in Nat

\* An age that stops at its limit, when it no longer matters.
Later(age, limit) == IF age < limit THEN age + 1 ELSE limit

\* The age of what has left the window, or never was in it.
Expired == ErrorWindow + 1
Newest == 1..ErrorThreshold

NoSignal == [tag |-> NoTag, errors |-> [i \in Newest |-> Expired],
             retransmit |-> Expired, bad |-> 0]

SignalType(sig) ==
  /\ sig.tag \in Tags \cup {NoTag}
  /\ sig.errors \in [Newest -> 0..Expired]
  /\ sig.retransmit \in 0..Expired /\ sig.bad \in 0..Hysteresis

SignalAged(sig) ==
  [sig EXCEPT !.errors = [i \in Newest |-> Later(@[i], Expired)],
              !.retransmit = Later(@, Expired)]

\* Mutant: the count of bad judgements survives a change of server.
ActivatedKeepingCount(sig, tag) ==
  IF sig.tag = tag THEN sig ELSE [NoSignal EXCEPT !.tag = tag, !.bad = sig.bad]

\* set_active_tag: another server starts with a clean record.
Activated(sig, tag) == IF sig.tag = tag THEN sig ELSE [NoSignal EXCEPT !.tag = tag]

\* So many errors more, up to the threshold.
WithErrors(sig, n) ==
  [sig EXCEPT !.errors = [i \in Newest |-> IF i <= n THEN 0 ELSE @[i - n]]]

WithRetransmits(sig, many) == IF many THEN [sig EXCEPT !.retransmit = 0] ELSE sig

\* _evaluate: what it judges, and what it makes of the judgement.
IsBad(sig) ==
  sig.errors[ErrorThreshold] <= ErrorWindow \/ sig.retransmit <= ErrorWindow

Counted(sig, isBad) ==
  [sig EXCEPT !.bad = IF ~isBad THEN 0 ELSE IF @ < Hysteresis THEN @ + 1 ELSE @]

Evaluated(sig) == Counted(sig, IsBad(sig))

Degraded(sig) == sig.bad >= Hysteresis
==============================================================================
