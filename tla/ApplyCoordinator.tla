--------------------------- MODULE ApplyCoordinator ---------------------------
(***************************************************************************)
(* The gate in front of every apply, totalray/coordinator.py: one lock per *)
(* process, a window of recent attempts, a circuit breaker that pauses all *)
(* applies for a window once too many attempts fell into one, a health     *)
(* check after each restart, and apply_state.json, which brings an open    *)
(* breaker back after a restart of the daemon.                             *)
(*                                                                         *)
(* Two kinds of process have a coordinator: the daemon, whose jobs, main   *)
(* thread and live monitor share one, and the one-shot "totalray build".   *)
(* They share the file and the core, not the lock.                         *)
(*                                                                         *)
(* The code only compares "how long ago" with the window, so an instant is *)
(* kept as its age in ticks, and an age stops at Window: what happened a   *)
(* window ago or earlier, or never.  A list of time stamps is a function   *)
(* from 1 (the latest) on, as far back as the code can have use for: the   *)
(* limit and two more, of which the last is always a window old.  Time is  *)
(* monotonic here and the state file writable.  What an apply does to the  *)
(* core is LiveApply.                                                      *)
(***************************************************************************)
EXTENDS Naturals

CONSTANTS
  Procs,          \* processes with a coordinator
  Daemon,         \* the one that stays; the others apply once
  MaxRestarts,    \* apply.max_restarts_per_window
  Window,         \* apply.restart_window_seconds, in ticks
  HealthRetries   \* apply.health_check_retries

ASSUME ProcAssumption == Daemon \in Procs
ASSUME LimitAssumption ==
  MaxRestarts \in Nat \ {0} /\ Window \in Nat \ {0} /\ HealthRetries \in Nat

VARIABLES
  mem,       \* process -> up, the attempts in the window, the breaker
  op,        \* process -> the call that holds its lock
  file,      \* apply_state.json; "by" is history: who saved it last
  restarts   \* history: process -> ages of the restarts it made, since it
             \* started or its breaker was last reset by hand

vars == <<mem, op, file, restarts>>

Older(age) == IF age < Window THEN age + 1 ELSE Window

Latest == 1..(MaxRestarts + 2)
Never == [i \in Latest |-> Window]
Now(ages) == [i \in Latest |-> IF i = 1 THEN 0 ELSE ages[i - 1]]
Aged(ages) == [i \in Latest |-> Older(ages[i])]

\* _prune_window keeps what happened less than a window ago, so the list is n
\* long or longer when the n-th latest entry is that young.
AtLeast(n, ages) == ages[n] < Window

NoAttempts == [up |-> TRUE, attempts |-> Never, open |-> FALSE, since |-> Window]
DownMem == [NoAttempts EXCEPT !.up = FALSE]
NoCall == [at |-> "idle", restarted |-> FALSE, tries |-> 0]

Init ==
  /\ mem = [p \in Procs |-> DownMem]
  /\ op = [p \in Procs |-> NoCall]
  /\ file = [open |-> FALSE, since |-> Window, by |-> Daemon]
  /\ restarts = [p \in Procs |-> Never]

Idle(p) == mem[p].up /\ op[p].at = "idle"
Save(p, m) == file' = [open |-> m.open, since |-> m.since, by |-> p]

\* "totalray build" exits after its one apply.
Returned(p) == [NoCall EXCEPT !.at = IF p = Daemon THEN "idle" ELSE "done"]
Return(p) == op' = [op EXCEPT ![p] = Returned(p)]

-----------------------------------------------------------------------------
\* _load_state: a breaker whose window has elapsed is closed; the attempts of
\* the last incarnation are not in the file.
Loaded ==
  [NoAttempts EXCEPT !.open = file.open /\ file.since < Window, !.since = file.since]

Start(p) ==
  /\ ~mem[p].up
  /\ mem' = [mem EXCEPT ![p] = Loaded]
  /\ UNCHANGED <<op, file, restarts>>

\* A process ends, or dies wherever it is.
Dies(p) ==
  /\ mem[p].up
  /\ mem' = [mem EXCEPT ![p] = DownMem]
  /\ op' = [op EXCEPT ![p] = NoCall]
  /\ restarts' = [restarts EXCEPT ![p] = Never]
  /\ UNCHANGED file

\* Mutant: a refused apply starts the pause anew.
RefusedRestartsPause(p) ==
  /\ Idle(p)
  /\ mem[p].open /\ mem[p].since < Window
  /\ mem' = [mem EXCEPT ![p].since = 0]
  /\ Return(p)
  /\ UNCHANGED <<file, restarts>>

\* _apply_locked while the breaker is open: nothing reaches the builder.
Refused(p) ==
  /\ Idle(p)
  /\ mem[p].open /\ mem[p].since < Window
  /\ Return(p)
  /\ UNCHANGED <<mem, file, restarts>>

\* ... and otherwise: an elapsed pause is over, in memory only.
Accepted(p) ==
  /\ Idle(p)
  /\ ~mem[p].open \/ mem[p].since = Window
  /\ mem' = [mem EXCEPT ![p].open = FALSE]
  /\ op' = [op EXCEPT ![p].at = "building"]
  /\ UNCHANGED <<file, restarts>>

\* The builder stops and starts the core.
RestartCore(p) ==
  /\ op[p].at = "building" /\ ~op[p].restarted
  /\ op' = [op EXCEPT ![p].restarted = TRUE]
  /\ restarts' = [restarts EXCEPT ![p] = Now(@)]
  /\ UNCHANGED <<mem, file>>

\* Mutant: the breaker opens one attempt late.
AttemptedOneMore(m) ==
  LET attempts == Now(m.attempts)
      full == AtLeast(MaxRestarts + 1, attempts)
  IN [m EXCEPT !.attempts = attempts, !.open = full \/ @,
               !.since = IF full THEN 0 ELSE @]

\* _record_attempt: the breaker opens, or opens anew.
Attempted(m) ==
  LET attempts == Now(m.attempts)
      full == AtLeast(MaxRestarts, attempts)
  IN [m EXCEPT !.attempts = attempts, !.open = full \/ @,
               !.since = IF full THEN 0 ELSE @]

\* Mutant: the attempt is not saved.
RecordUnsaved(p) ==
  /\ mem' = [mem EXCEPT ![p] = Attempted(@)]
  /\ UNCHANGED file

Record(p) ==
  /\ mem' = [mem EXCEPT ![p] = Attempted(@)]
  /\ Save(p, mem'[p])

\* A switch, or a live reconcile: "(no restart)" is not an attempt.
AppliedLive(p) ==
  /\ op[p].at = "building" /\ ~op[p].restarted
  /\ Return(p)
  /\ UNCHANGED <<mem, file, restarts>>

\* Anything else is one: a restart that failed, an exception, and a config
\* that sing-box check rejected, although then nothing was restarted.
Failed(p) ==
  /\ op[p].at = "building"
  /\ Record(p)
  /\ Return(p)
  /\ UNCHANGED restarts

Restarted(p) ==
  /\ op[p].at = "building" /\ op[p].restarted
  /\ Record(p)
  /\ op' = [op EXCEPT ![p].at = "checking", ![p].tries = HealthRetries]
  /\ UNCHANGED restarts

\* _health_check, with the lock still held.
Healthy(p) ==
  /\ op[p].at = "checking" /\ op[p].tries > 0
  /\ Return(p)
  /\ UNCHANGED <<mem, file, restarts>>

\* Mutant: the check is repeated until the API answers.
ProbeAgain(p) ==
  /\ op[p].at = "checking" /\ op[p].tries > 0
  /\ op' = [op EXCEPT ![p].tries = IF @ > 1 THEN @ - 1 ELSE HealthRetries]
  /\ UNCHANGED <<mem, file, restarts>>

ProbeFails(p) ==
  /\ op[p].at = "checking" /\ op[p].tries > 0
  /\ op' = [op EXCEPT ![p].tries = @ - 1]
  /\ UNCHANGED <<mem, file, restarts>>

\* The one restart becomes a second attempt.
Unhealthy(p) ==
  /\ op[p].at = "checking" /\ op[p].tries = 0
  /\ Record(p)
  /\ Return(p)
  /\ UNCHANGED restarts

\* refill_live_pool: under the lock, but neither gated nor recorded.
Refill(p) ==
  /\ p = Daemon /\ Idle(p)
  /\ op' = [op EXCEPT ![p].at = "refilling"]
  /\ UNCHANGED <<mem, file, restarts>>

Refilled(p) ==
  /\ op[p].at = "refilling"
  /\ Return(p)
  /\ UNCHANGED <<mem, file, restarts>>

\* reset_circuit, for an operator's use; no command calls it yet.
ResetCircuit(p) ==
  /\ p = Daemon /\ Idle(p)
  /\ mem' = [mem EXCEPT ![p] = NoAttempts]
  /\ Save(p, NoAttempts)
  /\ restarts' = [restarts EXCEPT ![p] = Never]
  /\ UNCHANGED op

Tick ==
  /\ mem' = [p \in Procs |-> [mem[p] EXCEPT !.attempts = Aged(@), !.since = Older(@)]]
  /\ file' = [file EXCEPT !.since = Older(@)]
  /\ restarts' = [p \in Procs |-> Aged(restarts[p])]
  /\ UNCHANGED op

\* What a call that holds the lock does next.
Step(p) ==
  \/ RestartCore(p) \/ AppliedLive(p) \/ Failed(p) \/ Restarted(p)
  \/ Healthy(p) \/ ProbeFails(p) \/ Unhealthy(p) \/ Refilled(p)

Next ==
  \/ \E p \in Procs :
       \/ Start(p) \/ Dies(p) \/ Refused(p) \/ Accepted(p)
       \/ Refill(p) \/ ResetCircuit(p) \/ Step(p)
  \/ Tick

\* Time passes, and a call goes on: every command and request of the builder
\* and the health check has a timeout.  Nothing is assumed of the callers.
Spec == Init /\ [][Next]_vars /\ WF_vars(Tick) /\ \A p \in Procs : WF_vars(Step(p))

-----------------------------------------------------------------------------
(* Properties.                                                              *)

Ages == 0..Window

\* The type invariant.  The window holds at most one attempt more than the
\* limit: a failed health check records a second one (coordinator.py:202).
TypeOK ==
  /\ \A p \in Procs :
       /\ mem[p].up \in BOOLEAN /\ mem[p].open \in BOOLEAN /\ mem[p].since \in Ages
       /\ mem[p].attempts \in [Latest -> Ages] /\ restarts[p] \in [Latest -> Ages]
       /\ ~AtLeast(MaxRestarts + 2, mem[p].attempts)
       /\ op[p].at \in {"idle", "building", "checking", "refilling", "done"}
       /\ op[p].restarted \in BOOLEAN /\ op[p].tries \in 0..HealthRetries
  /\ file.open \in BOOLEAN /\ file.since \in Ages /\ file.by \in Procs

\* "Circuit breaker prevents infinite restart loops" (coordinator.py:7): no
\* incarnation of a process restarts the core more than max_restarts_per_window
\* times within any window, although a pause that ends starts with an empty
\* window, an attempt is recorded some time after its restart, and the health
\* check takes time before it records one more.
RestartsBounded == \A p \in Procs : ~AtLeast(MaxRestarts + 1, restarts[p])

Pausing(m) == m.open /\ m.since < Window

\* apply_state.json pauses as the process that saved it last pauses, so a
\* daemon that dies at any moment comes back paused for the rest of the
\* window (coordinator.py:266-271), unless "totalray build" wrote in between.
FileTellsPause ==
  \A p \in Procs : mem[p].up /\ file.by = p => (Pausing(file) <=> Pausing(mem[p]))

\* A pause comes to an end, however often applies are refused meanwhile and
\* the daemon restarts.
DaemonPausing == IF mem[Daemon].up THEN Pausing(mem[Daemon]) ELSE Pausing(file)
PausesEnd == DaemonPausing ~> ~DaemonPausing

\* Every call gives the lock back: the health check is "bounded: at most
\* retries * (delay + timeout)" (coordinator.py:37).
Busy(p) == op[p].at \in {"building", "checking", "refilling"}
CallsReturn == \A p \in Procs : Busy(p) ~> ~Busy(p)
==============================================================================
