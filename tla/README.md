# TotalRay in TLA+

TotalRay keeps a gateway on working proxy servers: it imports share links from
subscriptions, tests them, keeps the ones that pass in a verified pool, and
applies that pool to a sing-box instance embedded in a small Go daemon. This
directory models the parts of it that are hard to test: rounds of tests that
overlap, changes applied to a running core one request at a time, a monitor
that switches servers on passive signals, breakers that pause and resume,
updates that patch the process's sockets, and a server that shuts down under
its clients. TLC
checks the modules on small instances; TLAPS proves theorems about them for
every value of their constants.

Paths below are relative to `src/`; `db.py` stands for `totalray/db.py`, and
so on for the other Python files.

## 1. Inventory

| Component | State it keeps | Operations | What makes it correct |
|---|---|---|---|
| Config store (`db.py`) | `configs` (pool, score, last_delay, removed), two pool generations, `test_rounds`, logs, traffic | `sync_configs`, `record_pool_a/b_results`, `start/finish_test_round`, `prune`, readers | score, pool, removal and last measurement agree; a result is applied only to the membership it was measured for; generations move with membership |
| Test rounds, scheduling (`scheduler.py`) | job threads, one snapshot per round, running totals | pool-A, pool-B, subscription, rule-set, retention jobs, bootstrap | one round per pool; its tally and its ledger agree; every exit closes the round (it does not: section 5); late results harm nobody |
| Round status (`round_state.py`) | `round_status.json` | `start`, `progress`, `finish`, `skip`, `recover` | "running" only while a round runs |
| Connectivity tester (`tester.py`) | one temporary sing-box process per chunk | `test_all`, `_run_chunk`, `_find_valid_items`, `measure` | each result is the config's own; a malformed config costs no other one its test |
| Live apply (`builder.py`) | `config.json`, `live_config.json`, `last_group_tags.json` | `rebuild_and_apply`, `refill_live_pool`, `set_active_config`, `restart_singbox` | the files and the core agree after success; churn restarts nothing; something stays selectable |
| Reconciliation (`standby_pool.py`, `singbox_core.py`) | none (plans are computed) | `reconcile` over a control socket | requests in an order the core accepts |
| Apply coordinator (`coordinator.py`) | attempts in the window, breaker, `apply_state.json` | `apply`, `refill_live_pool`, `reset_circuit` | applies are exclusive; bounded restarts per window |
| Live monitor (`live_monitor.py`) | last degraded tag, thread | `_monitor_loop`, `_do_failover` | acts only on degradation, beside the applies |
| Failover controller (`failover.py`) | last switch and target, failures, breaker | `attempt`, `reset_circuit` | cooldown; breaker after repeated failures |
| Health signal (`health_signal.py`) | windows of samples, bad-sample count | `observe_*`, `snapshot` | hysteresis: one bad sample is not degradation |
| Standby probe (`standby_probe.py`) | last result per tag | `probe`, `ready` | ready means recently successful |
| Embedded core (`cmd/singbox-core/internal/core`) | the Box, two locks | `Start`, `Stop`, `AddOutbound`, `RemoveOutbound` | lifecycle serialized; a request never mixes two Boxes |
| Control server (`cmd/singbox-core/internal/control`, `main.go`) | connections, listener | `Serve`, `Close`, dispatch | in-flight requests finish before the socket goes |
| Subscriptions (`subfetch.py`, `parsers.py`, `http_client.py`) | last status of each subscription | fetch, parse, `update_all` | one dead subscription hides no other; summary and table agree |
| Network and traffic (`net.py`, `traffic.py`) | the process's socket functions, kernel counters | `bypass_tun`, `internet_up`, sample | the patch ends with its last user, and not before (it may: `Updates`) |
| Rule sets, settings (`rulesets.py`, `settings.py`) | `<name>.srs` files | download, read | a complete file is never replaced by a part of one |
| Command line (`main.py`) | none | `test-a`, `test-b`, `build`, reports | does not disturb the daemon |
| Deployment (`scripts/`, `systemd/`, `dnsmasq/`) | unit files | install, update | - |

How they interact. The scheduler's job threads share the store (one lock per
process) and write `round_status.json`. A round reads a snapshot, measures for
minutes or hours without a lock, and commits. After a commit it calls the
coordinator, which holds a lock while the builder writes files, sends requests
to the core over a Unix socket and selects a member over the Clash API. The
live monitor polls the Clash API in its own thread; when it switches it calls
`set_active_config` without that lock, then asks the coordinator for a refill.
Rounds hand their results to the pools through the callback `on_chunk`.

Bootstrap and two jobs fetch past the tunnel by swapping the process's socket
functions. `totalray build` is a second process with a coordinator and a state
file in common with the daemon.

What is hard: snapshots that are old when used, chunks committed one by one,
three threads that run rounds and two that touch the core, processes that die
separately, requests that time out after they took effect, four places that
must agree on what the core serves, evidence that two threads judge and count
without a lock, pauses that must end but not early, and a socket patch that is
global while its users overlap. `PROJECT.json` lists the hazards at
their lines, each with the properties that cover it or the reason none does.

## 2. Modules

| Module | Models | Kind |
|---|---|---|
| `PoolStore` | the pools of `db.py`: rows, generations, `test_rounds`, and the transactions on them | operators on shared variables |
| `PoolRounds` | the rounds of `scheduler.py` over `PoolStore`, `round_status.json`, import, retention, restart | specification, EXTENDS `PoolStore` |
| `ConfigLife` | what the pools promise of one config, without rounds | abstract specification |
| `TesterPorts` | `GroupTester`: chunks, bisection, one process per chunk, ports | specification |
| `LiveApply` | applying pool B to the running core, request by request | specification |
| `ApplyCoordinator` | the gate in front of every apply: window, breaker, health check, state file, restarts | specification with fairness |
| `HealthSignal` | `DegradationDetector` | operators on a signal record |
| `Failover` | `FailoverController` | operators on the controller's record, EXTENDS `HealthSignal` |
| `LiveMonitor` | the monitor loop, the standby probes, the journal thread | specification with fairness, EXTENDS `Failover` |
| `Updates` | the subscription and rule-set updates and `bypass_tun` | specification with fairness |
| `ControlServer` | the Go process: control socket, handlers, `Core`'s locks, shutdown | specification with fairness |
| `MC...` | one per specification | instances for TLC |
| `MCCooldown` | `LiveMonitor` with an observer of the switches that were done | instance for TLC |
| `PoolRoundsProofs`, `TesterPortsProofs`, `LiveApplyProofs`, `ApplyCoordinatorProofs`, `LiveMonitorProofs`, `UpdatesProofs`, `ControlServerProofs` | the theorems about each specification (section 4) | proofs, each EXTENDS its specification |

Operators whose comment says "a mutant" are not part of a specification: each
is a version of the definition that follows it with a plausible mistake, and
TLC finds the property named in `PROJECT.json` violated when it is used.

### PoolStore and PoolRounds

| Code | Model |
|---|---|
| a row of `configs` | `configs[c] = [state, pool, score, lastDelay]`; a delay is `fast` (at most `ping_threshold_ms`), `slow` or `dead` (-1) |
| `state_meta.pool_<p>_generation` | `generation[p]` |
| the round's row of `test_rounds` | `testRounds[w]` |
| `round_status.json`, field `state` | `status[p]` |
| a job thread, and bootstrap on the main thread | `w \in Workers`, with `worker[w]`: where it stands, its snapshot's generation, what is left to measure, the measured batch and the generation it will be validated against, its totals |
| `_apply_score`, `_record_round` | `Outcome`, `Scored`, `Tally`, `ChangedPools`, `RecordRound` |
| the guard of `job_test_pool_*`, the round, each return and `except` | `TickSkipped`, `TickAccepted`, `InternetDown`, `TakeSnapshot`, `StartEmptyRound`, `StartRound`, `Measure`, `Commit`, `FinishRound`, `RoundAFails`, `CommitBFails` |
| an exception that no handler of the round meets, or that a handler raises itself | `RoundAbandoned`: the job logs it, and the status stays as it is |
| `job_update_subs`, `job_prune_db`, death and restart of the daemon | `Import`, `Prune`, `Restart` |

A transaction of the store is one step (it holds the store's lock). Reading
the generation for a chunk happens in `Measure` and the commit in `Commit`,
because the code does them in two transactions. `moved` is a history variable:
what has left its pool since the worker's snapshot.

Two statements are weaker than one would like, because the code is.
`TalliesAgree` has the aggregate of the scheduler and the row of `test_rounds`
agree in ok, failed and stale, and says by how much their totals differ: the
row opens with the number of candidates (`scheduler.py:207`), and each commit
adds its batch to that again (`db.py:396`), until `finish_test_round` writes
the aggregate's. `OnlyAbandonedLeaveRunning` is not that "running" means a
round: in both pools `finish_test_round` can raise before `round_state.finish`,
on success and in the handler, and the set-up of the tester, the tester of pool
B and the apply after its commit stand in no `try`. It says that nothing but
those exits leaves the status "running" without a round (no refused tick, empty
round or restart does, whatever other rounds of the pool run) and that the
pool's next step of any worker, the tick that is lost to it, clears it.

`ConfigLife` knows only stages (new, candidate, verified, removed, gone) and
strikes. The refinement mapping takes a row's stage from `state` and `pool`
and its strikes from the negated score; everything else is invisible.

### TesterPorts

| Code | Model |
|---|---|
| the rounds testing at the same time, each in a thread of its own | `Rounds`; `at[r]` is where its `test_all` stands |
| `candidates[start:]` of `test_all` | `todo[r]`, of which `Chunk(r)` is the head |
| the lists that calls of `_find_valid_items` have yet to check, the next one first | `batches[r]` |
| `items` of `_run_chunk`, as far as it is known | `items[r]` |
| the temporary sing-box process, the results | `proc[r]`, `results[r]` |
| `test_all`, `_run_chunk`, `measure`, `on_chunk` | `Begin`, `TakeChunk` (the check of the whole chunk), `Popen`, `PortsWaited`, `Measure`, `Terminate`, `Publish`, `Return`; `Raise` for every exception |
| a call of `_find_valid_items`; the end of the outermost | `FindValidItems`, `Bisected` |

The recursion of `_find_valid_items` is its stack of pending lists: a call
accepts a list, drops a single config or puts the two halves in its place, and
what the calls return is appended in the order in which they return it. So
each `sing-box check` is a step of its own, as it is in the code, where other
rounds run between two checks. `Reaches(port)` is the config whose outbound
really answers on a port. Which configs are malformed is chosen in the initial
state. A process that cannot bind exits. `PoolRounds` takes the outcome of a
measurement to be any; here the question is whose outcome it is.

### LiveApply

| Code | Model |
|---|---|
| `config.json`, `live_config.json`, `last_group_tags.json` | `disk`, `live`, `lastTags` |
| the Box: outbounds, `auto`, `select`, the selected member | `core` |
| the apply or refill that holds the coordinator's lock | `job`, with the requests still to send in `job.plan` |
| the tag the monitor left, whose slot waits for a refill | `degraded` |
| fast path, build and check, parking, each control request, restart, saves, selection | `Switch`, `Build`, `Park`, `Request` and `Reconciled`, `RestartCore`, `SaveLive`, `SaveTags`, `Select` (with the coordinator's health check) |
| `_do_failover` of the monitor, systemd's restart, death of the daemon | `Failover`, `CoreBounces`, `DaemonCrashes` |

A built config is determined by the ordered group of servers, and stands for
it. The core and the Clash API are not in the repository's Python code; they
do what the code and `SINGBOX_CORE_EMBED_PLAN.md` rely on: a group's members
are fixed when it is added, a removal is refused for an unknown tag and while a
group depends on the outbound. `Disturbances` says what may go wrong: a
rejected config, a failing Clash request, a control request that fails or
takes effect and times out, a start that fails or is not seen, the death of
either process, and the monitor. The state files are taken to be writable, and
only the embedded core is modelled, not the legacy SIGHUP reload.

### ApplyCoordinator

| Code | Model |
|---|---|
| `_restart_timestamps`, `_circuit_open`, `_circuit_open_at` of a process | `mem[p]`; an instant is kept as its age in ticks, which stops at the window's length, and a list of instants as a function from 1, the latest, on |
| the call that holds the process's lock, and where it stands | `op[p]` |
| `apply_state.json` | `file` |
| the branches of `_apply_locked` | `Refused`, `Accepted`, then `AppliedLive`, `Failed`, or `RestartCore`, `Restarted` and the health check (`Healthy`, `ProbeFails`, `Unhealthy`) |
| `_record_attempt`, `_prune_window`, `_save_state`, `_load_state` | `Attempted` and `Record`, `AtLeast`, `Save`, `Loaded` |
| `refill_live_pool`, `reset_circuit` | `Refill` and `Refilled`, `ResetCircuit` |
| death and start of the daemon, and of a `totalray build` | `Dies`, `Start` |

`restarts` is history: the ages of the restarts each incarnation made. The
recorded attempts are something else: a failed health check records a second
attempt for one restart, a config that `sing-box check` rejects records one
for none, and a restart is recorded some time after it was made.
`RestartsBounded` holds although the comment at `coordinator.py:167` ("allow
one attempt") does not describe what half-open does: the list of attempts is
empty by then, so up to `max_restarts_per_window` attempts follow. The comment
at 175 says that only the restart is gated; in fact `Refused` comes before the
builder, so an open breaker pauses selector-only switches too.

### HealthSignal, Failover and LiveMonitor

| Code | Model |
|---|---|
| `DegradationDetector`: windows, `_bad_samples`, `_active_tag` | `signal` |
| `FailoverController`: last switch and target, failures, breaker | `ctl` |
| `StandbyProbe._results` | `good[tag]`, the age of a last probe that succeeded |
| the loop's thread: phase, polled tag, standbys left to probe, decision | `loop` |
| the journal thread, before or after its judgement | `journal` |
| the member selected in the core | `active`, which applies change too (`Reselected`) |
| a pass of `_monitor_loop` | `Poll`, `Sample`, `Probe`, `Check`, then `Refused` or `Decide`, `DoFailover`, `Record`; `LoopFails` for its exceptions |
| `_write_status`, `observe_log_line` | `WriteStatus`, `JournalLine` and `JournalCounts` |

Of the error window the model keeps the newest `ErrorThreshold` entries, and of
the retransmits the newest that reached its threshold, which is all that
`_evaluate` tells apart. What `_evaluate` counts is judgements, not samples: a
log line, a status write and each pass judge the same evidence again, so one
burst inside the window can reach `hysteresis_samples` by being looked at.
`HysteresisHolds` therefore speaks of judgements; its "less one" is the
judgement of the old server that the journal thread counts after the change.

The controller is given its switch. `failover.py:10` declares one that returns
`(ok, message)`, and its tests pass such a one; `LiveMonitor._do_failover`
returns a bool, and unpacking it raises after the switch took effect.
`Switches` says which kinds occur: the run `live_monitor` has both, in any
mixture, and besides the exception that the status write inside the switch may
raise (`live_monitor.py:358`, if the journal thread appends to the deque it
sums); the run `cooldown` has the bool only, as it is shipped. What the policy
of `failover.py` still promises is said of the switches that answer with a
pair: `answered` keeps the ages of their decisions, and `AnsweredBounded`
bounds them in every failure window, however many others are lost in between.
Of the lost ones nothing can be promised: nothing of them is recorded, and
`MCCooldown`, which remembers the last switch done, finds the next one decided
within its cooldown. In the shipped daemon all are lost, so there the cooldown
and the breaker guard nothing; only hysteresis does. With `shadow_mode`, the
default, the monitor only recommends.

### Updates

| Code | Model |
|---|---|
| bootstrap's thread and the two jobs' | `thread`: job, step, what is left, summary |
| `socket.socket`, `socket.getaddrinfo` | `sockets`, `resolver` |
| `_subscription_lock`, `round_status.json`, `subscriptions.last_status` | `lock`, `status`, `told` |
| `<name>.srs.tmp` and `<name>.srs` | `tmp`, `dest`: none, part or whole |
| `bypass_tun` | `EnterBypass`, `Entered`, `LeaveBypass`, `Left`: two assignments on either side |
| `fetch_subscription`, the loop of `update_all` | `Direct`, `Proxied`, `NextSub`, `Store`, `StatusError` |
| `update_rulesets` | `NextRule`, `Download`, `Write`, `Replace`, `Missed` |
| the jobs | `SkipSubs`, `BeginSubs`, `FinishSubs`, `Release`, `BeginRules`, `FinishRules` |
| the daemon dies and starts | `Restart` |

A text fetched, and what it holds, is `Import` of `PoolRounds`.
What is modelled of `bypass_tun` is which functions the process has, and not
the way a packet takes. Inside an intact bypass a request may still go through
the tunnel, against `rulesets.py:42` ("this box own traffic must never depend
on the tunnel it is itself building"): the mark is set on a best-effort basis
(`net.py:136-139`), a name whose direct query fails is asked of the real
resolver (`net.py:144-149`), and the session that all requests share keeps
connections alive that were opened without a mark (`http_client.py:104-110`).

`overlapped` is history: another thread left `bypass_tun` while this one was
inside. From then on the process's functions are the real ones again under a
fetch that goes on. `PatchedUnlessOverlapped` states that a fetch has both
patched functions from its first request to its last in every other case.

### ControlServer

| Code | Model |
|---|---|
| `main` from serving to exit | `main` |
| `Serve` between `Accept` and `wg.Add` | `serve` |
| a connection, its client, its count in `Server.wg` | `conn`, `open`, `group` |
| the `Core` operation a handler or `main` is in | `task` |
| `lifecycleMu`, `instance`, the Box objects | `holder`, `instance`, `box` |
| `Start`, `Stop`, `AddOutbound`/`RemoveOutbound`, `IsRunning` | `StartLocks`, `StartsBox`, `Publishes`; `StopLocks`, `ClosesBox`; `Picks`, `Answers`; `Answers` |
| `Close` and what `main` does after it | `Shutdown`, `CloseListener`, `CloseReturns`, `StopIfRunning`, `Exit` |

`server.go:121` says that `Close` "waits for in-flight ones to finish". One
connection escapes it: `Serve` calls `wg.Add` after `Accept` returned, so a
connection accepted just before the listener closed may be counted after
`Wait` returned. `late` remembers that case; a request of that connection may
start a Box after `main` looked, and the process ends with it.

## 3. Runs

| Run | Instance | Shows |
|---|---|---|
| `pool_rounds` | 2 configs; the pool-A and pool-B jobs and bootstrap's pool-A round; chunks of 1, removal at -3, grace 1, measurements fast or dead, generations up to 2 | type invariant; `ScoreMatchesPool`, `ScoreMatchesLastTest`, `TalliesAgree`, `OnlyAbandonedLeaveRunning`, `GenerationTracksMembership`, `SnapshotCommitsFresh`, `MembersLeaveByOwnRound`; each config lives `ConfigLife` |
| `tester` | one round, up to 5 candidates, chunks of 3, any malformed | `BisectionKeepsValid`, `PublishedInFull`, `MeasuredThroughItself`; liveness: `BisectionEnds` |
| `live_churn` | 3 servers, groups of 2; configs rejected, monitor acting | `ChurnRestartsNothing`, `StandbyStaysSelectable` |
| `live_faults` | 2 servers, groups of 2, every disturbance | `RemovesNoDependency`, `SuccessKeepsSync` |
| `apply_coordinator` | the daemon and a `totalray build`; 3 attempts in a window of 3 ticks, 2 health probes | `RestartsBounded`, `FileTellsPause`; liveness: `PausesEnd`, `CallsReturn` |
| `live_monitor` | 2 servers; 1 error and 2 judgements for degradation, windows of 1 and 2 ticks, cooldown 2, 2 failures; switches that answer with a pair, with a bool or not at all | `AnsweredBounded`, `HysteresisHolds`; liveness: `DegradationAnswered` |
| `updates` | 2 subscriptions, 1 rule set with 2 mirrors, 2 attempts per route | `PatchUndone`, `PatchedUnlessOverlapped`, `SummaryAgrees`, `RunningHasThread`, `RuleSetsKept`; liveness: `UpdatesEnd` |
| `control_server` | 2 connections, 4 Box identities | `OneBox`, `OneLateConnection`, `NoBoxLeft`; liveness: `ShutdownEnds` |

Each of them checks its specification's type invariant too, `live_faults`
excepted. Deadlock is checked everywhere but in `control_server`, whose process
exits.

Four more runs are expected to find a violation; each is a disagreement
between the code and its documents, quoted under "findings" in `PROJECT.json`.

| Run | Property | What happens |
|---|---|---|
| `port_clash` | `MeasuredThroughItself` | Both pools' rounds start their test process on the same `base_port`. The second cannot bind, but its ports answer, so it measures the other round's configs. The architecture plan (line 354) says they may run together. |
| `stale_chunk` | `ResultsFresh` | Later chunks are validated against the generation of the moment: a config that left pool A and came back during the round is scored with the old measurement. Needs two overlapping pool-A rounds. |
| `lost_selector` | `SuccessRestoresStandby` | A refill fails after it removed `select` and `auto`. The next apply of the unchanged pool compares the believed config with an equal one, sends no request and reports success; the core stays without a selector. |
| `cooldown` | `CooldownKept` | The switch returns a bool where the controller unpacks a pair: it takes effect, TypeError is logged, and nothing is recorded, so the next switch is decided within the cooldown of the last. |

### Why the bounds are enough

- Two configs are needed for a chunk that commits while another config is
  still being measured, and for one config to move while the other does not.
  Three workers are all there are in one process (`max_instances=1`, and
  bootstrap). Removal at -3 and grace 1 keep removal, demotion and an ordinary
  failure apart; with a grace of 1 the first failure in pool B demotes, so the
  outcome `grace`, of the code's default of 2, is in the theorems only. A slow answer takes every branch of `_apply_score` that a
  missing one takes, so the instance measures fast or dead; the theorems hold
  for slow ones too.
- `MaxGeneration` is the one cap on the unbounded counters: past it no round
  starts and nothing is imported, rounds under way still end. A config must
  leave a pool and come back during a round for the stale cases: this takes
  generation 3 with two pool-A rounds, which `stale_chunk` reaches. The
  theorems need no cap: they hold for every `MaxGeneration`.
- Five candidates in chunks of three give a full and a short chunk, and odd and
  even halves in the bisection.
- Three servers with groups of two give truncation, partial and disjoint
  turnover (`<<a>>` to `<<b>>`), reordering and the empty group (`direct`).
  `live_faults` has two servers because all disturbances together multiply the
  states; turnover of every kind is still there, truncation is not.
- Ages stop at the length of the window they are compared with, so time needs
  no cap: the runs of `ApplyCoordinator` and `LiveMonitor` are complete for
  their windows. Three attempts per window of three ticks let attempts of one
  window expire one by one, and let the double record of a failed health check
  fall before, at and after the limit. A cooldown as long as the failure window
  lets a failed promotion, a failed switch and a cooldown overlap;
  `AnsweredBounded` is tight there: one less, and TLC finds a counterexample.
- Two subscriptions make one that fails and one that does not; three threads
  and one rule set are enough for every overlap of two bypasses, which is what
  `overlapped` tells apart. A process runs at most three.
- Two connections are a Start against a Stop, or either against the shutdown; a
  third adds no new pair (checked once, with the same result, and left out for
  its running time). Four Box identities are one more than can be referred to.

### Fairness

`PoolRounds` and `LiveApply` assume none: their properties are safety
properties. The others assume that what has begun goes on:

- `TesterPorts`: weak fairness of a round's bisection, since a `sing-box check`
  is given 60 s (`tester.py:122`) and then raises. Nothing is assumed of the
  rest of a round.
- `ApplyCoordinator`: weak fairness of time, and of a call that holds the
  lock, since each command, request and probe of an apply has a timeout
  (`coordinator.py:37`, `builder.py`, `singbox_core.py:20`). Callers may
  stay away for ever.
- `LiveMonitor`: weak fairness of the loop, whose requests have timeouts and
  which catches every exception (`live_monitor.py:412`), and of time. Nothing
  is assumed of the journal thread, of evidence, or of applies.
- `Updates`: weak fairness of a thread in the middle of its job. Attempts and
  mirrors are finite, and each request is assumed to end: its timeout (20 s and
  60 s) is one of connecting and of each read, so a server that sends a byte
  now and then could hold a fetch for ever. `UpdatesEnd` does not cover that.
  Jobs need not begin.
- `ControlServer`: weak fairness of goroutines that can run; strong fairness of
  taking `lifecycleMu`, since Go's `sync.Mutex` hands itself to a waiter that
  starves; weak fairness of clients hanging up, since the only client closes
  its socket after each request, or after 5 s (`singbox_core.py:20`). Without
  the last, `Close` waits for ever: the server has no read deadline.

## 4. Proofs

Every safety property that a passing run checks is also proved, for every
value of the constants. What is assumed of the constants are the named
assumptions of the specifications: limits, windows and sizes are natural
numbers, positive where zero would switch the feature off (the removal
threshold is a negative score), model values are
told apart, sets that are counted are finite. Nothing else is assumed unless
the theorem states it as a hypothesis; there are two such hypotheses, `Alone` and `Calm`.

Most invariants are not inductive as they stand. Each proof module begins with
the strengthening, `IInv` or an invariant of the same form, which TLC checked
on the instance of the specification's run before it was proved: an invariant
of a run that a step breaks is found there in seconds. Then come lemmas about
the operators (lists of ages, sequences, plans, the sums), one lemma for each
action, and the theorems. A temporal theorem is the invariant and PTL.

`PoolRoundsProofs`, for any finite set of configs and workers, any thresholds,
chunk size, cap and set of delays:

| Theorem | Statement | Argument |
|---|---|---|
| `TypeCorrect` | `Spec => []TypeOK` | one lemma per store transaction, one step per action |
| `ScoresConsistent`, `ScoresTellLastTest` | `Spec => [](ScoreMatchesPool /\ ScoreMatchesLastTest)` | `RowsConsistent`, the conjunction of both for each row, is inductive: neither alone is, since whether a failing row leaves its pool depends on its score and what it had measured before |
| `GenerationsTrack` | `Spec => GenerationTracksMembership` | a commit moves a generation exactly when some outcome changes that pool |
| `SnapshotCommitsAreFresh` | `Spec => SnapshotCommitsFresh` | `FreshInv`: while a round's snapshot generation equals the pool's, nothing it still has to score has moved, and what has not moved is still a member. Freshness at commit alone is not inductive, because it says nothing before the commit |
| `RefinesConfigLife` | `Spec => LivesTheLife` | initial states map to initial states, each step to a `ConfigLife` step or a stutter; needs `Untouched`: a row not imported yet has score 0 |
| `TalliesAlwaysAgree` | `Spec => []TalliesAgree` | `TallyInv` relates each worker's running totals to its row of the ledger while it tests, makes its totals differ by the candidates, and makes the aggregate zero before: a commit adds the same to both only if they agreed. The lemma behind it: the three kinds of outcome partition a batch |
| `LeftRunningByAbandoned` | `Spec => OnlyAbandonedLeaveRunning` | action by action: who ends a round closes the status unless abandoned (`StepCloses`), what does not touch a pool's workers and status leaves it as it is (`UntouchedPool`), and every step of `Next` does one or the other (`NextLeft`) |
| `OwnRoundsOnly` | `Spec => MembersLeaveByOwnRound` | who can take a member out of a pool, action by action |

`TesterPortsProofs`, for any lists of candidates without repetition, any chunk
size and any malformed configs:

| Theorem | Statement | Argument |
|---|---|---|
| `TypeCorrect` | `Spec => []TypeOK` | the bound on the listeners needs the next theorem: what was kept is part of a chunk, and no config twice |
| `BisectionExact` | `Spec => []BisectionKeepsValid` | `Bisecting`: the lists still to check are disjoint, share nothing with what was kept, lie in the chunk, and together with it hold every valid config; halving a list keeps all of this. With no list left it is the property |
| `ChunksInFull` | `Spec => []PublishedInFull` | results are set up for the whole chunk before it is bisected |
| `AloneMeasuredThroughItself` | `Alone => (Spec => []MeasuredThroughItself)` | a process is up only while its round waits or measures, and then listens for what the round measures. `Alone`: there is one round. With two the property is false: run `port_clash` |

`LiveApplyProofs`, for any servers, group size and disturbances:

| Theorem | Statement | Argument |
|---|---|---|
| `TypeCorrect` | `Spec => []TypeOK` | no group is longer than `GroupSize` |
| `RemovalsOrdered` | `Spec => []RemovesNoDependency` | a plan's requests come in six stages (`Ordered`), and until the request that adds the new `auto` has been sent, no leaf goes (`DependencyInv`). What a disturbance does to the core in between leaves both alone |
| `SuccessAgrees` | `Spec => SuccessKeepsSync` | `SyncInv`: while a job that began in agreement goes undisturbed, the requests still unsent lead from the core as it is to the group as built (`Leads`); `JobInv` adds what each path has written so far |
| `ChurnIsLive` | `Calm => (Spec => []ChurnRestartsNothing)` | `CalmInv`: the core refuses none of the unsent requests (`Removable`) and everything agrees between jobs, so no apply falls back |
| `StandbyKept` | `Calm => (Spec => []StandbyStaysSelectable)` | the same |

`Calm` says that neither a Clash nor a control request fails, the core starts,
and neither process dies; rejected configs and the monitor's switches remain.
It is what `live_churn` assumes. Without it the properties are false: a failed
request makes the code fall back to a restart, and a refill that fails half-way
leaves no selector (run `lost_selector`).

`ApplyCoordinatorProofs`, for any processes, limit, window and retries:

| Theorem | Statement | Argument |
|---|---|---|
| `TypeCorrect` | `Spec => []TypeOK` | the list of attempts needs room for two more than the limit, which is a bound on attempts |
| `BreakerBounds` | `Spec => []RestartsBounded` | `Recorded`: the i-th latest attempt is no older than the i-th latest restart, shifted by one while a restart is not recorded yet. `Breaker`: while closed the window is not full; once open, what happened since it opened does not fill it. `Room`: a call that was let in has room for its attempt |
| `FileKeepsPause` | `Spec => []FileTellsPause` | `Same`, of the file and the process that saved it last; that the pauses began at the same time is what carries it over a tick |

`LiveMonitorProofs`, for any servers, thresholds and windows:

| Theorem | Statement | Argument |
|---|---|---|
| `TypeCorrect` | `Spec => []TypeOK` | with `BreakerInv`, for the last entry of the list of failures |
| `HysteresisKept` | `Spec => []HysteresisHolds` | `FreshInv` tells a count that the journal thread still owes from one it has made |
| `FlapGuard` | `Spec => []AnsweredBounded` | `SpacingInv`: with fewer than j failures since the i-th latest decision that was answered, at least i - j cooldowns have passed since then. It is about every suffix of the history at once; the bound alone is not inductive, since it does not say when the switches were made. A decision under way has waited for a cooldown and ages besides (`Rest`); when its answer is lost that only weakens what is known, when it is recorded there is room for it |

It has no hypothesis about the switch: pairs, bools and exceptions come in any
order. That the bound is no bound on what the shipped daemon does is the run
`cooldown`.

`UpdatesProofs`, for any finite sets of subscriptions and rule sets, any number
of mirrors and attempts: `TypeCorrect`, `PatchAlwaysUndone`, `PatchHeldInside`,
`StatusHasThread`, `SummaryCorrect`, `RuleSetsAlwaysKept` (of `TypeOK`,
`PatchUndone`, `PatchedUnlessOverlapped`, `RunningHasThread`, `SummaryAgrees`,
`RuleSetsKept`). They share one invariant: each half of the socket patch has a
thread that will undo it, and is there for each thread that made it unless
another one left (`PatchInv`, `BypassInv`); what is about to be renamed is
complete (`FilesInv`), which needs that one thread at a time updates the rule
sets (`OneEach`); the summary counts what the table says of the subscriptions
dealt with so far (`SummaryInv`).

`ControlServerProofs`, for any finite set of connections: `TypeCorrect`,
`OneBoxEver`, `CloseWaits`, `ExitLeavesNoBox` (of `TypeOK`, `OneBox`,
`OneLateConnection`, `NoBoxLeft`). `LockInv` says that who is between `Lock`
and `Unlock` holds the lock, `BoxInv` that a holder works on the only Box there
is, although `instance` is empty meanwhile; `LateInv` and `StoppedInv` carry
what `Close` and `Stop` established to the exit.

What the proofs changed in the models: lists of instants are functions of
ages, and sequences are built without SelectSeq, because neither of the forms
used before could be reasoned about; the bisection is steps instead of a
RECURSIVE operator, for which no prover is available; some disjointness of
model values had been taken for granted and is now a named assumption.

Only model-checked: the liveness properties (`PausesEnd`, `CallsReturn`,
`DegradationAnswered`, `UpdatesEnd`, `ShutdownEnds`, `BisectionEnds`), as
liveness under fairness and ENABLED are out of the prover's reach, and the four
runs that find a violation.

## 5. What the models leave to the reader

Behaviour met while modelling that contradicts an expectation, is modelled as
it is, and is the subject of no run:

- A promotion bumps pool B's generation (`db.py:374`), so a pool-B round that
  overlaps it discards its whole batch, the results of configs that never moved
  included. `ARCHITECTURE_IMPLEMENTATION_PLAN.md:244` asks that a valid result
  for an unchanged config be applied.
- Two pool-A rounds can run at once: `scheduler.py:110` reads a status that is
  written only after the internet check and the snapshot, and a skipped tick
  overwrites "running" (plan, line 335, asks for one round per pool). The
  properties of `pool_rounds` are checked with both running.
- An exception outside the handlers of a round, or in one before it reaches
  `round_state.finish`, leaves "running" behind in either pool: a database that
  is busy at `scheduler.py:242` or `:253`, the set-up at `:212`, the tester or
  the apply of pool B at `:286` and `:307`. The next tick is skipped and
  repairs it. `OnlyAbandonedLeaveRunning` says that this is all there is.
- `test_rounds.total` of a round under way exceeds the aggregate's total by the
  number of candidates (`scheduler.py:207` and `db.py:396`), and so does that
  of a round that was abandoned or cut off, for good. Nothing reads it.
- A fetch inside an intact bypass may go through the tunnel: `Updates` in
  section 2.
- Rows of `test_rounds` opened before a crash or for an empty round stay
  "running"; nothing reads that column back.
- One bypass of the tunnel that ends un-marks the sockets of another
  (`net.py:156`), and `Close` may return before a connection is counted
  (`server.go:113`): sections on `Updates` and `ControlServer`.
- `FailoverController.reset_circuit` has no caller in the repository, and only
  tests call the coordinator's: the monitor's breaker, once open, stays open
  until the daemon restarts. A promoted server that stays degraded counts as a
  failure in every pass (`failover.py:38`), so one bad standby can open it.

Outside the models, seen on the way: a `retry_backoff_minutes` above zero
reads a column the query does not select (`db.py:153`); `main.py:71` calls a
`remove_subscription` the store does not have; `pool_b_demote_grace` of
`README.md` is never passed on; `add_subscription` returns a row id left
over from another insert when the subscription exists (`db.py:202`).

## 6. Not modelled

- Parsing of share links and sing-box configs (`parsers.py`), settings, the
  command line's menus and reports, device counters and traffic, DNS packets,
  log rotation: formatting and I/O with no state to relate.
- `test-a` and `test-b` from the command line beside the daemon, whose
  `recover()` closes the daemon's rounds (`main.py:108`), and the command
  line's own updates, which share `<name>.srs.tmp` with the daemon's.
- The sections of a sing-box config other than the selector group, and the
  legacy reload by SIGHUP.
- The stale-route recovery of `restart_singbox`: its outcome, the core comes
  up or does not, is `RestartCore`.
- State files that cannot be written, and clocks that jump.
- Durations, except where they are compared: windows, cooldowns and staleness
  are ticks; timeouts appear as choices.
- `QualityWindow` of the monitor: its verdict counts only together with the
  signal's (`live_monitor.py:313`), judged just before the snapshot that
  `Check` decides on; both judgements are one step of the model.

## 7. Plan

1. Compositions: `LiveApply` behind `ApplyCoordinator`, with `LiveMonitor`
   beside it; the command line as a process with a store lock of its own.
2. Refinements: of what an apply promises its callers (all or nothing, and
   only inside the breaker) by `LiveApply`, and of one test per config by
   `TesterPorts`, so that `PoolRounds` may take the result of a round for
   granted.
