------------------------------ MODULE PoolRounds ------------------------------
(***************************************************************************)
(* The test rounds of totalray/scheduler.py over the store of PoolStore    *)
(* and the round_status.json of totalray/round_state.py.                   *)
(*                                                                         *)
(* Pool A and pool B rounds run concurrently.  A round reads a snapshot    *)
(* (candidates and generation), measures for a long time, then commits: a  *)
(* pool-A round chunk by chunk, a pool-B round once.  Meanwhile other      *)
(* rounds commit, subscriptions import, retention deletes, and the daemon  *)
(* may be restarted.                                                       *)
(*                                                                         *)
(* Workers: the scheduler's job threads (max_instances=1, so one per job)  *)
(* and the main thread, which runs job_test_pool_a once in bootstrap.      *)
(***************************************************************************)
EXTENDS PoolStore

CONSTANTS
  AWorkers,       \* the workers that run pool-A rounds
  BootWorkers,    \* those of AWorkers that run one job per daemon start
  ChunkSize,      \* test.chunk_size
  Measured,       \* the delays the tester can come back with
  MaxItems,       \* schedule.pool_a_max_items_per_round, 0 = no limit
  MaxGeneration   \* model bound: no round or import starts beyond it

ASSUME WorkerAssumption == BootWorkers \subseteq AWorkers /\ AWorkers \subseteq Workers

ASSUME SizeAssumption ==
  /\ ChunkSize \in Nat \ {0} /\ MaxItems \in Nat /\ MaxGeneration \in Nat
  /\ Measured \subseteq Delays

VARIABLES
  worker,   \* worker -> the round it is in
  status,   \* pool -> the "state" of round_status.json
  moved     \* history: worker -> configs whose row left the pool, or
            \* changed state, since the worker's snapshot

vars == <<storeVars, worker, status, moved>>

PoolOf(w) == IF w \in AWorkers THEN "a" ELSE "b"

Statuses == {"idle", "running", "skipped", "failed"}

Zero == [total |-> 0, ok |-> 0, failed |-> 0, stale |-> 0]

\* at: where the round stands.  todo: candidates not measured yet.
\* results, against: the measured batch and the generation it will be
\* validated against.  agg: the running totals of this round.
NoBatch == [c \in {} |-> "dead"]

Resting == [at |-> "idle", snapshot |-> 0, todo |-> {},
            results |-> NoBatch, against |-> 0, agg |-> Zero]

\* bootstrap runs its job once; an APScheduler job fires again.
Rest(w) == IF w \in BootWorkers THEN [Resting EXCEPT !.at = "done"] ELSE Resting

\* The history variable: emptied by a snapshot, then collecting every config
\* whose membership changes.
Membership(c) == <<configs[c].state, configs[c].pool>>

InRound(w) == worker[w].at \in {"snapped", "testing", "measured"}

Track ==
  moved' = [w \in Workers |->
    IF ~InRound(w)' \/ ~InRound(w) THEN {}
    ELSE moved[w] \cup {c \in Configs : Membership(c)' # Membership(c)}]

Init ==
  /\ StoreInit
  /\ worker = [w \in Workers |-> Resting]
  /\ status = [p \in Pools |-> "idle"]
  /\ moved = [w \in Workers |-> {}]

-----------------------------------------------------------------------------
(* job_test_pool_a and job_test_pool_b: the guard against a second round.   *)

TickSkipped(w) ==
  /\ worker[w].at = "idle"
  /\ status[PoolOf(w)] = "running"
  /\ status' = [status EXCEPT ![PoolOf(w)] = "skipped"]
  /\ worker' = [worker EXCEPT ![w] = Rest(w)]
  /\ UNCHANGED storeVars
  /\ Track

TickAccepted(w) ==
  /\ worker[w].at = "idle"
  /\ status[PoolOf(w)] # "running"
  /\ generation["a"] < MaxGeneration
  /\ worker' = [worker EXCEPT ![w].at = "accepted"]
  /\ UNCHANGED <<storeVars, status>>
  /\ Track

-----------------------------------------------------------------------------
(* run_pool_a_round and run_pool_b_round.                                   *)

InternetDown(w) ==
  /\ worker[w].at = "accepted"
  /\ status' = [status EXCEPT ![PoolOf(w)] = "skipped"]
  /\ worker' = [worker EXCEPT ![w] = Rest(w)]
  /\ UNCHANGED storeVars
  /\ Track

\* get_pool_snapshot: the generation and the candidates in one transaction.
\* The ordering by last_test_at is left out, so the limit keeps any subset.
Candidates(p) ==
  IF p = "b" \/ MaxItems = 0 \/ Cardinality(Members(p)) <= MaxItems
  THEN {Members(p)}
  ELSE {S \in SUBSET Members(p) : Cardinality(S) = MaxItems}

TakeSnapshot(w) ==
  /\ worker[w].at = "accepted"
  /\ \E S \in Candidates(PoolOf(w)) :
       worker' = [worker EXCEPT ![w].at = "snapped", ![w].todo = S,
                                ![w].snapshot = generation[PoolOf(w)]]
  /\ UNCHANGED <<storeVars, status>>
  /\ Track

\* No candidates: the ledger row is opened and stays "running".
StartEmptyRound(w) ==
  /\ worker[w].at = "snapped" /\ worker[w].todo = {}
  /\ StartTestRound(w, 0)
  /\ status' = [status EXCEPT ![PoolOf(w)] = "idle"]
  /\ worker' = [worker EXCEPT ![w] = Rest(w)]
  /\ UNCHANGED <<configs, generation>>
  /\ Track

StartRound(w) ==
  /\ worker[w].at = "snapped" /\ worker[w].todo # {}
  /\ StartTestRound(w, Cardinality(worker[w].todo))
  /\ status' = [status EXCEPT ![PoolOf(w)] = "running"]
  /\ worker' = [worker EXCEPT ![w].at = "testing"]
  /\ UNCHANGED <<configs, generation>>
  /\ Track

\* GroupTester.test_all up to the next commit: a pool-A round hands every
\* chunk to persist_chunk, a pool-B round collects the results of all chunks.
Batches(w) ==
  LET todo == worker[w].todo
  IN IF PoolOf(w) = "b" \/ Cardinality(todo) <= ChunkSize THEN {todo}
     ELSE {S \in SUBSET todo : Cardinality(S) = ChunkSize}

\* persist_chunk validates the first chunk against the snapshot and later
\* ones against the generation it reads just before the commit.
ChunkGeneration(w) ==
  IF PoolOf(w) = "b" \/ worker[w].agg.total = 0 THEN worker[w].snapshot
  ELSE generation["a"]

Measure(w) ==
  /\ worker[w].at = "testing" /\ worker[w].todo # {}
  /\ \E S \in Batches(w) : \E results \in [S -> Measured] :
       worker' = [worker EXCEPT ![w].at = "measured", ![w].todo = @ \ S,
                                ![w].results = results,
                                ![w].against = ChunkGeneration(w)]
  /\ UNCHANGED <<storeVars, status>>
  /\ Track

\* Mutant: the aggregate forgets the stale results.
AddStatsWithoutStale(agg, out) ==
  [total  |-> agg.total + Cardinality(DOMAIN out),
   ok     |-> agg.ok + Tally(out, {"ok"}),
   failed |-> agg.failed + Tally(out, {"failed", "grace", "removed"}),
   stale  |-> agg.stale]

AddStats(agg, out) ==
  [total  |-> agg.total + Cardinality(DOMAIN out),
   ok     |-> agg.ok + Tally(out, {"ok"}),
   failed |-> agg.failed + Tally(out, {"failed", "grace", "removed"}),
   stale  |-> agg.stale + Tally(out, {"stale"})]

\* _record_round, then round_state.progress.  The apply that follows belongs
\* to ApplyCoordinator and touches no state of this module.
Commit(w) ==
  LET me  == worker[w]
      out == Outcomes(PoolOf(w), me.results, me.against)
  IN /\ me.at = "measured"
     /\ RecordRound(w, PoolOf(w), me.results, me.against)
     /\ status' = [status EXCEPT ![PoolOf(w)] = "running"]
     /\ worker' = [worker EXCEPT ![w].at = "testing", ![w].results = NoBatch,
                                 ![w].against = 0,
                                 ![w].agg = AddStats(@, out)]
     /\ Track

\* finish_test_round and round_state.finish of a round that went well.
FinishRound(w) ==
  /\ worker[w].at = "testing" /\ worker[w].todo = {}
  /\ FinishTestRound(w, "finished", worker[w].agg)
  /\ status' = [status EXCEPT ![PoolOf(w)] = "idle"]
  /\ worker' = [worker EXCEPT ![w] = Rest(w)]
  /\ UNCHANGED <<configs, generation>>
  /\ Track

\* Mutant: the except clause closes the ledger row only.
RoundAFailsUnreported(w) ==
  /\ w \in AWorkers
  /\ worker[w].at \in {"testing", "measured"}
  /\ FinishTestRound(w, "failed", worker[w].agg)
  /\ worker' = [worker EXCEPT ![w] = Rest(w)]
  /\ UNCHANGED <<configs, generation, status>>
  /\ Track

\* test_all raises inside the try of a pool-A round (the tester, or the
\* commit it calls back into), and the except clause closes the round.
RoundAFails(w) ==
  /\ w \in AWorkers
  /\ worker[w].at \in {"testing", "measured"}
  /\ FinishTestRound(w, "failed", worker[w].agg)
  /\ status' = [status EXCEPT !["a"] = "failed"]
  /\ worker' = [worker EXCEPT ![w] = Rest(w)]
  /\ UNCHANGED <<configs, generation>>
  /\ Track

\* In a pool-B round only the commit is inside the try ...
CommitBFails(w) ==
  /\ w \notin AWorkers /\ worker[w].at = "measured"
  /\ FinishTestRound(w, "failed",
       [Zero EXCEPT !.total = Cardinality(DOMAIN worker[w].results)])
  /\ status' = [status EXCEPT !["b"] = "failed"]
  /\ worker' = [worker EXCEPT ![w] = Rest(w)]
  /\ UNCHANGED <<configs, generation>>
  /\ Track

\* Whatever raises where no handler closes the round is only logged by the
\* job: the snapshot, the row that opens the ledger, the set-up of the
\* tester, the tester of pool B, the apply after its commit, and
\* finish_test_round itself, on success and in both except clauses, where it
\* stands before round_state.finish.
RoundAbandoned(w) ==
  /\ worker[w].at \in {"accepted", "snapped", "testing", "measured"}
  /\ worker' = [worker EXCEPT ![w] = Rest(w)]
  /\ UNCHANGED <<storeVars, status>>
  /\ Track

-----------------------------------------------------------------------------
(* Around the rounds.                                                       *)

Import ==
  /\ generation["a"] < MaxGeneration
  /\ \E S \in (SUBSET {c \in Configs : configs[c].state = "new"}) \ {{}} :
       SyncConfigs(S)
  /\ UNCHANGED <<worker, status>>
  /\ Track

Prune ==
  /\ \E c \in Configs : PruneRow(c)
  /\ UNCHANGED <<worker, status>>
  /\ Track

\* The daemon dies anywhere and starts again: threads and measurements are
\* lost, the store is not, and RoundStateStore.recover closes open rounds.
Restart ==
  /\ worker' = [w \in Workers |-> Resting]
  /\ status' = [p \in Pools |->
       IF status[p] = "running" THEN "failed" ELSE status[p]]
  /\ UNCHANGED storeVars
  /\ Track

Step(w) ==
  \/ TickSkipped(w) \/ TickAccepted(w) \/ InternetDown(w) \/ TakeSnapshot(w)
  \/ StartEmptyRound(w) \/ StartRound(w) \/ Measure(w) \/ Commit(w)
  \/ FinishRound(w) \/ RoundAFails(w) \/ CommitBFails(w) \/ RoundAbandoned(w)

Next ==
  \/ \E w \in Workers : Step(w)
  \/ Import
  \/ Prune
  \/ Restart

Spec == Init /\ [][Next]_vars

-----------------------------------------------------------------------------
RoundType == [at : {"idle", "accepted", "snapped", "testing", "measured", "done"},
              snapshot : Nat, todo : SUBSET Configs,
              results : UNION {[S -> Delays] : S \in SUBSET Configs},
              against : Nat,
              agg : [total : Nat, ok : Nat, failed : Nat, stale : Nat]]

\* The type invariant of the store and of the rounds.
TypeOK ==
  /\ StoreTypeOK
  /\ worker \in [Workers -> RoundType]
  /\ status \in [Pools -> Statuses]
  /\ moved \in [Workers -> SUBSET Configs]

\* A row's score says how it stands in its pool, whatever interleaving of
\* rounds scored it: a verified config is always short of the demotion grace
\* (db.py:313-318), a candidate short of removal, and only a row that ran
\* its score down to fail_threshold is a tombstone (db.py:307-312).
ScoreMatchesPool ==
  \A c \in Configs : LET row == configs[c] IN
    /\ row.score <= 0
    /\ row.state = "live" => row.score > FailThreshold
    /\ row.state = "live" /\ row.pool = "b" => row.score > -DemoteGrace
    /\ row.state \in {"removed", "gone"} => row.score <= FailThreshold

\* score and last_delay tell the same story: a row with failures on record
\* last measured slow or unreachable, a row without any is either an
\* untested candidate or a verified config that passed (db.py:297-323).
\* This is "servers that pass a real connectivity test ... graduate"
\* (README.md:46-48) as a relation of two columns.
ScoreMatchesLastTest ==
  \A c \in Configs : LET row == configs[c] IN
    IF row.score < 0 THEN row.lastDelay \in {"slow", "dead"}
    ELSE row.lastDelay = (IF row.pool = "b" THEN "fast" ELSE "untested")

\* Snapshots are validated by comparing generations, so a pool's generation
\* must move exactly when its membership does (db.py:122-129, 372-387).
GenerationTracksMembership ==
  [][\A p \in Pools :
       IF Members(p)' = Members(p) THEN generation'[p] = generation[p]
       ELSE generation'[p] > generation[p]]_vars

Commits(w) == worker[w].at = "measured" /\ worker'[w].at = "testing"

LeavesMovedAlone(w) == \A c \in moved[w] : configs'[c] = configs[c]

\* A batch validated against the snapshot's generation never scores a config
\* that moved or was removed since the snapshot, not even one that has come
\* back to the pool (db.py:355-371): every pool-B round, and the first chunk
\* of every pool-A round.
SnapshotCommitsFresh ==
  [][\A w \in Workers :
       Commits(w) /\ worker[w].against = worker[w].snapshot
         => LeavesMovedAlone(w)]_vars

\* The same of every commit: "Deleted or moved configs are stale and must not
\* be revived" (db.py:293-294).  Later chunks are validated against the
\* generation of the moment and the current pool of the row only.
ResultsFresh == [][\A w \in Workers : Commits(w) => LeavesMovedAlone(w)]_vars

\* Pool B loses a member only to the commit of a pool-B round that measured
\* it, pool A only to one of pool A (db.py:293-296), although rounds of both
\* pools, and two of pool A, hold overlapping candidates.
MembersLeaveByOwnRound ==
  [][\A p \in Pools : \A c \in Members(p) \ Members(p)' :
       \E w \in Workers : Commits(w) /\ PoolOf(w) = p
                          /\ c \in DOMAIN worker[w].results]_vars

\* Whatever the rounds, imports, prunes and restarts interleave to, each row
\* lives the life of ConfigLife: its strikes are its score negated.
Stage(c) ==
  LET row == configs[c]
  IN IF row.state # "live" THEN row.state
     ELSE IF row.pool = "b" THEN "verified" ELSE "candidate"

Life == INSTANCE ConfigLife WITH
  Grace   <- DemoteGrace,
  Limit   <- -FailThreshold,
  stage   <- [c \in Configs |-> Stage(c)],
  strikes <- [c \in Configs |-> -configs[c].score]

LivesTheLife == Life!Spec

\* The two tallies of a round, the aggregate the scheduler keeps and the row
\* of test_rounds: ok, failed and stale are the same after every commit, and
\* nothing measured is left out of them.  The two totals are not: the row
\* opens with the number of candidates (scheduler.py:207) and every commit
\* adds its batch to that (db.py:396), so until finish_test_round the row's
\* total is the candidates plus what has been committed of them.
TalliesAgree ==
  \A w \in Workers : worker[w].at \in {"testing", "measured"} =>
    LET me  == worker[w]
        agg == me.agg
        row == testRounds[w]
        candidates == agg.total + Cardinality(DOMAIN me.results)
                      + Cardinality(me.todo)
    IN /\ <<row.ok, row.failed, row.stale>> = <<agg.ok, agg.failed, agg.stale>>
       /\ agg.total = agg.ok + agg.failed + agg.stale
       /\ row.total = candidates + agg.total

\* round_status.json says "running" and no round of the pool is under way.
LeftRunning(p) ==
  status[p] = "running" /\ ~\E w \in Workers : PoolOf(w) = p /\ InRound(w)

\* Only a round abandoned by an exception that no handler closes leaves
\* "running" behind (a round that ends, fails in the try, is skipped or dies
\* with the daemon does not, whatever other rounds of the pool run beside
\* it), and no worker of the pool takes another step that keeps it so: the
\* next tick, which takes it for a round in progress and is lost, clears it
\* (scheduler.py:110-113, 124-127).
OnlyAbandonedLeaveRunning ==
  [][\A p \in Pools : LeftRunning(p)' =>
       \/ \E w \in Workers : PoolOf(w) = p /\ RoundAbandoned(w)
       \/ LeftRunning(p) /\ \A w \in Workers :
                              PoolOf(w) = p => worker'[w] = worker[w]]_vars
==============================================================================
