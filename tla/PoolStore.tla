------------------------------ MODULE PoolStore ------------------------------
(***************************************************************************)
(* The SQLite store of totalray/db.py: the configs table with its two      *)
(* pools, the membership generations of state_meta and the test_rounds     *)
(* ledger.  Every public method of Database runs under one lock and in one *)
(* transaction, so each is one atomic step here.                           *)
(*                                                                         *)
(* A member of Configs is a row id.  Ids are AUTOINCREMENT, never reused:  *)
(* a pruned row that a subscription brings back is another member.         *)
(***************************************************************************)
EXTENDS Integers, FiniteSets

CONSTANTS
  Configs,        \* row ids of the configs table
  Workers,        \* threads that run test rounds
  FailThreshold,  \* settings test.fail_threshold (-5): removed at this score
  DemoteGrace     \* record_pool_b_results' demote_grace (2)

ASSUME ThresholdAssumption ==
  /\ FailThreshold \in Int /\ FailThreshold < 0
  /\ DemoteGrace \in Nat \ {0}

ASSUME FiniteAssumption == IsFiniteSet(Configs) /\ IsFiniteSet(Workers)

VARIABLES
  configs,      \* row id -> [state, pool, score, lastDelay]
  generation,   \* pool -> state_meta.pool_<p>_generation
  testRounds    \* worker -> test_rounds row of the worker's latest round

storeVars == <<configs, generation, testRounds>>

Pools == {"a", "b"}

\* What a measurement tells apart: at most ping_threshold_ms, above it, or -1.
Delays == {"fast", "slow", "dead"}

\* "new": not imported yet.  "removed": the tombstone kept for its
\* fingerprint.  "gone": deleted by retention.
RowStates == {"new", "live", "removed", "gone"}

Row == [state : RowStates, pool : Pools, score : Int,
        lastDelay : Delays \cup {"untested"}]

\* The column defaults of the schema, on a row nobody has inserted yet.
DefaultRow == [state |-> "new", pool |-> "a", score |-> 0,
               lastDelay |-> "untested"]

Ledger == [state : {"none", "running", "finished", "failed"},
           total : Nat, ok : Nat, failed : Nat, stale : Nat]

NoRound == [state |-> "none", total |-> 0, ok |-> 0, failed |-> 0, stale |-> 0]

Live(c) == configs[c].state = "live"
Members(p) == {c \in Configs : Live(c) /\ configs[c].pool = p}

StoreInit ==
  /\ configs = [c \in Configs |-> DefaultRow]
  /\ generation = [p \in Pools |-> 0]
  /\ testRounds = [w \in Workers |-> NoRound]

-----------------------------------------------------------------------------
(* _apply_score: one config, one result of a round on pool p.               *)

Passed(delay) == delay = "fast"

\* record_pool_a_results leaves demote_threshold at 0.
DemoteThreshold(p) == IF p = "b" THEN -DemoteGrace ELSE 0

\* Mutant: a row that has moved to the other pool is scored all the same.
RowIsStaleWithoutPool(row, p) == row.state # "live"

\* A result belongs only to the pool its snapshot was taken from.
RowIsStale(row, p) == row.state # "live" \/ row.pool # p

\* Mutant: the demotion threshold is asked before the removal threshold.
OutcomeDemotingFirst(row, delay, p) ==
  IF RowIsStale(row, p) THEN "stale"
  ELSE IF Passed(delay) THEN "ok"
  ELSE IF row.score - 1 <= DemoteThreshold(p) THEN "failed"
  ELSE IF row.score - 1 <= FailThreshold THEN "removed"
  ELSE "grace"

Outcome(row, delay, p) ==
  IF RowIsStale(row, p) THEN "stale"
  ELSE IF Passed(delay) THEN "ok"
  ELSE IF row.score - 1 <= FailThreshold THEN "removed"
  ELSE IF row.score - 1 <= DemoteThreshold(p) THEN "failed"
  ELSE "grace"

\* Mutants: a promotion keeps the failures of pool A; a failure does not
\* store its delay.
PromotedKeepingScore(row, delay) ==
  [state |-> row.state, pool |-> "b", score |-> row.score, lastDelay |-> delay]

DockedKeepingDelay(row, state, pool, delay) ==
  [state |-> state, pool |-> pool, score |-> row.score - 1,
   lastDelay |-> row.lastDelay]

Promoted(row, delay) ==
  [state |-> row.state, pool |-> "b", score |-> 0, lastDelay |-> delay]

Docked(row, state, pool, delay) ==
  [state |-> state, pool |-> pool, score |-> row.score - 1, lastDelay |-> delay]

Scored(row, outcome, delay) ==
  CASE outcome = "stale"   -> row
    [] outcome = "ok"      -> Promoted(row, delay)
    [] outcome = "removed" -> Docked(row, "removed", row.pool, delay)
    [] outcome = "failed"  -> Docked(row, row.state, "a", delay)
    [] outcome = "grace"   -> Docked(row, row.state, row.pool, delay)

-----------------------------------------------------------------------------
(* _record_round: a batch of results, checked against the generation the    *)
(* caller took its snapshot at.                                             *)

\* Mutant: results are applied whatever happened since the snapshot.
OutcomesUnchecked(p, results, snapshot) ==
  [c \in DOMAIN results |-> Outcome(configs[c], results[c], p)]

Outcomes(p, results, snapshot) ==
  [c \in DOMAIN results |->
     IF snapshot # generation[p] THEN "stale"
     ELSE Outcome(configs[c], results[c], p)]

\* Mutant: a tally net of the other outcomes.
TallyNet(out, kinds) ==
  2 * Cardinality({c \in DOMAIN out : out[c] \in kinds}) - Cardinality(DOMAIN out)

Tally(out, kinds) == Cardinality({c \in DOMAIN out : out[c] \in kinds})

\* Mutant: a removal is not taken for a membership change.
ChangedPoolsByMoves(p, out) ==
  LET some(kind) == \E c \in DOMAIN out : out[c] = kind
  IN {q \in Pools : \/ some("ok") /\ p # "b"
                    \/ some("failed") /\ p # "a"}

\* The pools whose membership this batch changes.
ChangedPools(p, out) ==
  LET some(kind) == \E c \in DOMAIN out : out[c] = kind
  IN {q \in Pools : \/ some("ok") /\ p # "b"
                    \/ some("failed") /\ p # "a"
                    \/ some("removed") /\ q = p}

RecordRound(w, p, results, snapshot) ==
  LET out == Outcomes(p, results, snapshot)
  IN /\ configs' = [c \in Configs |->
           IF c \in DOMAIN results
           THEN Scored(configs[c], out[c], results[c])
           ELSE configs[c]]
     /\ generation' = [q \in Pools |->
           IF q \in ChangedPools(p, out) THEN generation[q] + 1
           ELSE generation[q]]
     /\ testRounds' = [testRounds EXCEPT ![w] =
           [state  |-> IF snapshot # generation[p] THEN "finished"
                       ELSE "running",
            total  |-> @.total + Cardinality(DOMAIN results),
            ok     |-> @.ok + Tally(out, {"ok"}),
            failed |-> @.failed + Tally(out, {"failed", "grace", "removed"}),
            stale  |-> @.stale + Tally(out, {"stale"})]]

-----------------------------------------------------------------------------
(* The other writers of the store.                                          *)

StartTestRound(w, total) ==
  testRounds' = [testRounds EXCEPT ![w] =
                   [NoRound EXCEPT !.state = "running", !.total = total]]

FinishTestRound(w, state, counts) ==
  testRounds' = [testRounds EXCEPT ![w] =
                   [state |-> state, total |-> counts.total, ok |-> counts.ok,
                    failed |-> counts.failed, stale |-> counts.stale]]

\* sync_configs inserts the fingerprints the table does not hold, into pool A.
SyncConfigs(added) ==
  /\ configs' = [c \in Configs |->
       IF c \in added THEN [DefaultRow EXCEPT !.state = "live"] ELSE configs[c]]
  /\ generation' = [generation EXCEPT !["a"] = @ + 1]
  /\ UNCHANGED testRounds

\* prune deletes tombstones; pool membership and generations stay.
PruneRow(c) ==
  /\ configs[c].state = "removed"
  /\ configs' = [configs EXCEPT ![c].state = "gone"]
  /\ UNCHANGED <<generation, testRounds>>

StoreTypeOK ==
  /\ configs \in [Configs -> Row]
  /\ generation \in [Pools -> Nat]
  /\ testRounds \in [Workers -> Ledger]
==============================================================================
