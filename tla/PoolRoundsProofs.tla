--------------------------- MODULE PoolRoundsProofs ---------------------------
(***************************************************************************)
(* Invariants and action properties of PoolRounds, proved for every set of *)
(* configs and workers, every threshold and every bound.                   *)
(***************************************************************************)
EXTENDS PoolRounds, FiniteSetTheorems, TLAPS

USE DEF Pools, Delays, RowStates, Statuses

Results == UNION {[S -> Delays] : S \in SUBSET Configs}

-----------------------------------------------------------------------------
(* Lemmas about the operators of the store.                                 *)

\* A measured batch is a function on some of the configs.
LEMMA ResultsShape ==
  ASSUME NEW results \in Results
  PROVE  /\ DOMAIN results \subseteq Configs
         /\ results \in [DOMAIN results -> Delays]
         /\ IsFiniteSet(DOMAIN results)
         /\ Cardinality(DOMAIN results) \in Nat
<1>1. PICK S \in SUBSET Configs : results \in [S -> Delays]
  BY DEF Results
<1>2. IsFiniteSet(S)
  BY FS_Subset, FiniteAssumption
<1> QED
  BY <1>1, <1>2, FS_CardinalityType

\* _apply_score has one of the outcomes its docstring lists.
LEMMA OutcomeType ==
  ASSUME NEW row, NEW delay, NEW p
  PROVE  Outcome(row, delay, p) \in {"stale", "ok", "removed", "failed", "grace"}
BY DEF Outcome

LEMMA ScoredType ==
  ASSUME NEW row \in Row, NEW delay \in Delays,
         NEW outcome \in {"stale", "ok", "removed", "failed", "grace"}
  PROVE  Scored(row, outcome, delay) \in Row
BY DEF Scored, Promoted, Docked, Row

\* The outcomes of a batch, and that they can be counted.
LEMMA OutcomesShape ==
  ASSUME NEW results \in Results, NEW p \in Pools, NEW snapshot
  PROVE  /\ DOMAIN Outcomes(p, results, snapshot) = DOMAIN results
         /\ \A c \in DOMAIN results : Outcomes(p, results, snapshot)[c]
               \in {"stale", "ok", "removed", "failed", "grace"}
         /\ \A kinds : Tally(Outcomes(p, results, snapshot), kinds) \in Nat
<1> DEFINE out == Outcomes(p, results, snapshot)
<1>1. DOMAIN out = DOMAIN results
  BY DEF Outcomes
<1>2. \A c \in DOMAIN results :
        out[c] \in {"stale", "ok", "removed", "failed", "grace"}
  BY OutcomeType DEF Outcomes
<1>3. ASSUME NEW kinds PROVE Tally(out, kinds) \in Nat
  <2>1. {c \in DOMAIN out : out[c] \in kinds} \subseteq DOMAIN results
    BY <1>1
  <2>2. IsFiniteSet({c \in DOMAIN out : out[c] \in kinds})
    BY <2>1, ResultsShape, FS_Subset
  <2> QED
    BY <2>2, FS_CardinalityType DEF Tally
<1> QED
  BY <1>1, <1>2, <1>3

LEMMA RecordRoundType ==
  ASSUME StoreTypeOK, NEW w \in Workers, NEW p \in Pools,
         NEW results \in Results, NEW snapshot,
         RecordRound(w, p, results, snapshot)
  PROVE  StoreTypeOK'
<1> DEFINE out == Outcomes(p, results, snapshot)
<1>1. configs' \in [Configs -> Row]
  <2> SUFFICES ASSUME NEW c \in Configs, c \in DOMAIN results
               PROVE  Scored(configs[c], out[c], results[c]) \in Row
    BY DEF RecordRound, StoreTypeOK
  <2> QED
    BY ScoredType, OutcomesShape, ResultsShape DEF StoreTypeOK
<1>2. generation' \in [Pools -> Nat]
  BY DEF RecordRound, StoreTypeOK
<1>3. testRounds' \in [Workers -> Ledger]
  <2>1. \A kinds : Tally(out, kinds) \in Nat
    BY OutcomesShape
  <2> HIDE DEF out
  <2>2. Cardinality(DOMAIN results) \in Nat
    BY ResultsShape
  <2>3. testRounds[w] \in Ledger
    BY DEF StoreTypeOK
  <2>4. testRounds' = [testRounds EXCEPT ![w] = testRounds'[w]]
    BY DEF RecordRound, StoreTypeOK
  <2>5. testRounds'[w] \in Ledger
    BY <2>1, <2>2, <2>3 DEF RecordRound, Ledger, StoreTypeOK, out
  <2> QED
    BY <2>4, <2>5 DEF StoreTypeOK
<1> QED
  BY <1>1, <1>2, <1>3 DEF StoreTypeOK

-----------------------------------------------------------------------------
(* Type correctness.                                                        *)

\* The agg of a round stays a record of counters.
LEMMA AddStatsType ==
  ASSUME NEW agg \in [total : Nat, ok : Nat, failed : Nat, stale : Nat],
         NEW results \in Results, NEW p \in Pools, NEW snapshot
  PROVE  AddStats(agg, Outcomes(p, results, snapshot))
           \in [total : Nat, ok : Nat, failed : Nat, stale : Nat]
<1> DEFINE out == Outcomes(p, results, snapshot)
<1>1. /\ Cardinality(DOMAIN out) \in Nat
      /\ \A kinds : Tally(out, kinds) \in Nat
  BY OutcomesShape, ResultsShape
<1> HIDE DEF out
<1> QED
  BY <1>1 DEF AddStats, out

LEMMA RestType ==
  ASSUME NEW w PROVE Rest(w) \in RoundType /\ Resting \in RoundType
<1>1. NoBatch \in [{} -> Delays]
  BY DEF NoBatch
<1>2. NoBatch \in UNION {[S -> Delays] : S \in SUBSET Configs}
  BY <1>1
<1>3. Resting \in RoundType
  BY <1>2 DEF Resting, RoundType, Zero
<1>4. [Resting EXCEPT !.at = "done"] \in RoundType
  BY <1>3 DEF RoundType
<1> QED
  BY <1>3, <1>4 DEF Rest

LEMMA TrackType ==
  ASSUME moved \in [Workers -> SUBSET Configs], Track
  PROVE  moved' \in [Workers -> SUBSET Configs]
BY DEF Track

LEMMA InitType == Init => TypeOK
<1> SUFFICES ASSUME Init PROVE TypeOK
  OBVIOUS
<1>1. StoreTypeOK
  BY DEF Init, StoreInit, StoreTypeOK, DefaultRow, Row, NoRound, Ledger
<1> QED
  BY <1>1, RestType DEF Init, TypeOK

LEMMA FinishTestRoundType ==
  ASSUME StoreTypeOK, NEW w \in Workers,
         NEW state \in {"finished", "failed"},
         NEW counts \in [total : Nat, ok : Nat, failed : Nat, stale : Nat],
         FinishTestRound(w, state, counts), UNCHANGED <<configs, generation>>
  PROVE  StoreTypeOK'
BY DEF FinishTestRound, StoreTypeOK, Ledger

LEMMA StartTestRoundType ==
  ASSUME StoreTypeOK, NEW w \in Workers, NEW total \in Nat,
         StartTestRound(w, total), UNCHANGED <<configs, generation>>
  PROVE  StoreTypeOK'
<1>1. [NoRound EXCEPT !.state = "running", !.total = total] \in Ledger
  BY DEF NoRound, Ledger
<1> QED
  BY <1>1 DEF StartTestRound, StoreTypeOK

LEMMA StepType ==
  ASSUME TypeOK, NEW w \in Workers, Step(w)
  PROVE  TypeOK'
<1> DEFINE me == worker[w]
<1>0. /\ me \in RoundType
      /\ PoolOf(w) \in Pools
      /\ worker \in [Workers -> RoundType]
      /\ status \in [Pools -> Statuses]
      /\ StoreTypeOK
  BY DEF TypeOK, PoolOf
<1>r. Rest(w) \in RoundType
  BY RestType
<1>m. moved' \in [Workers -> SUBSET Configs]
  <2>1. Track
    BY DEF Step, TickSkipped, TickAccepted, InternetDown, TakeSnapshot,
           StartEmptyRound, StartRound, Measure, Commit, FinishRound,
           RoundAFails, CommitBFails, RoundAbandoned
  <2> QED
    BY <2>1, TrackType DEF TypeOK
<1>a. me.agg \in [total : Nat, ok : Nat, failed : Nat, stale : Nat]
  BY <1>0 DEF RoundType
<1>s. ASSUME UNCHANGED storeVars PROVE StoreTypeOK'
  BY <1>s, <1>0 DEF StoreTypeOK, storeVars
<1>1. CASE TickSkipped(w)
  BY <1>1, <1>0, <1>r, <1>m, <1>s DEF TickSkipped, TypeOK
<1>2. CASE TickAccepted(w)
  BY <1>2, <1>0, <1>m, <1>s DEF TickAccepted, TypeOK, RoundType
<1>3. CASE InternetDown(w)
  BY <1>3, <1>0, <1>r, <1>m, <1>s DEF InternetDown, TypeOK
<1>4. CASE TakeSnapshot(w)
  <2>1. PICK S \in Candidates(PoolOf(w)) :
          worker' = [worker EXCEPT ![w].at = "snapped", ![w].todo = S,
                                   ![w].snapshot = generation[PoolOf(w)]]
    BY <1>4 DEF TakeSnapshot
  <2>2. S \in SUBSET Configs
    BY DEF Candidates, Members
  <2>3. generation[PoolOf(w)] \in Nat
    BY <1>0 DEF StoreTypeOK
  <2>4. worker' \in [Workers -> RoundType]
    BY <2>1, <2>2, <2>3, <1>0 DEF RoundType
  <2> QED
    BY <1>4, <1>0, <1>m, <1>s, <2>4 DEF TakeSnapshot, TypeOK
<1>5. CASE StartEmptyRound(w)
  <2>1. StoreTypeOK'
    BY <1>5, <1>0, StartTestRoundType DEF StartEmptyRound
  <2> QED
    BY <1>5, <1>0, <1>r, <1>m, <2>1 DEF StartEmptyRound, TypeOK
<1>6. CASE StartRound(w)
  <2>1. Cardinality(me.todo) \in Nat
    BY <1>0, FiniteAssumption, FS_Subset, FS_CardinalityType DEF RoundType
  <2>2. StoreTypeOK'
    BY <1>6, <1>0, <2>1, StartTestRoundType DEF StartRound
  <2>3. worker' \in [Workers -> RoundType]
    BY <1>6, <1>0 DEF StartRound, RoundType
  <2> QED
    BY <1>6, <1>0, <1>m, <2>2, <2>3 DEF StartRound, TypeOK
<1>7. CASE Measure(w)
  <2>0. PICK S \in Batches(w) : \E results \in [S -> Measured] :
          worker' = [worker EXCEPT ![w].at = "measured", ![w].todo = @ \ S,
                                   ![w].results = results,
                                   ![w].against = ChunkGeneration(w)]
    BY <1>7 DEF Measure
  <2>1. PICK results \in [S -> Measured] :
          worker' = [worker EXCEPT ![w].at = "measured", ![w].todo = @ \ S,
                                   ![w].results = results,
                                   ![w].against = ChunkGeneration(w)]
    BY <2>0
  <2>2. S \in SUBSET Configs
    BY <1>0 DEF Batches, RoundType
  <2>3. results \in [S -> Delays]
    BY SizeAssumption
  <2>4. results \in UNION {[T -> Delays] : T \in SUBSET Configs}
    BY <2>2, <2>3
  <2>5. ChunkGeneration(w) \in Nat
    BY <1>0 DEF ChunkGeneration, RoundType, StoreTypeOK
  <2>6. worker' \in [Workers -> RoundType]
    BY <2>1, <2>2, <2>4, <2>5, <1>0 DEF RoundType
  <2> QED
    BY <1>7, <1>0, <1>m, <1>s, <2>6 DEF Measure, TypeOK
<1>8. CASE Commit(w)
  <2> DEFINE out == Outcomes(PoolOf(w), me.results, me.against)
  <2>1. me.results \in Results
    BY <1>0 DEF RoundType, Results
  <2>2. StoreTypeOK'
    BY <1>8, <1>0, <2>1, RecordRoundType DEF Commit
  <2>3. AddStats(me.agg, out)
          \in [total : Nat, ok : Nat, failed : Nat, stale : Nat]
    BY <1>0, <1>a, <2>1, AddStatsType
  <2>4. NoBatch \in UNION {[S -> Delays] : S \in SUBSET Configs}
    <3>1. NoBatch \in [{} -> Delays]
      BY DEF NoBatch
    <3> QED BY <3>1
  <2>5. worker' \in [Workers -> RoundType]
    <3> HIDE DEF out
    <3>1. worker' = [worker EXCEPT ![w].at = "testing",
                                   ![w].results = NoBatch, ![w].against = 0,
                                   ![w].agg = AddStats(@, out)]
      BY <1>8 DEF Commit, out
    <3> QED
      BY <3>1, <2>3, <2>4, <1>0 DEF RoundType
  <2> QED
    BY <1>8, <1>0, <1>m, <2>2, <2>5 DEF Commit, TypeOK
<1>9. CASE FinishRound(w)
  <2>1. StoreTypeOK'
    BY <1>9, <1>0, <1>a, FinishTestRoundType DEF FinishRound
  <2> QED
    BY <1>9, <1>0, <1>r, <1>m, <2>1 DEF FinishRound, TypeOK
<1>10. CASE RoundAFails(w)
  <2>1. StoreTypeOK'
    BY <1>10, <1>0, <1>a, FinishTestRoundType DEF RoundAFails
  <2> QED
    BY <1>10, <1>0, <1>r, <1>m, <2>1 DEF RoundAFails, TypeOK
<1>11. CASE CommitBFails(w)
  <2>1. me.results \in Results
    BY <1>0 DEF RoundType, Results
  <2>2. [Zero EXCEPT !.total = Cardinality(DOMAIN me.results)]
          \in [total : Nat, ok : Nat, failed : Nat, stale : Nat]
    BY <2>1, ResultsShape DEF Zero
  <2>3. StoreTypeOK'
    BY <1>11, <1>0, <2>2, FinishTestRoundType DEF CommitBFails
  <2> QED
    BY <1>11, <1>0, <1>r, <1>m, <2>3 DEF CommitBFails, TypeOK
<1>12. CASE RoundAbandoned(w)
  BY <1>12, <1>0, <1>r, <1>m, <1>s DEF RoundAbandoned, TypeOK
<1> QED
  BY <1>1, <1>2, <1>3, <1>4, <1>5, <1>6, <1>7, <1>8, <1>9, <1>10, <1>11, <1>12
     DEF Step

LEMMA NextType == TypeOK /\ [Next]_vars => TypeOK'
<1> SUFFICES ASSUME TypeOK, [Next]_vars PROVE TypeOK'
  OBVIOUS
<1>m. ASSUME Track PROVE moved' \in [Workers -> SUBSET Configs]
  BY <1>m, TrackType DEF TypeOK
<1>1. CASE \E w \in Workers : Step(w)
  BY <1>1, StepType
<1>2. CASE Import
  <2>1. PICK S \in SUBSET Configs : SyncConfigs(S)
    BY <1>2 DEF Import
  <2>2. [DefaultRow EXCEPT !.state = "live"] \in Row
    BY DEF DefaultRow, Row
  <2>3. StoreTypeOK'
    BY <2>1, <2>2 DEF SyncConfigs, TypeOK, StoreTypeOK
  <2> QED
    BY <1>2, <1>m, <2>3 DEF Import, TypeOK
<1>3. CASE Prune
  <2>1. PICK c \in Configs : PruneRow(c)
    BY <1>3 DEF Prune
  <2>2. StoreTypeOK'
    BY <2>1 DEF PruneRow, TypeOK, StoreTypeOK, Row
  <2> QED
    BY <1>3, <1>m, <2>2 DEF Prune, TypeOK
<1>4. CASE Restart
  BY <1>4, <1>m, RestType DEF Restart, TypeOK, StoreTypeOK, storeVars
<1>5. CASE UNCHANGED vars
  BY <1>5 DEF vars, storeVars, TypeOK, StoreTypeOK
<1> QED
  BY <1>1, <1>2, <1>3, <1>4, <1>5 DEF Next

\* In every behaviour the store and the rounds are well formed.
THEOREM TypeCorrect == Spec => []TypeOK
<1>1. Init => TypeOK
  BY InitType
<1>2. TypeOK /\ [Next]_vars => TypeOK'
  BY NextType
<1> QED
  BY <1>1, <1>2, PTL DEF Spec

-----------------------------------------------------------------------------
(* The scores.  Every step of the system changes a row in one of four ways, *)
(* so the invariants on rows need only be checked against those.            *)

RowScoreInv(row) ==
  /\ row.score <= 0
  /\ row.state = "live" => row.score > FailThreshold
  /\ row.state = "live" /\ row.pool = "b" => row.score > -DemoteGrace
  /\ row.state \in {"removed", "gone"} => row.score <= FailThreshold

RowTestInv(row) ==
  IF row.score < 0 THEN row.lastDelay \in {"slow", "dead"}
  ELSE row.lastDelay = (IF row.pool = "b" THEN "fast" ELSE "untested")

RowInv(row) == RowScoreInv(row) /\ RowTestInv(row)

LEMMA RowInvMeaning ==
  (\A c \in Configs : RowInv(configs[c])) <=> ScoreMatchesPool /\ ScoreMatchesLastTest
BY DEF RowInv, RowScoreInv, RowTestInv, ScoreMatchesPool, ScoreMatchesLastTest

\* _apply_score keeps a row consistent, whatever the result.
LEMMA ScoredKeepsRowInv ==
  ASSUME NEW row \in Row, RowInv(row), NEW delay \in Delays, NEW p \in Pools
  PROVE  RowInv(Scored(row, Outcome(row, delay, p), delay))
<1> USE ThresholdAssumption DEF RowInv, RowScoreInv, RowTestInv, Row
<1>1. CASE RowIsStale(row, p)
  BY <1>1 DEF Outcome, Scored
<1>2. CASE ~RowIsStale(row, p) /\ Passed(delay)
  BY <1>2 DEF Outcome, Scored, Promoted, Passed, RowIsStale
<1>3. CASE ~RowIsStale(row, p) /\ ~Passed(delay)
  <2> DEFINE out == Outcome(row, delay, p)
  <2>1. row.state = "live" /\ row.pool = p /\ delay \in {"slow", "dead"}
    BY <1>3 DEF RowIsStale, Passed
  <2>2. CASE row.score - 1 <= FailThreshold
    <3>1. out = "removed"
      BY <1>3, <2>2 DEF Outcome
    <3> QED
      BY <2>1, <2>2, <3>1 DEF Scored, Docked
  <2>3. CASE row.score - 1 > FailThreshold /\ row.score - 1 <= DemoteThreshold(p)
    <3>1. out = "failed"
      BY <1>3, <2>3 DEF Outcome, DemoteThreshold
    <3> QED
      BY <2>1, <2>3, <3>1 DEF Scored, Docked
  <2>4. CASE row.score - 1 > FailThreshold /\ row.score - 1 > DemoteThreshold(p)
    <3>1. out = "grace"
      BY <1>3, <2>4 DEF Outcome, DemoteThreshold
    <3>2. p = "b" => row.score - 1 > -DemoteGrace
      BY <2>4 DEF DemoteThreshold
    <3> QED
      BY <2>1, <2>4, <3>1, <3>2 DEF Scored, Docked
  <2> QED
    BY <2>2, <2>3, <2>4 DEF DemoteThreshold
<1> QED
  BY <1>1, <1>2, <1>3

RowsConsistent == \A c \in Configs : RowInv(configs[c])

LEMMA InitRows == Init => RowsConsistent
BY ThresholdAssumption
   DEF Init, StoreInit, DefaultRow, RowsConsistent, RowInv, RowScoreInv, RowTestInv

\* Only a commit, an import and retention write rows.
LEMMA StepWritesRows ==
  ASSUME NEW w \in Workers, Step(w)
  PROVE  UNCHANGED configs \/ Commit(w)
BY DEF Step, TickSkipped, TickAccepted, InternetDown, TakeSnapshot,
       StartEmptyRound, StartRound, Measure, FinishRound, RoundAFails,
       CommitBFails, RoundAbandoned, storeVars

LEMMA CommitRows ==
  ASSUME TypeOK, NEW w \in Workers, Commit(w), NEW c \in Configs
  PROVE  /\ worker[w].results \in Results
         /\ PoolOf(w) \in Pools
         /\ configs[c] \in Row
         /\ \/ configs'[c] = configs[c]
            \/ /\ c \in DOMAIN worker[w].results
               /\ worker[w].results[c] \in Delays
               /\ worker[w].against = generation[PoolOf(w)]
               /\ configs'[c] = Scored(configs[c],
                    Outcome(configs[c], worker[w].results[c], PoolOf(w)),
                    worker[w].results[c])
<1> DEFINE results == worker[w].results
           against == worker[w].against
           out == Outcomes(PoolOf(w), results, against)
<1>1. /\ results \in Results
      /\ PoolOf(w) \in Pools
      /\ configs[c] \in Row
  BY DEF TypeOK, RoundType, Results, StoreTypeOK, PoolOf
<1>2. CASE c \notin DOMAIN results
  BY <1>1, <1>2 DEF Commit, RecordRound
<1>3. CASE c \in DOMAIN results
  <2>1. configs'[c] = Scored(configs[c], out[c], results[c])
    BY <1>3 DEF Commit, RecordRound
  <2>2. CASE against # generation[PoolOf(w)]
    BY <1>1, <1>3, <2>1, <2>2 DEF Outcomes, Scored
  <2>3. CASE against = generation[PoolOf(w)]
    BY <1>1, <1>3, <2>1, <2>3, ResultsShape DEF Outcomes
  <2> QED
    BY <2>2, <2>3
<1> QED
  BY <1>1, <1>2, <1>3

LEMMA NextRows == TypeOK /\ RowsConsistent /\ [Next]_vars => RowsConsistent'
<1> SUFFICES ASSUME TypeOK, RowsConsistent, [Next]_vars, NEW c \in Configs
             PROVE  RowInv(configs'[c])
  BY DEF RowsConsistent, RowInv, RowScoreInv, RowTestInv
<1>0. configs[c] \in Row /\ RowInv(configs[c])
  BY DEF TypeOK, StoreTypeOK, RowsConsistent
<1>1. ASSUME NEW w \in Workers, Step(w) PROVE RowInv(configs'[c])
  <2>1. CASE UNCHANGED configs
    BY <1>0, <2>1
  <2>2. CASE Commit(w)
    BY <1>0, <2>2, CommitRows, ScoredKeepsRowInv
  <2> QED
    BY <1>1, <2>1, <2>2, StepWritesRows
<1>2. CASE Import
  <2>1. configs'[c] \in {configs[c], [DefaultRow EXCEPT !.state = "live"]}
    BY <1>2 DEF Import, SyncConfigs
  <2> QED
    BY <1>0, <2>1, ThresholdAssumption
       DEF DefaultRow, RowInv, RowScoreInv, RowTestInv
<1>3. CASE Prune
  <2>1. PICK d \in Configs : PruneRow(d)
    BY <1>3 DEF Prune
  <2> QED
    BY <1>0, <2>1
       DEF PruneRow, RowInv, RowScoreInv, RowTestInv, TypeOK, StoreTypeOK, Row
<1>4. CASE Restart \/ UNCHANGED vars
  BY <1>0, <1>4 DEF Restart, storeVars, vars
<1> QED
  BY <1>1, <1>2, <1>3, <1>4 DEF Next

\* The score invariants of the configs table, under every interleaving of
\* rounds, imports, retention and restarts.
THEOREM ScoresConsistent == Spec => [](ScoreMatchesPool /\ ScoreMatchesLastTest)
<1>1. Init => TypeOK /\ RowsConsistent
  BY InitType, InitRows
<1>2. TypeOK /\ RowsConsistent /\ [Next]_vars => (TypeOK /\ RowsConsistent)'
  BY NextType, NextRows
<1>3. RowsConsistent => ScoreMatchesPool /\ ScoreMatchesLastTest
  BY RowInvMeaning DEF RowsConsistent
<1> QED
  BY <1>1, <1>2, <1>3, PTL DEF Spec

-----------------------------------------------------------------------------
(* Generations and membership.                                              *)

\* A pool's members and its generation move together.
Together(p) == IF Members(p)' = Members(p) THEN generation'[p] = generation[p]
               ELSE generation'[p] > generation[p]

\* Where each outcome of a batch leaves its config.
LEMMA OutcomeMoves ==
  ASSUME NEW row \in Row, NEW delay \in Delays, NEW p \in Pools
  PROVE  LET out == Outcome(row, delay, p)
             new == Scored(row, out, delay)
         IN /\ out \in {"stale", "ok", "removed", "failed", "grace"}
            /\ out # "stale" => row.state = "live" /\ row.pool = p
            /\ out \in {"stale", "grace"} =>
                 new.state = row.state /\ new.pool = row.pool
            /\ out = "ok" => new.state = "live" /\ new.pool = "b"
            /\ out = "failed" => new.state = "live" /\ new.pool = "a"
            /\ out = "removed" => new.state = "removed"
<1> DEFINE out == Outcome(row, delay, p)
<1>1. out \in {"stale", "ok", "removed", "failed", "grace"}
  BY OutcomeType
<1>2. out # "stale" => row.state = "live" /\ row.pool = p
  BY DEF Outcome, RowIsStale
<1> HIDE DEF out
<1> QED
  BY <1>1, <1>2 DEF Scored, Promoted, Docked, out

LEMMA CommitTogether ==
  ASSUME TypeOK, NEW w \in Workers, Commit(w), NEW q \in Pools
  PROVE  Together(q)
<1> DEFINE p == PoolOf(w)
           results == worker[w].results
           out == Outcomes(p, results, worker[w].against)
<1>1. /\ p \in Pools /\ results \in Results
      /\ DOMAIN results \subseteq Configs /\ DOMAIN out = DOMAIN results
      /\ generation \in [Pools -> Nat]
      /\ \A c \in Configs : configs[c] \in Row
  BY ResultsShape, OutcomesShape
     DEF TypeOK, RoundType, Results, StoreTypeOK, PoolOf
<1>2. generation'[q] = IF q \in ChangedPools(p, out) THEN generation[q] + 1
                       ELSE generation[q]
  BY DEF Commit, RecordRound
<1>3. ASSUME NEW c \in Configs, c \notin DOMAIN results
      PROVE  configs'[c] = configs[c]
  BY <1>3 DEF Commit, RecordRound
<1>4. ASSUME NEW c \in DOMAIN results
      PROVE  /\ out[c] \in {"stale", "ok", "removed", "failed", "grace"}
             /\ out[c] # "stale" => configs[c].state = "live" /\ configs[c].pool = p
             /\ out[c] \in {"stale", "grace"} =>
                  /\ configs'[c].state = configs[c].state
                  /\ configs'[c].pool = configs[c].pool
             /\ out[c] = "ok" => configs'[c].state = "live" /\ configs'[c].pool = "b"
             /\ out[c] = "failed" => configs'[c].state = "live" /\ configs'[c].pool = "a"
             /\ out[c] = "removed" => configs'[c].state = "removed"
  <2>1. configs'[c] = Scored(configs[c], out[c], results[c])
    BY <1>1 DEF Commit, RecordRound
  <2>2. CASE worker[w].against # generation[p]
    <3>1. out[c] = "stale"
      BY <2>2 DEF Outcomes
    <3> QED
      BY <2>1, <3>1 DEF Scored
  <2>3. CASE worker[w].against = generation[p]
    <3>1. out[c] = Outcome(configs[c], results[c], p)
      BY <2>3 DEF Outcomes
    <3>2. results[c] \in Delays /\ configs[c] \in Row
      BY <1>1, ResultsShape
    <3> HIDE DEF out, p, results
    <3> QED
      BY <1>1, <2>1, <3>1, <3>2, OutcomeMoves
  <2> QED
    BY <2>2, <2>3
<1> HIDE DEF p, results, out
<1>5. CASE q \in ChangedPools(p, out)
  <2>1. PICK c \in DOMAIN results :
          \/ out[c] = "ok" /\ p # "b"
          \/ out[c] = "failed" /\ p # "a"
          \/ out[c] = "removed" /\ q = p
    BY <1>1, <1>5 DEF ChangedPools
  <2>2. (c \in Members(q)) # (c \in Members(q)')
    BY <1>1, <1>4, <2>1 DEF Members, Live
  <2>3. Members(q)' # Members(q)
    BY <2>2
  <2> QED
    BY <1>1, <1>2, <1>5, <2>3 DEF Together
<1>6. CASE q \notin ChangedPools(p, out)
  <2>1. ASSUME NEW c \in Configs
        PROVE  (c \in Members(q)) <=> (c \in Members(q)')
    <3>1. CASE c \notin DOMAIN results
      BY <1>3, <3>1 DEF Members, Live
    <3>2. CASE c \in DOMAIN results
      <4>1. /\ ~(out[c] = "ok" /\ p # "b")
            /\ ~(out[c] = "failed" /\ p # "a")
            /\ ~(out[c] = "removed" /\ q = p)
        BY <1>1, <1>6, <3>2 DEF ChangedPools
      <4> QED
        BY <1>1, <1>4, <3>2, <4>1 DEF Members, Live
    <3> QED
      BY <3>1, <3>2
  <2>2. Members(q)' = Members(q)
    BY <2>1 DEF Members
  <2> QED
    BY <1>2, <1>6, <2>2 DEF Together
<1> QED
  BY <1>5, <1>6

LEMMA NextTogether ==
  ASSUME TypeOK, [Next]_vars, NEW q \in Pools
  PROVE  Together(q)
<1>0. generation \in [Pools -> Nat]
  BY DEF TypeOK, StoreTypeOK
<1>1. ASSUME UNCHANGED <<configs, generation>> PROVE Together(q)
  BY <1>1 DEF Together, Members, Live
<1>2. ASSUME NEW w \in Workers, Step(w) PROVE Together(q)
  <2>1. CASE Commit(w)
    BY <2>1, CommitTogether
  <2>2. CASE ~Commit(w)
    <3>1. UNCHANGED <<configs, generation>>
      BY <1>2, <2>2
         DEF Step, TickSkipped, TickAccepted, InternetDown, TakeSnapshot,
             StartEmptyRound, StartRound, Measure, FinishRound, RoundAFails,
             CommitBFails, RoundAbandoned, storeVars
    <3> QED
      BY <1>1, <3>1
  <2> QED
    BY <2>1, <2>2
<1>3. CASE Import
  <2>1. PICK S \in (SUBSET {c \in Configs : configs[c].state = "new"}) \ {{}} :
          SyncConfigs(S)
    BY <1>3 DEF Import
  <2>2. \A c \in Configs : configs'[c] =
          IF c \in S THEN [DefaultRow EXCEPT !.state = "live"] ELSE configs[c]
    BY <2>1 DEF SyncConfigs
  <2>3. PICK c \in S : c \in Configs /\ configs[c].state = "new"
    BY <2>1
  <2>4. c \notin Members("a") /\ c \in Members("a")'
    BY <2>2, <2>3 DEF Members, Live, DefaultRow
  <2>5. Members("b")' = Members("b")
    BY <2>1, <2>2 DEF Members, Live, DefaultRow
  <2>6. generation'["a"] = generation["a"] + 1 /\ generation'["b"] = generation["b"]
    BY <1>0, <2>1 DEF SyncConfigs
  <2>7. Members("a")' # Members("a")
    BY <2>4
  <2> QED
    BY <1>0, <2>5, <2>6, <2>7 DEF Together
<1>4. CASE Prune
  <2>1. PICK c \in Configs : PruneRow(c)
    BY <1>4 DEF Prune
  <2>2. Members(q)' = Members(q)
    BY <2>1 DEF PruneRow, Members, Live, TypeOK, StoreTypeOK, Row
  <2> QED
    BY <2>1, <2>2 DEF PruneRow, Together
<1>5. CASE Restart \/ UNCHANGED vars
  BY <1>1, <1>5 DEF Restart, vars, storeVars
<1> QED
  BY <1>2, <1>3, <1>4, <1>5 DEF Next

\* Comparing generations detects every change of a pool's membership, and
\* nothing else invalidates a snapshot.
THEOREM GenerationsTrack == Spec => GenerationTracksMembership
<1>1. TypeOK /\ [Next]_vars =>
        [\A p \in Pools :
           IF Members(p)' = Members(p) THEN generation'[p] = generation[p]
           ELSE generation'[p] > generation[p]]_vars
  BY NextTogether DEF Together
<1> QED
  BY <1>1, TypeCorrect, PTL DEF Spec, GenerationTracksMembership

-----------------------------------------------------------------------------
(* Freshness of the batches validated against their snapshot.               *)

Pending(w) == worker[w].todo \cup DOMAIN worker[w].results

\* A snapshot is not ahead of its pool; as long as it is level with it, no
\* config the round still has to score has moved; and a candidate that has
\* not moved is still a member of the round's pool.
FreshAt(w) ==
  /\ worker[w].snapshot <= generation[PoolOf(w)]
  /\ worker[w].snapshot = generation[PoolOf(w)] => moved[w] \cap Pending(w) = {}
  /\ Pending(w) \ moved[w] \subseteq Members(PoolOf(w))

FreshInv ==
  \A w \in Workers :
    /\ InRound(w) => FreshAt(w)
    /\ worker[w].at # "measured" => DOMAIN worker[w].results = {}

LEMMA InitFresh == Init => FreshInv
BY DEF Init, FreshInv, InRound, Resting, NoBatch

\* A round in progress that keeps its snapshot and takes no new candidates
\* stays fresh, whatever happened to the store.
LEMMA CarryFresh ==
  ASSUME TypeOK, TypeOK', FreshInv, NEW w \in Workers, InRound(w), InRound(w)',
         worker'[w].snapshot = worker[w].snapshot,
         Pending(w)' \subseteq Pending(w),
         Together(PoolOf(w)), Track
  PROVE  FreshAt(w)'
<1> DEFINE p == PoolOf(w)
<1>1. /\ worker[w].snapshot \in Nat /\ p \in Pools
      /\ generation[p] \in Nat /\ generation'[p] \in Nat /\ PoolOf(w)' = p
      /\ Pending(w) \subseteq Configs
  BY ResultsShape DEF TypeOK, StoreTypeOK, RoundType, PoolOf, Pending, Results
<1>2. FreshAt(w)
  BY DEF FreshInv
<1>3. moved'[w] = moved[w] \cup {c \in Configs : Membership(c)' # Membership(c)}
  BY DEF Track
<1>4. generation'[p] >= generation[p]
  BY <1>1 DEF Together
<1>5. worker'[w].snapshot <= generation'[p]
  BY <1>1, <1>2, <1>4 DEF FreshAt, Together
<1>6. ASSUME worker'[w].snapshot = generation'[p]
      PROVE  moved'[w] \cap Pending(w)' = {}
  <2>1. Members(p)' = Members(p) /\ worker[w].snapshot = generation[p]
    BY <1>1, <1>2, <1>6 DEF FreshAt, Together
  <2>2. ASSUME NEW c \in moved'[w], c \in Pending(w)' PROVE FALSE
    <3>1. c \in Pending(w) /\ c \notin moved[w] /\ c \in Members(p)
      BY <1>2, <2>1, <2>2 DEF FreshAt
    <3>2. Membership(c)' # Membership(c)
      BY <1>3, <2>2, <3>1
    <3>3. c \in Members(p)'
      BY <2>1, <3>1
    <3> QED
      BY <3>1, <3>2, <3>3 DEF Members, Live, Membership
  <2> QED
    BY <2>2
<1>7. ASSUME NEW c \in Pending(w)' \ moved'[w] PROVE c \in Members(p)'
  <2>1. c \in Members(p) /\ Membership(c)' = Membership(c)
    BY <1>1, <1>2, <1>3, <1>7 DEF FreshAt
  <2> QED
    BY <2>1 DEF Members, Live, Membership
<1> QED
  BY <1>1, <1>5, <1>6, <1>7 DEF FreshAt

LEMMA StepFresh ==
  ASSUME TypeOK, FreshInv, NEW w \in Workers, Step(w), NEW v \in Workers
  PROVE  /\ InRound(v)' => FreshAt(v)'
         /\ worker'[v].at # "measured" => DOMAIN worker'[v].results = {}
<1>0. /\ TypeOK' /\ Track /\ Together(PoolOf(v)) /\ worker[v] \in RoundType
      /\ worker \in [Workers -> RoundType]
      /\ PoolOf(v) \in Pools
  <2>1. Track
    BY DEF Step, TickSkipped, TickAccepted, InternetDown, TakeSnapshot,
           StartEmptyRound, StartRound, Measure, Commit, FinishRound,
           RoundAFails, CommitBFails, RoundAbandoned
  <2>2. PoolOf(v) \in Pools
    BY DEF PoolOf
  <2>3. [Next]_vars
    BY DEF Next
  <2>4. Together(PoolOf(v))
    BY <2>2, <2>3, NextTogether
  <2>5. TypeOK'
    BY <2>3, NextType
  <2> QED
    BY <2>1, <2>2, <2>4, <2>5 DEF TypeOK
<1>1. CASE worker'[v] = worker[v]
  BY <1>0, <1>1, CarryFresh DEF FreshInv, InRound, Pending
<1>2. CASE worker'[v] = Rest(v)
  BY <1>2 DEF Rest, Resting, InRound, NoBatch
<1>3. CASE v = w /\ TickAccepted(w)
  BY <1>0, <1>3 DEF TickAccepted, InRound, FreshInv
<1>4. CASE v = w /\ TakeSnapshot(w)
  <2>1. PICK S \in Candidates(PoolOf(w)) :
          worker' = [worker EXCEPT ![w].at = "snapped", ![w].todo = S,
                                   ![w].snapshot = generation[PoolOf(w)]]
    BY <1>4 DEF TakeSnapshot
  <2>2. S \subseteq Members(PoolOf(w)) /\ DOMAIN worker[w].results = {}
    BY <1>4 DEF Candidates, FreshInv, TakeSnapshot
  <2>3. /\ worker'[w].at = "snapped" /\ worker'[w].todo = S
        /\ worker'[w].snapshot = generation[PoolOf(w)]
        /\ worker'[w].results = worker[w].results
    BY <1>0, <2>1 DEF RoundType
  <2>4. moved'[w] = {} /\ UNCHANGED <<configs, generation>>
    BY <1>0, <1>4 DEF Track, InRound, TakeSnapshot, storeVars
  <2>5. generation[PoolOf(w)] \in Nat
    BY <1>0, <1>4 DEF TypeOK, StoreTypeOK
  <2> QED
    BY <1>4, <2>2, <2>3, <2>4, <2>5 DEF FreshAt, Pending, Members, Live, PoolOf
<1>5. CASE v = w /\ StartRound(w)
  <2>1. InRound(w) /\ InRound(w)' /\ worker'[w].at # "measured"
        /\ worker'[w].snapshot = worker[w].snapshot
        /\ worker'[w].todo = worker[w].todo
        /\ worker'[w].results = worker[w].results
        /\ worker[w].at # "measured"
    BY <1>0, <1>5 DEF StartRound, InRound, RoundType
  <2> QED
    BY <1>0, <1>5, <2>1, CarryFresh DEF Pending, FreshInv
<1>6. CASE v = w /\ Measure(w)
  <2>0. PICK S \in Batches(w) : \E results \in [S -> Measured] :
          worker' = [worker EXCEPT ![w].at = "measured", ![w].todo = @ \ S,
                                   ![w].results = results,
                                   ![w].against = ChunkGeneration(w)]
    BY <1>6 DEF Measure
  <2>1. PICK results \in [S -> Measured] :
          worker' = [worker EXCEPT ![w].at = "measured", ![w].todo = @ \ S,
                                   ![w].results = results,
                                   ![w].against = ChunkGeneration(w)]
    BY <2>0
  <2>2. S \subseteq worker[w].todo
    BY DEF Batches
  <2>3. InRound(w) /\ InRound(w)' /\ worker'[w].at = "measured"
        /\ worker'[w].snapshot = worker[w].snapshot
        /\ worker'[w].todo = worker[w].todo \ S
        /\ worker'[w].results = results
    BY <1>0, <1>6, <2>1 DEF Measure, InRound, RoundType
  <2>4. Pending(w)' \subseteq Pending(w)
    BY <2>2, <2>3 DEF Pending
  <2> QED
    BY <1>0, <1>6, <2>3, <2>4, CarryFresh
<1>7. CASE v = w /\ Commit(w)
  <2>1. InRound(w) /\ InRound(w)' /\ worker'[w].at = "testing"
        /\ worker'[w].snapshot = worker[w].snapshot
        /\ worker'[w].todo = worker[w].todo
        /\ worker'[w].results = NoBatch
    BY <1>0, <1>7 DEF Commit, InRound, RoundType
  <2>2. DOMAIN NoBatch = {}
    BY DEF NoBatch
  <2>3. Pending(w)' \subseteq Pending(w)
    BY <2>1, <2>2 DEF Pending
  <2> QED
    BY <1>0, <1>7, <2>1, <2>2, <2>3, CarryFresh
<1>8. \/ worker'[v] = worker[v] \/ worker'[v] = Rest(v)
      \/ v = w /\ \/ TickAccepted(w) \/ TakeSnapshot(w) \/ StartRound(w)
                  \/ Measure(w) \/ Commit(w)
  BY <1>0 DEF Step, TickSkipped, InternetDown, StartEmptyRound, FinishRound,
              RoundAFails, CommitBFails, RoundAbandoned, TickAccepted,
              TakeSnapshot, StartRound, Measure, Commit
<1> QED
  BY <1>1, <1>2, <1>3, <1>4, <1>5, <1>6, <1>7, <1>8

LEMMA NextFresh == TypeOK /\ FreshInv /\ [Next]_vars => FreshInv'
<1> SUFFICES ASSUME TypeOK, FreshInv, [Next]_vars, NEW v \in Workers
             PROVE  /\ InRound(v)' => FreshAt(v)'
                    /\ worker'[v].at # "measured" =>
                         DOMAIN worker'[v].results = {}
  BY DEF FreshInv
<1>0. TypeOK' /\ PoolOf(v) \in Pools
  BY NextType DEF PoolOf
<1>1. Together(PoolOf(v))
  BY <1>0, NextTogether
<1>2. CASE \E w \in Workers : Step(w)
  BY <1>2, StepFresh
<1>3. CASE Import \/ Prune
  BY <1>0, <1>1, <1>3, CarryFresh DEF Import, Prune, FreshInv, InRound, Pending
<1>4. CASE Restart
  BY <1>4 DEF Restart, Resting, InRound, NoBatch
<1>5. CASE UNCHANGED vars
  BY <1>5 DEF vars, storeVars, FreshInv, FreshAt, InRound, Pending, Members,
              Live, PoolOf
<1> QED
  BY <1>2, <1>3, <1>4, <1>5 DEF Next

\* A pool-B round, and the first chunk of a pool-A round, never score a
\* config that left the pool since their snapshot, whatever ran meanwhile.
THEOREM SnapshotCommitsAreFresh == Spec => SnapshotCommitsFresh
<1>1. Init => TypeOK /\ FreshInv
  BY InitType, InitFresh
<1>2. TypeOK /\ FreshInv /\ [Next]_vars => (TypeOK /\ FreshInv)'
  BY NextType, NextFresh
<1>3. TypeOK /\ FreshInv /\ [Next]_vars =>
        [\A w \in Workers :
           Commits(w) /\ worker[w].against = worker[w].snapshot
             => LeavesMovedAlone(w)]_vars
  <2> SUFFICES ASSUME TypeOK, FreshInv, Next, NEW w \in Workers, Commits(w),
                      worker[w].against = worker[w].snapshot,
                      NEW c \in moved[w]
               PROVE  configs'[c] = configs[c]
    BY DEF LeavesMovedAlone
  <2>1. InRound(w) /\ c \in Configs
    BY DEF Commits, InRound, TypeOK
  <2>2. PICK v \in Workers : Step(v) /\ worker'[w] # worker[w]
    BY DEF Next, Commits, Import, Prune, Restart, Resting
  <2>3. UNCHANGED configs \/ Commit(w)
    <3>1. UNCHANGED configs \/ Commit(v)
      BY <2>2, StepWritesRows
    <3>2. ASSUME Commit(v), v # w PROVE worker'[w] = worker[w]
      BY <3>2 DEF Commit, TypeOK
    <3> QED
      BY <2>2, <3>1, <3>2
  <2>4. CASE Commit(w)
    <3>1. FreshAt(w)
      BY <2>1 DEF FreshInv
    <3>2. c \in DOMAIN worker[w].results
            => worker[w].snapshot # generation[PoolOf(w)]
      BY <3>1 DEF FreshAt, Pending
    <3> QED
      BY <2>1, <2>4, <3>2, CommitRows
  <2> QED
    BY <2>3, <2>4
<1> QED
  BY <1>1, <1>2, <1>3, PTL DEF Spec, SnapshotCommitsFresh

-----------------------------------------------------------------------------
(* Refinement: the rows live the life of ConfigLife.                        *)

\* Nobody scores a row before it is imported.
Untouched == \A c \in Configs : configs[c].state = "new" => configs[c].score = 0

LEMMA InitUntouched == Init => Untouched
BY DEF Init, StoreInit, DefaultRow, Untouched

LEMMA NextUntouched == TypeOK /\ Untouched /\ [Next]_vars => Untouched'
<1> SUFFICES ASSUME TypeOK, Untouched, [Next]_vars, NEW c \in Configs,
                    configs'[c].state = "new"
             PROVE  configs'[c].score = 0
  BY DEF Untouched
<1>0. configs[c] \in Row /\ (configs[c].state = "new" => configs[c].score = 0)
  BY DEF TypeOK, StoreTypeOK, Untouched
<1>1. ASSUME NEW w \in Workers, Commit(w) PROVE configs'[c].score = 0
  <2>1. CASE configs'[c] = configs[c]
    BY <1>0, <2>1
  <2>2. CASE configs'[c] # configs[c]
    <3>1. PICK delay \in Delays, p \in Pools :
            configs'[c] = Scored(configs[c], Outcome(configs[c], delay, p), delay)
      BY <1>1, <2>2, CommitRows
    <3>2. configs[c].state = "live" \/ configs'[c] = configs[c]
      BY <1>0, <3>1, OutcomeMoves DEF Scored
    <3> QED
      BY <1>0, <2>2, <3>1, <3>2, OutcomeMoves
  <2> QED
    BY <2>1, <2>2
<1>2. CASE Import
  BY <1>0, <1>2 DEF Import, SyncConfigs, DefaultRow
<1>3. CASE Prune
  BY <1>0, <1>3 DEF Prune, PruneRow, TypeOK, StoreTypeOK, Row
<1>4. CASE UNCHANGED configs
  BY <1>0, <1>4
<1> QED
  BY <1>1, <1>2, <1>3, <1>4, StepWritesRows
     DEF Next, Restart, storeVars, vars

\* The life cycle's view of a row.
StageOf(row) == IF row.state # "live" THEN row.state
                ELSE IF row.pool = "b" THEN "verified" ELSE "candidate"

\* What _apply_score does to a row is a pass or a strike.
LEMMA ScoredLives ==
  ASSUME NEW row \in Row, NEW delay \in Delays, NEW p \in Pools,
         row.state = "live", row.pool = p
  PROVE  LET new == Scored(row, Outcome(row, delay, p), delay)
         IN /\ Passed(delay) => StageOf(new) = "verified" /\ -new.score = 0
            /\ ~Passed(delay) =>
                 /\ -new.score = -row.score + 1
                 /\ StageOf(new) =
                      IF -row.score + 1 >= -FailThreshold THEN "removed"
                      ELSE IF StageOf(row) = "verified" /\ -row.score + 1 < DemoteGrace
                      THEN "verified" ELSE "candidate"
<1> DEFINE out == Outcome(row, delay, p)
<1> USE ThresholdAssumption DEF Row
<1>1. CASE Passed(delay)
  <2>1. out = "ok"
    BY <1>1 DEF Outcome, RowIsStale
  <2> QED
    BY <1>1, <2>1 DEF Scored, Promoted, StageOf
<1>2. CASE ~Passed(delay) /\ row.score - 1 <= FailThreshold
  <2>1. out = "removed"
    BY <1>2 DEF Outcome, RowIsStale
  <2> QED
    BY <1>2, <2>1 DEF Scored, Docked, StageOf
<1>3. CASE ~Passed(delay) /\ row.score - 1 > FailThreshold
           /\ row.score - 1 <= DemoteThreshold(p)
  <2>1. out = "failed"
    BY <1>3 DEF Outcome, RowIsStale, DemoteThreshold
  <2> QED
    BY <1>3, <2>1 DEF Scored, Docked, StageOf, DemoteThreshold
<1>4. CASE ~Passed(delay) /\ row.score - 1 > FailThreshold
           /\ row.score - 1 > DemoteThreshold(p)
  <2>1. out = "grace"
    BY <1>4 DEF Outcome, RowIsStale, DemoteThreshold
  <2> QED
    BY <1>4, <2>1 DEF Scored, Docked, StageOf, DemoteThreshold
<1> QED
  BY <1>1, <1>2, <1>3, <1>4 DEF DemoteThreshold

\* A commit judges the configs it does not find stale.
LEMMA CommitJudges ==
  ASSUME TypeOK, NEW w \in Workers, Commit(w)
  PROVE  Life!Next
<1> DEFINE p == PoolOf(w)
           results == worker[w].results
           s == IF p = "b" THEN "verified" ELSE "candidate"
           judged == IF worker[w].against # generation[p] THEN {}
                     ELSE {c \in DOMAIN results : configs[c].state = "live"
                                                 /\ configs[c].pool = p}
           passed == {c \in judged : Passed(results[c])}
           failed == judged \ passed
           stage == [c \in Configs |-> Stage(c)]
           strikes == [c \in Configs |-> -configs[c].score]
<1>1. /\ p \in Pools /\ results \in Results
      /\ DOMAIN results \subseteq Configs
      /\ \A c \in DOMAIN results : results[c] \in Delays
      /\ \A c \in Configs : configs[c] \in Row
  BY ResultsShape DEF TypeOK, RoundType, Results, StoreTypeOK, PoolOf
<1>2. /\ judged \subseteq Configs
      /\ \A c \in judged : stage[c] = s /\ Stage(c) = s
  BY <1>1 DEF Stage
<1>3. ASSUME NEW c \in Configs, c \notin judged
      PROVE  configs'[c] = configs[c]
  <2>1. CASE configs'[c] = configs[c]
    BY <2>1
  <2>2. CASE configs'[c] # configs[c]
    <3>1. /\ c \in DOMAIN results /\ worker[w].against = generation[p]
          /\ configs'[c] = Scored(configs[c],
                             Outcome(configs[c], results[c], p), results[c])
      BY <2>2, CommitRows
    <3>2. RowIsStale(configs[c], p)
      BY <1>3, <3>1 DEF RowIsStale
    <3> QED
      BY <3>1, <3>2 DEF Outcome, Scored
  <2> QED
    BY <2>1, <2>2
<1>4. ASSUME NEW c \in judged
      PROVE  /\ Passed(results[c]) => Stage(c)' = "verified" /\ -configs'[c].score = 0
             /\ ~Passed(results[c]) =>
                  /\ -configs'[c].score = -configs[c].score + 1
                  /\ Stage(c)' = Life!Struck(c)
  <2>1. /\ c \in DOMAIN results /\ c \in Configs
        /\ worker[w].against = generation[p]
        /\ configs[c].state = "live" /\ configs[c].pool = p
    BY <1>1
  <2>2. configs'[c] = Scored(configs[c], Outcome(configs[c], results[c], p), results[c])
    <3>1. Outcomes(p, results, worker[w].against)[c] = Outcome(configs[c], results[c], p)
      BY <2>1 DEF Outcomes
    <3> QED
      BY <2>1, <3>1 DEF Commit, RecordRound
  <2>3. /\ StageOf(configs[c]) = Stage(c)
        /\ StageOf(configs'[c]) = Stage(c)'
    BY DEF Stage, StageOf
  <2>4. configs[c] \in Row /\ results[c] \in Delays
    BY <1>1, <2>1
  <2> HIDE DEF p, results, judged
  <2>5. Life!Struck(c) =
          IF -configs[c].score + 1 >= -FailThreshold THEN "removed"
          ELSE IF Stage(c) = "verified" /\ -configs[c].score + 1 < DemoteGrace
          THEN "verified" ELSE "candidate"
    BY <2>1 DEF Life!Struck
  <2> QED
    BY <1>1, <2>1, <2>2, <2>3, <2>4, <2>5, ScoredLives
<1>5. stage' = [c \in Configs |-> IF c \in passed THEN "verified"
                                 ELSE IF c \in failed THEN Life!Struck(c)
                                 ELSE stage[c]]
  <2> SUFFICES ASSUME NEW c \in Configs
               PROVE  Stage(c)' = IF c \in passed THEN "verified"
                                  ELSE IF c \in failed THEN Life!Struck(c)
                                  ELSE Stage(c)
    OBVIOUS
  <2> HIDE DEF judged, results
  <2>1. CASE c \in judged
    BY <1>4, <2>1
  <2>2. CASE c \notin judged
    BY <1>3, <2>2 DEF Stage
  <2> QED
    BY <2>1, <2>2
<1>6. strikes' = [c \in Configs |-> IF c \in passed THEN 0
                                   ELSE IF c \in failed THEN strikes[c] + 1
                                   ELSE strikes[c]]
  <2> SUFFICES ASSUME NEW c \in Configs
               PROVE  -configs'[c].score = IF c \in passed THEN 0
                                           ELSE IF c \in failed THEN -configs[c].score + 1
                                           ELSE -configs[c].score
    OBVIOUS
  <2> HIDE DEF judged, results
  <2> QED
    BY <1>3, <1>4
<1>7. passed \in SUBSET {c \in Configs : stage[c] = s}
      /\ failed \in SUBSET {c \in Configs : stage[c] = s}
  BY <1>2
<1> HIDE DEF passed, failed, judged
<1>8. Life!Judge(s)
  BY <1>5, <1>6, <1>7 DEF Life!Judge
<1> QED
  BY <1>8 DEF Life!Next, Life!Tested

LEMMA InitLives == Init => Life!Init
<1> SUFFICES ASSUME Init PROVE Life!Init
  OBVIOUS
<1>1. \A c \in Configs : configs[c].state = "new" /\ configs[c].score = 0
  BY DEF Init, StoreInit, DefaultRow
<1>2. \A c \in Configs : Stage(c) = "new" /\ -configs[c].score = 0
  BY <1>1 DEF Stage
<1> QED
  BY <1>2 DEF Life!Init

LEMMA NextLives ==
  TypeOK /\ Untouched /\ [Next]_vars => [Life!Next]_(Life!lifeVars)
<1> SUFFICES ASSUME TypeOK, Untouched, [Next]_vars
             PROVE  [Life!Next]_(Life!lifeVars)
  OBVIOUS
<1>0. \A c \in Configs : configs[c] \in Row
  BY DEF TypeOK, StoreTypeOK
<1>1. CASE UNCHANGED configs
  BY <1>1 DEF Life!lifeVars, Stage
<1>2. ASSUME NEW w \in Workers, Commit(w) PROVE Life!Next
  BY <1>2, CommitJudges
<1>3. CASE Import
  <2>1. PICK S \in (SUBSET {c \in Configs : configs[c].state = "new"}) \ {{}} :
          SyncConfigs(S)
    BY <1>3 DEF Import
  <2>2. \A c \in Configs : configs'[c] =
          IF c \in S THEN [DefaultRow EXCEPT !.state = "live"] ELSE configs[c]
    BY <2>1 DEF SyncConfigs
  <2>3. S \in SUBSET {c \in Configs : [d \in Configs |-> Stage(d)][c] = "new"}
    BY <2>1 DEF Stage
  <2>4. \A c \in Configs : Stage(c)' = IF c \in S THEN "candidate" ELSE Stage(c)
    BY <2>2 DEF Stage, DefaultRow
  <2>5. \A c \in Configs : configs'[c].score = configs[c].score
    BY <2>1, <2>2 DEF DefaultRow, Untouched
  <2>6. Life!Import
    BY <2>3, <2>4, <2>5 DEF Life!Import
  <2> QED
    BY <2>6 DEF Life!Next
<1>4. CASE Prune
  <2>1. PICK c \in Configs : PruneRow(c)
    BY <1>4 DEF Prune
  <2>2. /\ configs[c].state = "removed"
        /\ configs' = [configs EXCEPT ![c].state = "gone"]
        /\ configs \in [Configs -> Row]
    BY <2>1 DEF PruneRow, TypeOK, StoreTypeOK
  <2>3. \A d \in Configs : Stage(d)' = IF d = c THEN "gone" ELSE Stage(d)
    BY <2>2 DEF Stage, Row
  <2>4. \A d \in Configs : configs'[d].score = configs[d].score
    BY <2>2 DEF Row
  <2>5. Stage(c) = "removed"
    BY <2>2 DEF Stage
  <2>6. Life!Forget
    BY <2>3, <2>4, <2>5 DEF Life!Forget
  <2> QED
    BY <2>6 DEF Life!Next
<1> QED
  BY <1>1, <1>2, <1>3, <1>4, StepWritesRows DEF Next, Restart, storeVars, vars

\* PoolRounds implements ConfigLife: rounds, chunks, generations, overlapping
\* workers and restarts are invisible in the life of a config.
THEOREM RefinesConfigLife == Spec => LivesTheLife
<1>1. Init => TypeOK /\ Untouched
  BY InitType, InitUntouched
<1>2. TypeOK /\ Untouched /\ [Next]_vars => (TypeOK /\ Untouched)'
  BY NextType, NextUntouched
<1>3. Init => Life!Init
  BY InitLives
<1>4. TypeOK /\ Untouched /\ [Next]_vars => [Life!Next]_(Life!lifeVars)
  BY NextLives
<1> QED
  BY <1>1, <1>2, <1>3, <1>4, PTL DEF Spec, LivesTheLife, Life!Spec

\* score and last_delay never contradict each other, and a verified row never
\* has a failure on record without the delay that explains it.
THEOREM ScoresTellLastTest == Spec => []ScoreMatchesLastTest
BY ScoresConsistent, PTL

-----------------------------------------------------------------------------
(* The two tallies of a round.                                              *)

\* A round has counted nothing before its ledger row is opened, and from then
\* on it counts what _record_round adds to that row; the row's total also
\* holds the candidates, counted or not.
Agree(me, row) ==
  /\ row.ok = me.agg.ok /\ row.failed = me.agg.failed /\ row.stale = me.agg.stale
  /\ me.agg.total = me.agg.ok + me.agg.failed + me.agg.stale
  /\ row.total = (me.agg.total + Cardinality(DOMAIN me.results)
                   + Cardinality(me.todo)) + me.agg.total

TallyInv ==
  \A w \in Workers :
    /\ worker[w].at \in {"testing", "measured"} => Agree(worker[w], testRounds[w])
    /\ worker[w].at \notin {"testing", "measured"} => worker[w].agg = Zero
    /\ worker[w].at # "measured" => worker[w].results = NoBatch

LEMMA NoBatchEmpty == DOMAIN NoBatch = {} /\ Cardinality(DOMAIN NoBatch) = 0
<1>1. DOMAIN NoBatch = {}
  BY DEF NoBatch
<1> QED
  BY <1>1, FS_EmptySet

\* What is still to measure can be counted, and a batch is taken out of it.
LEMMA BatchLeaves ==
  ASSUME NEW todo \in SUBSET Configs, NEW S \in SUBSET todo
  PROVE  /\ Cardinality(todo) \in Nat /\ Cardinality(S) \in Nat
         /\ Cardinality(todo \ S) = Cardinality(todo) - Cardinality(S)
<1>1. IsFiniteSet(todo) /\ IsFiniteSet(S)
  BY FiniteAssumption, FS_Subset
<1>2. todo \cap S = S
  OBVIOUS
<1> QED
  BY <1>1, <1>2, FS_Difference, FS_CardinalityType

\* Every result of a batch is counted once: as ok, as failed or as stale.
LEMMA TalliesPartition ==
  ASSUME NEW results \in Results, NEW p \in Pools, NEW snapshot
  PROVE  LET out == Outcomes(p, results, snapshot)
         IN Cardinality(DOMAIN out) =
              Tally(out, {"ok"}) + Tally(out, {"failed", "grace", "removed"})
              + Tally(out, {"stale"})
<1> DEFINE out == Outcomes(p, results, snapshot)
           Of(kinds) == {c \in DOMAIN out : out[c] \in kinds}
           ok == Of({"ok"})
           failed == Of({"failed", "grace", "removed"})
           stale == Of({"stale"})
           D == DOMAIN out
<1>1. /\ IsFiniteSet(D)
      /\ \A c \in D : out[c] \in {"stale", "ok", "removed", "failed", "grace"}
  BY OutcomesShape, ResultsShape
<1>2. /\ D = (ok \cup failed) \cup stale /\ ok \cap failed = {}
      /\ (ok \cup failed) \cap stale = {}
      /\ ok \subseteq D /\ failed \subseteq D /\ stale \subseteq D
      /\ ok \cup failed \subseteq D
  BY <1>1
<1>3. /\ Tally(out, {"ok"}) = Cardinality(ok)
      /\ Tally(out, {"failed", "grace", "removed"}) = Cardinality(failed)
      /\ Tally(out, {"stale"}) = Cardinality(stale)
  BY DEF Tally
<1> HIDE DEF ok, failed, stale, D
<1>4. /\ IsFiniteSet(ok) /\ IsFiniteSet(failed) /\ IsFiniteSet(stale)
      /\ IsFiniteSet(ok \cup failed)
  BY <1>1, <1>2, FS_Subset
<1>5. Cardinality(ok \cup failed) = Cardinality(ok) + Cardinality(failed)
  <2>1. Cardinality(ok \cap failed) = 0
    BY <1>2, FS_EmptySet
  <2>2. Cardinality(ok \cup failed)
          = Cardinality(ok) + Cardinality(failed) - Cardinality(ok \cap failed)
    BY <1>4, FS_Union
  <2>3. Cardinality(ok) \in Nat /\ Cardinality(failed) \in Nat
    BY <1>4, FS_CardinalityType
  <2> QED
    BY <2>1, <2>2, <2>3
<1>6. Cardinality(D) = Cardinality(ok \cup failed) + Cardinality(stale)
  <2>1. Cardinality((ok \cup failed) \cap stale) = 0
    BY <1>2, FS_EmptySet
  <2>2. Cardinality((ok \cup failed) \cup stale)
          = Cardinality(ok \cup failed) + Cardinality(stale)
            - Cardinality((ok \cup failed) \cap stale)
    BY <1>4, FS_Union
  <2>3. Cardinality(ok \cup failed) \in Nat /\ Cardinality(stale) \in Nat
    BY <1>4, FS_CardinalityType
  <2> QED
    BY <1>2, <2>1, <2>2, <2>3
<1> QED
  BY <1>3, <1>5, <1>6 DEF D

\* A commit adds the same to both tallies.
LEMMA CommitAgrees ==
  ASSUME TypeOK, NEW w \in Workers, Commit(w),
         Agree(worker[w], testRounds[w])
  PROVE  Agree(worker'[w], testRounds'[w])
<1> DEFINE p == PoolOf(w)
           results == worker[w].results
           against == worker[w].against
           out == Outcomes(p, results, against)
           ok == Tally(out, {"ok"})
           failed == Tally(out, {"failed", "grace", "removed"})
           stale == Tally(out, {"stale"})
           size == Cardinality(DOMAIN out)
           agg == worker[w].agg
           row == testRounds[w]
           rest == Cardinality(worker[w].todo)
<1>1. /\ results \in Results /\ p \in Pools
      /\ agg \in [total : Nat, ok : Nat, failed : Nat, stale : Nat]
      /\ row \in Ledger
      /\ worker \in [Workers -> RoundType]
      /\ testRounds \in [Workers -> Ledger]
  BY DEF TypeOK, RoundType, Results, StoreTypeOK, PoolOf
<1>2. size = ok + failed + stale
  BY <1>1, TalliesPartition
<1>3. ok \in Nat /\ failed \in Nat /\ stale \in Nat
  BY <1>1, OutcomesShape
<1>t. rest \in Nat
  BY <1>1, BatchLeaves DEF RoundType
<1>z. size \in Nat /\ size = Cardinality(DOMAIN results)
  BY <1>1, OutcomesShape, ResultsShape
<1>4. /\ worker'[w].agg = AddStats(agg, out)
      /\ worker'[w].results = NoBatch
      /\ worker'[w].todo = worker[w].todo
  <2> HIDE DEF out
  <2>1. worker' = [worker EXCEPT ![w].at = "testing", ![w].results = NoBatch,
                                 ![w].against = 0,
                                 ![w].agg = AddStats(@, out)]
    BY DEF Commit, out
  <2> QED
    BY <1>1, <2>1 DEF RoundType
<1>5. /\ testRounds'[w].ok = row.ok + ok
      /\ testRounds'[w].failed = row.failed + failed
      /\ testRounds'[w].stale = row.stale + stale
      /\ testRounds'[w].total = row.total + Cardinality(DOMAIN results)
  <2> HIDE DEF out
  <2>1. testRounds' = [testRounds EXCEPT ![w] =
           [state  |-> IF against # generation[p] THEN "finished" ELSE "running",
            total  |-> @.total + Cardinality(DOMAIN results),
            ok     |-> @.ok + Tally(out, {"ok"}),
            failed |-> @.failed + Tally(out, {"failed", "grace", "removed"}),
            stale  |-> @.stale + Tally(out, {"stale"})]]
    BY DEF Commit, RecordRound, out
  <2> QED
    BY <1>1, <2>1
<1>6. /\ worker'[w].agg.total = agg.total + size
      /\ worker'[w].agg.ok = agg.ok + ok
      /\ worker'[w].agg.failed = agg.failed + failed
      /\ worker'[w].agg.stale = agg.stale + stale
  BY <1>4 DEF AddStats
<1>7. /\ row.ok = agg.ok /\ row.failed = agg.failed /\ row.stale = agg.stale
      /\ agg.total = agg.ok + agg.failed + agg.stale
      /\ row.total = (agg.total + size + rest) + agg.total
  BY <1>z DEF Agree
<1>8. /\ Cardinality(DOMAIN worker'[w].results) = 0
      /\ Cardinality(worker'[w].todo) = rest
  BY <1>4, NoBatchEmpty
<1> HIDE DEF ok, failed, stale, size, out, rest
<1>9. testRounds'[w].total
        = ((agg.total + size) + 0 + rest) + (agg.total + size)
  BY <1>1, <1>5, <1>7, <1>z, <1>t DEF Ledger
<1>10. /\ testRounds'[w].ok = worker'[w].agg.ok
       /\ testRounds'[w].failed = worker'[w].agg.failed
       /\ testRounds'[w].stale = worker'[w].agg.stale
       /\ worker'[w].agg.total = worker'[w].agg.ok + worker'[w].agg.failed
                                  + worker'[w].agg.stale
  BY <1>1, <1>2, <1>3, <1>5, <1>6, <1>7 DEF Ledger
<1> QED
  BY <1>6, <1>8, <1>9, <1>10 DEF Agree

LEMMA InitTally == Init => TallyInv
BY DEF Init, TallyInv, Resting

LEMMA StepTally ==
  ASSUME TypeOK, TallyInv, NEW w \in Workers, Step(w), NEW v \in Workers
  PROVE  /\ worker'[v].at \in {"testing", "measured"}
              => Agree(worker'[v], testRounds'[v])
         /\ worker'[v].at \notin {"testing", "measured"} => worker'[v].agg = Zero
         /\ worker'[v].at # "measured" => worker'[v].results = NoBatch
<1>0. /\ worker \in [Workers -> RoundType] /\ testRounds \in [Workers -> Ledger]
      /\ worker[v].at \in {"testing", "measured"} => Agree(worker[v], testRounds[v])
      /\ worker[v].at \notin {"testing", "measured"} => worker[v].agg = Zero
      /\ worker[v].at # "measured" => worker[v].results = NoBatch
  BY DEF TypeOK, StoreTypeOK, TallyInv
<1>1. CASE worker'[v] = worker[v] /\ testRounds'[v] = testRounds[v]
  BY <1>0, <1>1
<1>2. CASE worker'[v] = Rest(v)
  BY <1>2 DEF Rest, Resting
<1>3. CASE v = w /\ (TickAccepted(w) \/ TakeSnapshot(w))
  <2>1. /\ worker[w].at \notin {"testing", "measured"}
        /\ worker'[w].at \notin {"testing", "measured"}
        /\ worker'[w].agg = worker[w].agg /\ worker'[w].results = worker[w].results
    <3>1. CASE TickAccepted(w)
      BY <1>0, <3>1 DEF TickAccepted, RoundType
    <3>2. CASE TakeSnapshot(w)
      BY <1>0, <3>2 DEF TakeSnapshot, RoundType
    <3> QED
      BY <1>3, <3>1, <3>2
  <2> QED
    BY <1>0, <1>3, <2>1
<1>4. CASE v = w /\ StartRound(w)
  <2> DEFINE size == Cardinality(worker[w].todo)
  <2>1. /\ worker'[w].agg = Zero /\ worker'[w].at = "testing"
        /\ worker'[w].results = NoBatch /\ worker'[w].todo = worker[w].todo
    BY <1>0, <1>4 DEF StartRound, RoundType
  <2>2. /\ testRounds'[w].ok = 0 /\ testRounds'[w].failed = 0
        /\ testRounds'[w].stale = 0 /\ testRounds'[w].total = size
    BY <1>0, <1>4 DEF StartRound, StartTestRound, NoRound
  <2>3. size \in Nat
    BY <1>0, BatchLeaves DEF RoundType
  <2>4. Cardinality(worker'[w].todo) = size
    BY <2>1
  <2>5. Cardinality(DOMAIN worker'[w].results) = 0
    BY <2>1, NoBatchEmpty
  <2> HIDE DEF size
  <2> QED
    BY <1>4, <2>1, <2>2, <2>3, <2>4, <2>5 DEF Agree, Zero
<1>5. CASE v = w /\ Measure(w)
  <2> DEFINE me == worker[w]
  <2>0. PICK S \in Batches(w) : \E results \in [S -> Measured] :
          worker' = [worker EXCEPT ![w].at = "measured", ![w].todo = @ \ S,
                                   ![w].results = results,
                                   ![w].against = ChunkGeneration(w)]
    BY <1>5 DEF Measure
  <2>1. PICK results \in [S -> Measured] :
          worker' = [worker EXCEPT ![w].at = "measured", ![w].todo = @ \ S,
                                   ![w].results = results,
                                   ![w].against = ChunkGeneration(w)]
    BY <2>0
  <2>2. /\ me.at = "testing" /\ testRounds' = testRounds
        /\ worker'[w].at = "measured" /\ worker'[w].agg = me.agg
        /\ worker'[w].todo = me.todo \ S /\ DOMAIN worker'[w].results = S
    BY <1>0, <1>5, <2>1 DEF Measure, RoundType, storeVars
  <2>3. S \in SUBSET me.todo /\ me.todo \in SUBSET Configs
    BY <1>0 DEF Batches, RoundType
  <2>4. /\ Cardinality(me.todo) \in Nat /\ Cardinality(S) \in Nat
        /\ Cardinality(me.todo \ S) = Cardinality(me.todo) - Cardinality(S)
    BY <2>3, BatchLeaves
  <2>5. Agree(me, testRounds[w]) /\ Cardinality(DOMAIN me.results) = 0
    BY <1>0, <1>5, <2>2, NoBatchEmpty
  <2>6. /\ me.agg.total \in Nat
        /\ testRounds[w].total
              = (me.agg.total + 0 + Cardinality(me.todo)) + me.agg.total
    BY <1>0, <2>5 DEF Agree, RoundType
  <2>7. testRounds[w].total
          = (me.agg.total + Cardinality(S) + Cardinality(me.todo \ S)) + me.agg.total
    BY <2>4, <2>6
  <2>8. Agree(worker'[w], testRounds'[w])
    BY <2>2, <2>5, <2>7 DEF Agree
  <2> QED
    BY <1>5, <2>2, <2>8
<1>6. CASE v = w /\ Commit(w)
  <2>1. /\ worker[w].at = "measured" /\ worker'[w].at = "testing"
        /\ worker'[w].results = NoBatch
    BY <1>0, <1>6 DEF Commit, RoundType
  <2> QED
    BY <1>0, <1>6, <2>1, CommitAgrees
<1>7. \/ worker'[v] = worker[v] /\ testRounds'[v] = testRounds[v]
      \/ worker'[v] = Rest(v)
      \/ v = w /\ \/ TickAccepted(w) \/ TakeSnapshot(w) \/ StartRound(w)
                  \/ Measure(w) \/ Commit(w)
  BY <1>0 DEF Step, TickSkipped, InternetDown, StartEmptyRound, FinishRound,
              RoundAFails, CommitBFails, RoundAbandoned, TickAccepted,
              TakeSnapshot, StartRound, Measure, Commit, storeVars,
              RecordRound, StartTestRound, FinishTestRound
<1> QED
  BY <1>1, <1>2, <1>3, <1>4, <1>5, <1>6, <1>7

LEMMA NextTally == TypeOK /\ TallyInv /\ [Next]_vars => TallyInv'
<1> SUFFICES ASSUME TypeOK, TallyInv, [Next]_vars PROVE TallyInv'
  OBVIOUS
<1>1. CASE \E w \in Workers : Step(w)
  BY <1>1, StepTally DEF TallyInv
<1>2. CASE Import \/ Prune
  BY <1>2 DEF Import, Prune, SyncConfigs, PruneRow, TallyInv
<1>3. CASE Restart
  BY <1>3 DEF Restart, Resting, TallyInv
<1>4. CASE UNCHANGED vars
  BY <1>4 DEF vars, storeVars, TallyInv
<1> QED
  BY <1>1, <1>2, <1>3, <1>4 DEF Next

\* The aggregate the scheduler reports and the ledger row the store keeps
\* never disagree on ok, failed and stale, no result is lost between the
\* three, and the row's total is the candidates plus what is committed, for
\* batches of any size.
THEOREM TalliesAlwaysAgree == Spec => []TalliesAgree
<1>1. Init => TypeOK /\ TallyInv
  BY InitType, InitTally
<1>2. TypeOK /\ TallyInv /\ [Next]_vars => (TypeOK /\ TallyInv)'
  BY NextType, NextTally
<1>3. TallyInv => TalliesAgree
  BY DEF TallyInv, TalliesAgree, Agree
<1> QED
  BY <1>1, <1>2, <1>3, PTL DEF Spec

-----------------------------------------------------------------------------
(* round_status.json and the exits of a round.                              *)

\* A step of a round that is not its abandonment ends inside the round or
\* with the status of the pool at something else than "running".
LEMMA StepCloses ==
  ASSUME TypeOK, NEW w \in Workers, Step(w), ~RoundAbandoned(w)
  PROVE  InRound(w)' \/ status'[PoolOf(w)] # "running"
<1>0. /\ worker \in [Workers -> RoundType] /\ status \in [Pools -> Statuses]
      /\ PoolOf(w) \in Pools
  BY DEF TypeOK, PoolOf
<1>1. CASE TickSkipped(w) \/ InternetDown(w)
  BY <1>0, <1>1 DEF TickSkipped, InternetDown
<1>2. CASE TickAccepted(w)
  BY <1>0, <1>2 DEF TickAccepted
<1>3. CASE TakeSnapshot(w)
  BY <1>0, <1>3 DEF TakeSnapshot, InRound, RoundType
<1>4. CASE StartEmptyRound(w) \/ FinishRound(w)
  BY <1>0, <1>4 DEF StartEmptyRound, FinishRound
<1>5. CASE StartRound(w)
  BY <1>0, <1>5 DEF StartRound, InRound, RoundType
<1>6. CASE Measure(w)
  BY <1>0, <1>6 DEF Measure, InRound, RoundType
<1>7. CASE Commit(w)
  BY <1>0, <1>7 DEF Commit, InRound, RoundType
<1>8. CASE RoundAFails(w)
  BY <1>0, <1>8 DEF RoundAFails, PoolOf
<1>9. CASE CommitBFails(w)
  BY <1>0, <1>9 DEF CommitBFails, PoolOf
<1> QED
  BY <1>1, <1>2, <1>3, <1>4, <1>5, <1>6, <1>7, <1>8, <1>9 DEF Step

\* A step that writes neither the status of a pool nor its workers leaves
\* the pool as it was.
LEMMA UntouchedPool ==
  ASSUME NEW p \in Pools, LeftRunning(p)', status'[p] = status[p],
         \A v \in Workers : PoolOf(v) = p => worker'[v] = worker[v]
  PROVE  LeftRunning(p)
BY DEF LeftRunning, InRound, PoolOf

LEMMA NextLeft ==
  ASSUME TypeOK, Next, NEW p \in Pools, LeftRunning(p)'
  PROVE  \/ \E w \in Workers : PoolOf(w) = p /\ RoundAbandoned(w)
         \/ LeftRunning(p) /\ \A w \in Workers :
                                PoolOf(w) = p => worker'[w] = worker[w]
<1>0. /\ status'[p] = "running"
      /\ \A v \in Workers : PoolOf(v) = p => ~InRound(v)'
  BY DEF LeftRunning, PoolOf
<1>t. worker \in [Workers -> RoundType] /\ status \in [Pools -> Statuses]
  BY DEF TypeOK
<1>1. ASSUME NEW w \in Workers, Step(w), PoolOf(w) = p
      PROVE  RoundAbandoned(w)
  BY <1>0, <1>1, StepCloses
<1>2. ASSUME NEW w \in Workers, Step(w), PoolOf(w) # p
      PROVE  /\ status'[p] = status[p]
             /\ \A v \in Workers : PoolOf(v) = p => worker'[v] = worker[v]
  <2>1. \A v \in Workers : v # w => worker'[v] = worker[v]
    BY <1>t, <1>2 DEF Step, TickSkipped, TickAccepted, InternetDown, TakeSnapshot,
           StartEmptyRound, StartRound, Measure, Commit, FinishRound,
           RoundAFails, CommitBFails, RoundAbandoned
  <2>2. status'[p] = status[p]
    BY <1>t, <1>2 DEF Step, TickSkipped, TickAccepted, InternetDown, TakeSnapshot,
           StartEmptyRound, StartRound, Measure, Commit, FinishRound,
           RoundAFails, CommitBFails, RoundAbandoned, PoolOf
  <2> QED
    BY <1>2, <2>1, <2>2
<1>3. CASE Import \/ Prune
  <2>1. worker' = worker /\ status' = status
    BY <1>3 DEF Import, Prune
  <2> QED
    BY <2>1, UntouchedPool
<1>4. ~Restart
  BY <1>0, <1>t DEF Restart
<1>5. CASE \E w \in Workers : Step(w)
  <2>1. PICK w \in Workers : Step(w)
    BY <1>5
  <2>2. CASE PoolOf(w) = p
    BY <1>1, <2>1, <2>2
  <2>3. CASE PoolOf(w) # p
    BY <1>2, <2>1, <2>3, UntouchedPool
  <2> QED
    BY <2>2, <2>3
<1> QED
  BY <1>3, <1>4, <1>5 DEF Next

\* Of either pool, round_status.json is left at "running" with no round only
\* by a round abandoned where no handler closes it, and no further step of a
\* job of that pool leaves it so: at most one tick is lost.
THEOREM LeftRunningByAbandoned == Spec => OnlyAbandonedLeaveRunning
<1>1. TypeOK /\ [Next]_vars =>
        [\A p \in Pools : LeftRunning(p)' =>
           \/ \E w \in Workers : PoolOf(w) = p /\ RoundAbandoned(w)
           \/ LeftRunning(p) /\ \A w \in Workers :
                                  PoolOf(w) = p => worker'[w] = worker[w]]_vars
  BY NextLeft
<1> QED
  BY <1>1, TypeCorrect, PTL DEF Spec, OnlyAbandonedLeaveRunning

-----------------------------------------------------------------------------
(* Who takes members out of a pool.                                         *)

LEMMA NextLeaves ==
  ASSUME TypeOK, Next, NEW p \in Pools, NEW c \in Members(p), c \notin Members(p)'
  PROVE  \E w \in Workers : Commits(w) /\ PoolOf(w) = p
                            /\ c \in DOMAIN worker[w].results
<1>0. /\ c \in Configs /\ configs[c].state = "live" /\ configs[c].pool = p
      /\ ~(configs'[c].state = "live" /\ configs'[c].pool = p)
      /\ worker \in [Workers -> RoundType]
  BY DEF Members, Live, TypeOK
<1>1. ASSUME NEW w \in Workers, Commit(w)
      PROVE  Commits(w) /\ PoolOf(w) = p /\ c \in DOMAIN worker[w].results
  <2> DEFINE delay == worker[w].results[c]
             q == PoolOf(w)
  <2>1. /\ c \in DOMAIN worker[w].results
        /\ configs'[c] = Scored(configs[c], Outcome(configs[c], delay, q), delay)
    BY <1>0, <1>1, CommitRows
  <2>2. q = p
    <3>1. CASE configs[c].pool # q
      <4>1. Outcome(configs[c], delay, q) = "stale"
        BY <3>1 DEF Outcome, RowIsStale
      <4>2. configs'[c] = configs[c]
        BY <2>1, <4>1 DEF Scored
      <4> QED
        BY <1>0, <4>2
    <3>2. CASE configs[c].pool = q
      BY <1>0, <3>2
    <3> QED
      BY <3>1, <3>2
  <2>3. Commits(w)
    BY <1>0, <1>1 DEF Commit, Commits, RoundType
  <2> QED
    BY <2>1, <2>2, <2>3
<1>2. ~UNCHANGED configs
  BY <1>0
<1>3. ~Import
  BY <1>0 DEF Import, SyncConfigs
<1>4. ~Prune
  BY <1>0 DEF Prune, PruneRow, TypeOK, StoreTypeOK
<1>5. \E w \in Workers : Commit(w)
  BY <1>2, <1>3, <1>4, StepWritesRows DEF Next, Restart, storeVars
<1> QED
  BY <1>1, <1>5

\* A pool loses a member only to a commit of a round of that pool which
\* measured it, whatever other rounds hold the same candidate.
THEOREM OwnRoundsOnly == Spec => MembersLeaveByOwnRound
<1>1. TypeOK /\ [Next]_vars =>
        [\A p \in Pools : \A c \in Members(p) \ Members(p)' :
           \E w \in Workers : Commits(w) /\ PoolOf(w) = p
                              /\ c \in DOMAIN worker[w].results]_vars
  BY NextLeaves
<1> QED
  BY <1>1, TypeCorrect, PTL DEF Spec, MembersLeaveByOwnRound
==============================================================================
