----------------------------- MODULE TesterPorts -----------------------------
(***************************************************************************)
(* GroupTester of totalray/tester.py: a round measures its candidates      *)
(* chunk by chunk, each chunk through a temporary sing-box process of its  *)
(* own that listens on base_port, base_port + 1, ..., one port for each    *)
(* config.  Every GroupTester is given the same base_port.                 *)
(*                                                                         *)
(* PoolRounds takes the outcome of a measurement to be any; this module is *)
(* about whose outcome it is.  Ports are counted from 1.  Times are left   *)
(* out: a process may come up after the wait for its ports has ended.      *)
(***************************************************************************)
EXTENDS Naturals, Sequences, FiniteSets, SequencesExt

CONSTANTS
  Rounds,      \* rounds that may be testing at the same time
  Configs,
  Snapshots,   \* round -> the candidate lists it may be given
  ChunkSize,   \* test.chunk_size
  None         \* no listener

ASSUME ChunkAssumption == ChunkSize \in Nat \ {0}
ASSUME SnapshotAssumption ==
  \A r \in Rounds : \A s \in Snapshots[r] :
    s \in Seq(Configs) /\ IsInjective(s)
ASSUME NoneAssumption == None \notin Configs

VARIABLES
  malformed,   \* configs that sing-box check rejects, alone or in a batch
  at,          \* round -> where test_all stands
  todo,        \* round -> candidates of this and the following chunks
  batches,     \* round -> batches that bisection has yet to check, the next one first
  items,       \* round -> what the chunk's process is configured with
  proc,        \* round -> the chunk's process
  results      \* round -> config -> whether it answered, and through whom

vars == <<malformed, at, todo, batches, items, proc, results>>

ChunkOneMore(r) == SubSeq(todo[r], 1, IF Len(todo[r]) <= ChunkSize THEN Len(todo[r]) ELSE ChunkSize + 1) \* a mutant
Chunk(r) == SubSeq(todo[r], 1, IF Len(todo[r]) < ChunkSize THEN Len(todo[r]) ELSE ChunkSize)

-----------------------------------------------------------------------------
(* Bisection of a rejected batch.                                           *)

Accepted(batch) == Range(batch) \cap malformed = {}

HalvesLosingMiddle(batch) ==  \* a mutant
  LET mid == Len(batch) \div 2
  IN <<SubSeq(batch, 1, mid), SubSeq(batch, mid + 2, Len(batch))>>

HalvesOverlapping(batch) ==   \* a mutant
  LET mid == Len(batch) \div 2
  IN <<SubSeq(batch, 1, mid), SubSeq(batch, mid, Len(batch))>>

Halves(batch) ==
  LET mid == Len(batch) \div 2
  IN <<SubSeq(batch, 1, mid), SubSeq(batch, mid + 1, Len(batch))>>

-----------------------------------------------------------------------------
Unmeasured == [answered |-> FALSE, via |-> None]

\* Every config of the chunk starts out dead; a rejected one stays so.
ResultsOfValid(r) == [c \in (Range(Chunk(r)) \ malformed) |-> Unmeasured] \* a mutant
InitialResults(r) == [c \in Range(Chunk(r)) |-> Unmeasured]

Init ==
  /\ malformed \in SUBSET Configs
  /\ at = [r \in Rounds |-> "idle"]
  /\ todo = [r \in Rounds |-> <<>>]
  /\ batches = [r \in Rounds |-> <<>>]
  /\ items = [r \in Rounds |-> <<>>]
  /\ proc = [r \in Rounds |-> "none"]
  /\ results = [r \in Rounds |-> [c \in {} |-> Unmeasured]]

\* test_all is called with a snapshot of candidates.
Begin(r) ==
  /\ at[r] = "idle"
  /\ todo' \in {[todo EXCEPT ![r] = s] : s \in Snapshots[r]}
  /\ at' = [at EXCEPT ![r] = "chunk"]
  /\ UNCHANGED <<malformed, batches, items, proc, results>>

\* The process for the chunk is spawned.
Popen(r) ==
  /\ at' = [at EXCEPT ![r] = "wait"]
  /\ proc' = [proc EXCEPT ![r] = "starting"]

\* _run_chunk up to the verdict on the whole chunk.
TakeChunk(r) ==
  /\ at[r] = "chunk" /\ todo[r] # <<>>
  /\ results' = [results EXCEPT ![r] = InitialResults(r)]
  /\ \/ /\ Accepted(Chunk(r))
        /\ items' = [items EXCEPT ![r] = Chunk(r)]
        /\ Popen(r)
        /\ UNCHANGED batches
     \/ /\ ~Accepted(Chunk(r))
        /\ items' = [items EXCEPT ![r] = <<>>]
        /\ batches' = [batches EXCEPT ![r] = <<Chunk(r)>>]
        /\ at' = [at EXCEPT ![r] = "bisect"]
        /\ UNCHANGED proc
  /\ UNCHANGED <<malformed, todo>>

\* One call of _find_valid_items: what it returns comes after what the calls
\* before it returned; the left half is searched first.
FindValidItems(r) ==
  /\ at[r] = "bisect" /\ batches[r] # <<>>
  /\ LET batch == Head(batches[r])
         rest == Tail(batches[r])
     IN \/ /\ Accepted(batch)
           /\ items' = [items EXCEPT ![r] = @ \o batch]
           /\ batches' = [batches EXCEPT ![r] = rest]
        \/ /\ ~Accepted(batch) /\ Len(batch) = 1
           /\ batches' = [batches EXCEPT ![r] = rest]
           /\ UNCHANGED items
        \/ /\ ~Accepted(batch) /\ Len(batch) # 1
           /\ batches' = [batches EXCEPT ![r] = Halves(batch) \o rest]
           /\ UNCHANGED items
  /\ UNCHANGED <<malformed, at, todo, proc, results>>

\* A batch of which nothing is valid is not run.
Bisected(r) ==
  /\ at[r] = "bisect" /\ batches[r] = <<>>
  /\ IF items[r] = <<>>
     THEN at' = [at EXCEPT ![r] = "publish"] /\ UNCHANGED proc
     ELSE Popen(r)
  /\ UNCHANGED <<malformed, todo, batches, items, results>>

\* The process binds its ports from the first on; where another process
\* listens it gives up and exits.
Bind(r) ==
  /\ proc[r] = "starting"
  /\ proc' = [proc EXCEPT ![r] = IF \E o \in Rounds : proc[o] = "up" THEN "exited" ELSE "up"]
  /\ UNCHANGED <<malformed, at, todo, batches, items, results>>

\* _wait_ports: all ports answer, whoever listens, or the time is up, and then
\* the measurements are made all the same.
PortsWaited(r) ==
  /\ at[r] = "wait"
  /\ at' = [at EXCEPT ![r] = "measure"]
  /\ UNCHANGED <<malformed, todo, batches, items, proc, results>>

\* The config at whose outbound a connection to this port ends.
Reaches(port) ==
  LET owners == {o \in Rounds : proc[o] = "up" /\ port <= Len(items[o])}
  IN IF owners = {} THEN None ELSE items[CHOOSE o \in owners : TRUE][port]

PortInChunk(r, c) == CHOOSE i \in 1..Len(Chunk(r)) : Chunk(r)[i] = c \* a mutant
PortOf(r, c) == CHOOSE i \in 1..Len(items[r]) : items[r][i] = c

\* measure: its first attempt that answered, or its last.
Measure(r) ==
  /\ at[r] = "measure"
  /\ \E c \in Range(items[r]), answered \in BOOLEAN :
       /\ results[r][c] = Unmeasured
       /\ LET via == Reaches(PortOf(r, c))
          IN results' = [results EXCEPT ![r][c] =
                           [answered |-> answered /\ via # None,
                            via |-> IF via = None THEN "refused" ELSE via]]
  /\ UNCHANGED <<malformed, at, todo, batches, items, proc>>

\* The process is terminated, or killed when that takes too long.
Terminate(r) ==
  /\ at[r] = "measure"
  /\ \A c \in Range(items[r]) : results[r][c] # Unmeasured
  /\ at' = [at EXCEPT ![r] = "publish"]
  /\ proc' = [proc EXCEPT ![r] = "none"]
  /\ UNCHANGED <<malformed, todo, batches, items, results>>

\* on_chunk: the round persists the chunk's results.
Publish(r) ==
  /\ at[r] = "publish"
  /\ at' = [at EXCEPT ![r] = "chunk"]
  /\ todo' = [todo EXCEPT ![r] = SubSeq(@, Len(Chunk(r)) + 1, Len(@))]
  /\ UNCHANGED <<malformed, batches, items, proc, results>>

Return(r) ==
  /\ at[r] = "chunk" /\ todo[r] = <<>>
  /\ at' = [at EXCEPT ![r] = "idle"]
  /\ UNCHANGED <<malformed, todo, batches, items, proc, results>>

\* A check that times out, a process that cannot be spawned or an on_chunk
\* that raises ends the round; its process, if any, is terminated on the way.
Raise(r) ==
  /\ at[r] # "idle"
  /\ at' = [at EXCEPT ![r] = "idle"]
  /\ proc' = [proc EXCEPT ![r] = "none"]
  /\ batches' = [batches EXCEPT ![r] = <<>>]
  /\ UNCHANGED <<malformed, todo, items, results>>

Next ==
  \E r \in Rounds :
    \/ Begin(r) \/ TakeChunk(r) \/ FindValidItems(r) \/ Bisected(r)
    \/ Bind(r) \/ PortsWaited(r) \/ Measure(r) \/ Terminate(r)
    \/ Publish(r) \/ Return(r) \/ Raise(r)

\* A check ends: it is given sixty seconds.
Fairness == \A r \in Rounds : WF_vars(FindValidItems(r) \/ Bisected(r))

Spec == Init /\ [][Next]_vars /\ Fairness

-----------------------------------------------------------------------------
(* Properties.                                                              *)

\* A process has at most chunk_size listeners (tester.py:200-201), which is
\* what config.yaml:45 offers to boards with little memory.
TypeOK ==
  /\ malformed \subseteq Configs
  /\ at \in [Rounds -> {"idle", "chunk", "bisect", "wait", "measure", "publish"}]
  /\ proc \in [Rounds -> {"none", "starting", "up", "exited"}]
  /\ \A r \in Rounds :
       /\ todo[r] \in Seq(Configs)
       /\ batches[r] \in Seq(Seq(Configs))
       /\ items[r] \in Seq(Configs) /\ Len(items[r]) <= ChunkSize
       /\ DOMAIN results[r] \subseteq Configs
       /\ \A c \in DOMAIN results[r] :
            results[r][c] \in [answered : BOOLEAN, via : Configs \cup {None, "refused"}]

\* Bisection keeps exactly the configs sing-box accepts, each once: a
\* malformed one costs no other config of its batch the test
\* (tester.py:129-135).
BisectionKeepsValid ==
  \A r \in Rounds : at[r] \in {"wait", "measure"} =>
    Range(items[r]) = Range(Chunk(r)) \ malformed /\ IsInjective(items[r])

\* Bisection comes to an end, whatever the lengths of the halves.
BisectionEnds == \A r \in Rounds : at[r] = "bisect" ~> at[r] # "bisect"

\* When a chunk is published every config of it has a result, also those
\* bisection dropped (tester.py:147): none is left without its score.
PublishedInFull ==
  \A r \in Rounds : at[r] = "publish" => DOMAIN results[r] = Range(Chunk(r))

\* A config's result was measured through its own outbound: no other round's
\* process, and no other config of a bisected batch, answered on its port
\* (tester.py:48-58, 173-178).
MeasuredThroughItself ==
  \A r \in Rounds : \A c \in DOMAIN results[r] :
    results[r][c].via \in {c, None, "refused"}
==============================================================================
