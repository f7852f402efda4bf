------------------------ MODULE ApplyCoordinatorProofs ------------------------
(***************************************************************************)
(* The circuit breaker of ApplyCoordinator, proved for every set of        *)
(* processes, every limit, every window and every number of retries.       *)
(***************************************************************************)
EXTENDS ApplyCoordinator, TLAPS

LEMMA Sizes ==
  /\ MaxRestarts \in Nat \ {0} /\ Window \in Nat \ {0} /\ HealthRetries \in Nat
  /\ Daemon \in Procs
  /\ MaxRestarts \in Latest /\ MaxRestarts + 1 \in Latest
  /\ MaxRestarts + 2 \in Latest /\ 1 \in Latest
  /\ \A i \in Latest : i \in Nat /\ (i # 1 => i - 1 \in Latest)
BY ProcAssumption, LimitAssumption DEF Latest

-----------------------------------------------------------------------------
(* Lists of ages.                                                           *)

\* An entry is not younger than the entries after it.
InOrder(ages) == \A i, j \in Latest : i <= j => ages[i] <= ages[j]

Times(ages) == ages \in [Latest -> Ages] /\ InOrder(ages)

LEMMA NeverTimes == Times(Never)
BY Sizes DEF Times, InOrder, Never, Ages

LEMMA NowTimes ==
  ASSUME NEW ages, Times(ages)
  PROVE  /\ Times(Now(ages))
         /\ Now(ages)[1] = 0
         /\ \A i \in Latest : i # 1 => Now(ages)[i] = ages[i - 1]
         /\ \A i \in Latest : Now(ages)[i] <= ages[i]
<1>1. \A i \in Latest : ages[i] \in Ages
  BY DEF Times
<1>2. \A i, j \in Latest : i <= j => ages[i] <= ages[j]
  BY DEF Times, InOrder
<1>3. \A i \in Latest : Now(ages)[i] = IF i = 1 THEN 0 ELSE ages[i - 1]
  BY DEF Now
<1>4. \A i \in Latest : Now(ages)[i] \in Ages
  BY <1>1, <1>3, Sizes DEF Ages
<1>5. Now(ages) \in [Latest -> Ages]
  BY <1>3, <1>4 DEF Now
<1>6. \A i, j \in Latest : i <= j => Now(ages)[i] <= Now(ages)[j]
  <2> SUFFICES ASSUME NEW i \in Latest, NEW j \in Latest, i <= j
               PROVE  Now(ages)[i] <= Now(ages)[j]
    OBVIOUS
  <2>1. CASE i = 1
    BY <1>3, <1>4, <2>1 DEF Ages
  <2>2. CASE i # 1
    <3>1. i - 1 \in Latest /\ j - 1 \in Latest /\ i - 1 <= j - 1 /\ j # 1
      BY <2>2, Sizes DEF Latest
    <3> QED
      BY <1>2, <1>3, <2>2, <3>1
  <2> QED
    BY <2>1, <2>2
<1>7. \A i \in Latest : Now(ages)[i] <= ages[i]
  <2> SUFFICES ASSUME NEW i \in Latest PROVE Now(ages)[i] <= ages[i]
    OBVIOUS
  <2>1. CASE i = 1
    BY <1>1, <1>3, <2>1 DEF Ages
  <2>2. CASE i # 1
    <3>1. i - 1 \in Latest /\ i - 1 <= i
      BY <2>2, Sizes
    <3> QED
      BY <1>2, <1>3, <2>2, <3>1
  <2> QED
    BY <2>1, <2>2
<1> QED
  BY <1>3, <1>5, <1>6, <1>7, Sizes DEF Times, InOrder

LEMMA OlderFacts ==
  ASSUME NEW x \in Ages, NEW y \in Ages
  PROVE  /\ Older(x) \in Ages
         /\ x <= y => Older(x) <= Older(y)
         /\ x = Window => Older(x) = Window
         /\ Older(x) < Window => x < Window
BY Sizes DEF Older, Ages

LEMMA AgedTimes ==
  ASSUME NEW ages, Times(ages)
  PROVE  /\ Times(Aged(ages))
         /\ \A i \in Latest : Aged(ages)[i] = Older(ages[i])
<1>1. \A i \in Latest : ages[i] \in Ages
  BY DEF Times
<1>2. \A i \in Latest : Aged(ages)[i] = Older(ages[i])
  BY DEF Aged
<1>3. Aged(ages) \in [Latest -> Ages]
  BY <1>1, <1>2, OlderFacts DEF Aged
<1>4. InOrder(Aged(ages))
  BY <1>1, <1>2, OlderFacts DEF Times, InOrder
<1> QED
  BY <1>2, <1>3, <1>4 DEF Times

-----------------------------------------------------------------------------
(* The invariant.                                                           *)

MemType == [up : BOOLEAN, attempts : [Latest -> Ages], open : BOOLEAN, since : Ages]
CallType == [at : {"idle", "building", "checking", "refilling", "done"},
             restarted : BOOLEAN, tries : 0..HealthRetries]
FileType == [open : BOOLEAN, since : Ages, by : Procs]

\* The breaker: while it is closed the window is not full, and once open, what
\* happened since it opened does not fill the window, so that a pause that has
\* lasted a whole window leaves room.
Breaker(m) ==
  /\ ~m.open => m.attempts[MaxRestarts] = Window
  /\ m.open => m.since <= m.attempts[MaxRestarts]

\* An apply is let in with room in the window, and the health check starts
\* with at most the limit in it.
Room(m, o) ==
  /\ o.at = "building" => ~m.open
  /\ o.at = "checking" => m.attempts[MaxRestarts + 1] = Window
  /\ m.attempts[MaxRestarts + 2] = Window
  /\ o.at = "idle" => ~o.restarted

\* Each restart is an attempt, recorded later: the i-th latest attempt is no
\* older than the i-th latest restart, not counting one not recorded yet.
Unrecorded(o) == o.at = "building" /\ o.restarted

Recorded(m, o, r) ==
  IF Unrecorded(o) THEN \A i \in Latest : i # 1 => m.attempts[i - 1] <= r[i]
  ELSE \A i \in Latest : m.attempts[i] <= r[i]

\* What holds of one process: its memory, its call and its restarts.  One that
\* is down has neither a call nor restarts, and starts with none.
Sound(m, o, r) ==
  /\ m \in MemType /\ o \in CallType /\ Times(m.attempts) /\ Times(r)
  /\ ~m.up => o = NoCall /\ r = Never
  /\ Breaker(m) /\ Room(m, o) /\ Recorded(m, o, r)
  /\ r[MaxRestarts + 1] = Window

\* What holds of the file and the process that saved it last: the same pause,
\* begun at the same time.
Same(f, m) ==
  /\ Pausing(f) <=> Pausing(m)
  /\ Pausing(f) => f.since = m.since

IInv ==
  /\ mem \in [Procs -> MemType] /\ op \in [Procs -> CallType]
  /\ restarts \in [Procs -> [Latest -> Ages]] /\ file \in FileType
  /\ \A p \in Procs : Sound(mem[p], op[p], restarts[p])
  /\ \A p \in Procs : mem[p].up /\ file.by = p => Same(file, mem[p])

-----------------------------------------------------------------------------
(* What a step does to one process.                                         *)

\* A process that is down, as at the start and after its death.
LEMMA DownSound == Sound(DownMem, NoCall, Never)
<1>1. Times(Never) /\ \A i \in Latest : Never[i] = Window
  BY NeverTimes DEF Never
<1>2. NoAttempts \in MemType /\ NoCall \in CallType
  BY <1>1, Sizes DEF NoAttempts, MemType, CallType, NoCall, Times, Ages
<1>3. /\ DownMem.up = FALSE /\ DownMem.attempts = Never /\ DownMem.open = FALSE
      /\ DownMem \in MemType
  BY <1>2 DEF DownMem, NoAttempts, MemType
<1>5. \A i \in Latest : Never[i] <= Never[i]
  BY <1>1, Sizes
<1> QED
  BY <1>1, <1>2, <1>3, <1>5, Sizes
     DEF Sound, Breaker, Room, Recorded, Unrecorded, NoCall

\* A fresh coordinator, whatever the file said of the breaker.
LEMMA FreshSound ==
  ASSUME NEW m \in MemType, NEW o \in CallType,
         m.up, m.attempts = Never, o.at = "idle", ~o.restarted
  PROVE  Sound(m, o, Never)
<1>1. Times(Never) /\ \A i \in Latest : Never[i] = Window
  BY NeverTimes DEF Never
<1>2. m.since <= Window /\ m.open \in BOOLEAN
  BY Sizes DEF MemType, Ages
<1>3. \A i \in Latest : Never[i] <= Never[i]
  BY <1>1, Sizes
<1> QED
  BY <1>1, <1>2, <1>3, Sizes DEF Sound, Breaker, Room, Recorded, Unrecorded

\* A call that lets go of the lock, or that has nothing to record.
LEMMA CallSound ==
  ASSUME NEW m, NEW o, NEW r, Sound(m, o, r), m.up,
         NEW o2 \in CallType, ~Unrecorded(o), ~Unrecorded(o2),
         o2.at = "building" => ~m.open,
         o2.at = "checking" => o.at = "checking",
         o2.at = "idle" => ~o2.restarted
  PROVE  Sound(m, o2, r)
BY DEF Sound, Room, Recorded

LEMMA AcceptedSound ==
  ASSUME NEW m, NEW o, NEW r, Sound(m, o, r), m.up, o.at = "idle",
         ~m.open \/ m.since = Window
  PROVE  LET closed == [m EXCEPT !.open = FALSE]
             begun == [o EXCEPT !.at = "building"]
         IN ~o.restarted => Sound(closed, begun, r)
<1> DEFINE closed == [m EXCEPT !.open = FALSE]
           begun == [o EXCEPT !.at = "building"]
<1>1. /\ closed.up = m.up /\ closed.attempts = m.attempts /\ closed.open = FALSE
      /\ closed \in MemType
      /\ begun.at = "building" /\ begun.restarted = o.restarted
      /\ begun \in CallType
  BY DEF Sound, MemType, CallType
<1>2. m.attempts[MaxRestarts] = Window
  <2>1. m.attempts[MaxRestarts] \in Ages
    BY Sizes DEF Sound, Times
  <2> QED
    BY <2>1, Sizes DEF Sound, Breaker, Ages
<1> HIDE DEF closed, begun
<1>3. ~o.restarted => Sound(closed, begun, r)
  BY <1>1, <1>2 DEF Sound, Breaker, Room, Recorded, Unrecorded
<1> QED
  BY <1>3 DEF closed, begun

\* A restart under a closed breaker finds room for itself.
LEMMA RestartSound ==
  ASSUME NEW m, NEW o, NEW r, Sound(m, o, r), m.up,
         o.at = "building", ~o.restarted
  PROVE  Sound(m, [o EXCEPT !.restarted = TRUE], Now(r))
<1> DEFINE o2 == [o EXCEPT !.restarted = TRUE]
<1>1. o2 \in CallType /\ o2.at = "building" /\ o2.restarted
  BY DEF Sound, CallType
<1>2. /\ Times(Now(r))
      /\ \A i \in Latest : i # 1 => Now(r)[i] = r[i - 1]
  BY NowTimes DEF Sound
<1>3. m.attempts[MaxRestarts] = Window
  BY DEF Sound, Room, Breaker
<1>4. \A i \in Latest : m.attempts[i] <= r[i]
  BY DEF Sound, Recorded, Unrecorded
<1>5. r[MaxRestarts] = Window
  <2>1. r[MaxRestarts] \in Ages /\ m.attempts[MaxRestarts] <= r[MaxRestarts]
    BY <1>4, Sizes DEF Sound, Times
  <2> QED
    BY <1>3, <2>1, Sizes DEF Ages
<1>6. Now(r)[MaxRestarts + 1] = Window
  <2>1. MaxRestarts + 1 \in Latest /\ MaxRestarts + 1 # 1
        /\ (MaxRestarts + 1) - 1 = MaxRestarts
    BY Sizes
  <2> QED
    BY <1>2, <1>5, <2>1
<1>7. \A i \in Latest : i # 1 => m.attempts[i - 1] <= Now(r)[i]
  BY <1>2, <1>4, Sizes
<1> HIDE DEF o2
<1>8. Sound(m, o2, Now(r))
  BY <1>1, <1>2, <1>6, <1>7 DEF Sound, Room, Recorded, Unrecorded
<1> QED
  BY <1>8 DEF o2

\* _record_attempt, field by field.
LEMMA AttemptedFields ==
  ASSUME NEW m \in MemType, Times(m.attempts)
  PROVE  /\ Attempted(m) \in MemType
         /\ Attempted(m).up = m.up
         /\ Attempted(m).attempts = Now(m.attempts)
         /\ Attempted(m).open = (AtLeast(MaxRestarts, Now(m.attempts)) \/ m.open)
         /\ Attempted(m).since =
              IF AtLeast(MaxRestarts, Now(m.attempts)) THEN 0 ELSE m.since
<1>1. Now(m.attempts) \in [Latest -> Ages]
  BY NowTimes DEF Times
<1>2. AtLeast(MaxRestarts, Now(m.attempts)) \in BOOLEAN /\ 0 \in Ages
  BY Sizes DEF AtLeast, Ages
<1> QED
  BY <1>1, <1>2 DEF Attempted, MemType

\* An attempt leaves at most one more in the window than the limit, and the
\* restart it records, if there was one, is accounted for.
LEMMA RecordSound ==
  ASSUME NEW m, NEW o, NEW r, Sound(m, o, r), m.up,
         o.at \in {"building", "checking"},
         NEW o2 \in CallType, o2.at # "building",
         o2.at = "checking" => o.at = "building",
         o2.at = "idle" => ~o2.restarted
  PROVE  Sound(Attempted(m), o2, r)
<1> DEFINE m2 == Attempted(m)
           a == m.attempts
           b == Now(m.attempts)
<1>1. /\ m \in MemType /\ Times(a) /\ Times(b) /\ Times(r)
      /\ b[1] = 0 /\ \A i \in Latest : i # 1 => b[i] = a[i - 1]
      /\ \A i \in Latest : b[i] <= a[i]
      /\ \A i \in Latest : a[i] \in Ages /\ b[i] \in Ages /\ r[i] \in Ages
  BY NowTimes DEF Sound, Times
<1>2. /\ m2 \in MemType /\ m2.up /\ m2.attempts = b
      /\ m2.open = (AtLeast(MaxRestarts, b) \/ m.open)
      /\ m2.since = IF AtLeast(MaxRestarts, b) THEN 0 ELSE m.since
  BY <1>1, AttemptedFields
<1>3. a[MaxRestarts + 1] = Window
  <2>1. CASE o.at = "checking"
    BY <2>1 DEF Sound, Room
  <2>2. CASE o.at = "building"
    <3>1. a[MaxRestarts] = Window
      BY <2>2 DEF Sound, Room, Breaker
    <3>2. a[MaxRestarts] <= a[MaxRestarts + 1]
      BY <1>1, Sizes DEF Times, InOrder
    <3> QED
      BY <1>1, <3>1, <3>2, Sizes DEF Ages
  <2> QED
    BY <2>1, <2>2
<1>4. b[MaxRestarts + 2] = Window
  <2>1. MaxRestarts + 2 # 1 /\ (MaxRestarts + 2) - 1 = MaxRestarts + 1
    BY Sizes
  <2> QED
    BY <1>1, <1>3, <2>1, Sizes
<1>5. o.at = "building" => b[MaxRestarts + 1] = Window
  <2>1. MaxRestarts + 1 # 1 /\ (MaxRestarts + 1) - 1 = MaxRestarts
    BY Sizes
  <2>2. o.at = "building" => a[MaxRestarts] = Window
    BY DEF Sound, Room, Breaker
  <2> QED
    BY <1>1, <2>1, <2>2, Sizes
<1>6. Breaker(m2)
  <2>1. CASE AtLeast(MaxRestarts, b)
    <3>1. m2.open = TRUE
      BY <1>2, <2>1
    <3>2. m2.since = 0
      BY <1>2, <2>1
    <3>3. b[MaxRestarts] \in Nat /\ m2.attempts[MaxRestarts] = b[MaxRestarts]
      BY <1>1, <1>2, Sizes DEF Ages
    <3> HIDE DEF m2, b
    <3> QED
      BY <3>1, <3>2, <3>3 DEF Breaker
  <2>2. CASE ~AtLeast(MaxRestarts, b)
    <3>1. b[MaxRestarts] = Window
      BY <1>1, <2>2, Sizes DEF AtLeast, Ages
    <3>2. m.since \in Ages
      BY <1>1 DEF MemType
    <3> QED
      BY <1>2, <2>2, <3>1, <3>2, Sizes DEF Breaker, Ages
  <2> QED
    BY <2>1, <2>2
<1>7. \A i \in Latest : b[i] <= r[i]
  <2>1. CASE Unrecorded(o)
    <3>1. \A i \in Latest : i # 1 => a[i - 1] <= r[i]
      BY <2>1 DEF Sound, Recorded
    <3> QED
      BY <1>1, <3>1 DEF Ages
  <2>2. CASE ~Unrecorded(o)
    <3>1. \A i \in Latest : a[i] <= r[i]
      BY <2>2 DEF Sound, Recorded
    <3> QED
      BY <1>1, <3>1, Sizes DEF Ages
  <2> QED
    BY <2>1, <2>2
<1>8. r[MaxRestarts + 1] = Window
  BY DEF Sound
<1> HIDE DEF m2, a, b
<1>9. Sound(m2, o2, r)
  BY <1>1, <1>2, <1>4, <1>5, <1>6, <1>7, <1>8
     DEF Sound, Room, Recorded, Unrecorded
<1> QED
  BY <1>9 DEF m2
\* Time passes: the order of events stays, and what leaves the window leaves
\* it for good.
LEMMA TickSound ==
  ASSUME NEW m, NEW o, NEW r, Sound(m, o, r)
  PROVE  Sound([m EXCEPT !.attempts = Aged(@), !.since = Older(@)], o, Aged(r))
<1> DEFINE m2 == [m EXCEPT !.attempts = Aged(@), !.since = Older(@)]
           a == m.attempts
<1>1. /\ m \in MemType /\ Times(a) /\ Times(r)
      /\ Times(Aged(a)) /\ Times(Aged(r))
      /\ \A i \in Latest : Aged(a)[i] = Older(a[i]) /\ Aged(r)[i] = Older(r[i])
      /\ \A i \in Latest : a[i] \in Ages /\ r[i] \in Ages
      /\ m.since \in Ages
  BY AgedTimes DEF Sound, Times, MemType
<1>2. /\ m2.up = m.up /\ m2.attempts = Aged(a) /\ m2.open = m.open
      /\ m2.since = Older(m.since)
      /\ m2 \in MemType
  BY <1>1, OlderFacts DEF MemType, Times
<1>3. ASSUME NEW i \in Latest
      PROVE  /\ a[i] = Window => Aged(a)[i] = Window
             /\ r[i] = Window => Aged(r)[i] = Window
  BY <1>1, OlderFacts
<1>4. ASSUME NEW i \in Latest, NEW j \in Latest, a[i] <= r[j]
      PROVE  Aged(a)[i] <= Aged(r)[j]
  BY <1>1, <1>4, OlderFacts
<1>5. Breaker(m2)
  <2>1. ~m.open => Aged(a)[MaxRestarts] = Window
    BY <1>3, Sizes DEF Sound, Breaker
  <2>2. m.open => Older(m.since) <= Aged(a)[MaxRestarts]
    BY <1>1, OlderFacts, Sizes DEF Sound, Breaker
  <2> QED
    BY <1>2, <2>1, <2>2 DEF Breaker
<1>6. Room(m2, o)
  BY <1>2, <1>3, Sizes DEF Sound, Room
<1>7. Recorded(m2, o, Aged(r))
  BY <1>2, <1>4, Sizes DEF Sound, Recorded
<1>8. ~m2.up => o = NoCall /\ Aged(r) = Never
  <2>1. Aged(Never) = Never
    BY Sizes DEF Aged, Never, Older
  <2> QED
    BY <1>2, <2>1 DEF Sound
<1> HIDE DEF m2
<1>9. Sound(m2, o, Aged(r))
  BY <1>1, <1>2, <1>3, <1>5, <1>6, <1>7, <1>8, Sizes DEF Sound
<1> QED
  BY <1>9 DEF m2
-----------------------------------------------------------------------------
(* What a step does to the system.                                          *)

LEMMA InitInv == Init => IInv
<1> SUFFICES ASSUME Init PROVE IInv
  OBVIOUS
<1>1. Sound(DownMem, NoCall, Never)
  BY DownSound
<1>2. DownMem.up = FALSE
  BY DEF DownMem, NoAttempts
<1>3. file \in FileType
  BY Sizes DEF Init, FileType, Ages
<1> QED
  BY <1>1, <1>2, <1>3 DEF Init, IInv, Sound, Times

\* A step of one process: its own parts stay sound, and the file is either as
\* it was or saved by this process.
LEMMA OneMoves ==
  ASSUME IInv, NEW p \in Procs, NEW m, NEW o, NEW r,
         mem' = [mem EXCEPT ![p] = m], op' = [op EXCEPT ![p] = o],
         restarts' = [restarts EXCEPT ![p] = r],
         Sound(m, o, r), file' \in FileType,
         file' = file \/ file'.by = p,
         m.up /\ file'.by = p => Same(file', m)
  PROVE  IInv'
<1>1. /\ mem' \in [Procs -> MemType] /\ op' \in [Procs -> CallType]
      /\ restarts' \in [Procs -> [Latest -> Ages]]
  BY DEF IInv, Sound, Times
<1>2. /\ mem'[p] = m /\ op'[p] = o /\ restarts'[p] = r
      /\ \A q \in Procs : q # p =>
           mem'[q] = mem[q] /\ op'[q] = op[q] /\ restarts'[q] = restarts[q]
  BY DEF IInv
<1>3. ASSUME NEW q \in Procs PROVE Sound(mem'[q], op'[q], restarts'[q])
  BY <1>2 DEF IInv
<1>4. ASSUME NEW q \in Procs, mem'[q].up, file'.by = q
      PROVE  Same(file', mem'[q])
  BY <1>2, <1>4 DEF IInv
<1>5. (\A q \in Procs : Sound(mem'[q], op'[q], restarts'[q]))
      <=> (\A q \in Procs : Sound(mem[q], op[q], restarts[q]))'
  BY DEF Sound, Times, InOrder, Breaker, Room, Recorded, Unrecorded
<1>6. (\A q \in Procs : mem'[q].up /\ file'.by = q => Same(file', mem'[q]))
      <=> (\A q \in Procs : mem[q].up /\ file.by = q => Same(file, mem[q]))'
  BY DEF Same, Pausing
<1> QED
  BY <1>1, <1>3, <1>4, <1>5, <1>6 DEF IInv

\* Nothing but the call of p changes.
LEMMA CallMoves ==
  ASSUME IInv, NEW p \in Procs, NEW o \in CallType,
         op' = [op EXCEPT ![p] = o], UNCHANGED <<mem, file, restarts>>,
         mem[p].up, ~Unrecorded(op[p]), ~Unrecorded(o),
         o.at = "building" => ~mem[p].open,
         o.at = "checking" => op[p].at = "checking",
         o.at = "idle" => ~o.restarted
  PROVE  IInv'
<1>1. Sound(mem[p], o, restarts[p])
  BY CallSound DEF IInv
<1>2. /\ mem' = [mem EXCEPT ![p] = mem[p]]
      /\ restarts' = [restarts EXCEPT ![p] = restarts[p]]
  BY DEF IInv
<1> QED
  BY <1>1, <1>2, OneMoves DEF IInv

LEMMA ReturnedCall ==
  ASSUME NEW p
  PROVE  /\ Returned(p) \in CallType /\ ~Returned(p).restarted
         /\ Returned(p).at \in {"idle", "done"}
         /\ NoCall \in CallType /\ ~NoCall.restarted /\ NoCall.at = "idle"
<1>1. NoCall \in CallType /\ ~NoCall.restarted /\ NoCall.at = "idle"
  BY Sizes DEF NoCall, CallType
<1> DEFINE at == IF p = Daemon THEN "idle" ELSE "done"
<1>2. at \in {"idle", "done"} /\ Returned(p) = [NoCall EXCEPT !.at = at]
  BY DEF Returned
<1> HIDE DEF at
<1> QED
  BY <1>1, <1>2 DEF CallType

\* A save tells the pause of the memory it saves.
LEMMA Saved ==
  ASSUME NEW p \in Procs, NEW m \in MemType, Save(p, m)
  PROVE  file' \in FileType /\ file'.by = p /\ Same(file', m)
BY DEF Save, FileType, MemType, Same, Pausing

\* _record_attempt in place, at the end of a build or of a health check.
LEMMA RecordMoves ==
  ASSUME IInv, NEW p \in Procs, NEW o \in CallType,
         Record(p), op' = [op EXCEPT ![p] = o], UNCHANGED restarts,
         mem[p].up, op[p].at \in {"building", "checking"},
         o.at # "building", o.at = "checking" => op[p].at = "building",
         o.at = "idle" => ~o.restarted
  PROVE  IInv'
<1>1. Sound(mem[p], op[p], restarts[p]) /\ mem \in [Procs -> MemType]
  BY DEF IInv
<1>2. Sound(Attempted(mem[p]), o, restarts[p])
  BY <1>1, RecordSound
<1>3. /\ mem' = [mem EXCEPT ![p] = Attempted(mem[p])]
      /\ restarts' = [restarts EXCEPT ![p] = restarts[p]]
      /\ Save(p, Attempted(mem[p]))
  BY <1>1 DEF Record, IInv
<1>4. file' \in FileType /\ file'.by = p /\ Same(file', Attempted(mem[p]))
  <2>1. Attempted(mem[p]) \in MemType
    BY <1>2 DEF Sound
  <2> QED
    BY <1>3, <2>1, Saved
<1> QED
  BY <1>2, <1>3, <1>4, OneMoves

LEMMA ProcMoves ==
  ASSUME IInv, NEW p \in Procs,
         \/ Start(p) \/ Dies(p) \/ Refused(p) \/ Accepted(p)
         \/ Refill(p) \/ ResetCircuit(p) \/ Step(p)
  PROVE  IInv'
<1>0. /\ Sound(mem[p], op[p], restarts[p])
      /\ mem[p].up /\ file.by = p => Same(file, mem[p])
      /\ mem[p] \in MemType /\ op[p] \in CallType /\ file \in FileType
      /\ mem = [mem EXCEPT ![p] = mem[p]]
      /\ op = [op EXCEPT ![p] = op[p]]
      /\ restarts = [restarts EXCEPT ![p] = restarts[p]]
  BY DEF IInv
<1>up. ~mem[p].up => op[p].at = "idle" /\ ~op[p].restarted /\ restarts[p] = Never
  BY <1>0 DEF Sound, NoCall
<1>1. CASE Start(p)
  <2> DEFINE open == file.open /\ file.since < Window
  <2>1. open \in BOOLEAN /\ file.since \in Ages /\ NoAttempts \in MemType
    BY <1>0, NeverTimes, Sizes DEF FileType, Ages, NoAttempts, MemType, Times
  <2>2. /\ Loaded.up /\ Loaded.attempts = Never /\ Loaded.open = open
        /\ Loaded.since = file.since /\ Loaded \in MemType
    <3>1. Loaded = [NoAttempts EXCEPT !.open = open, !.since = file.since]
      BY DEF Loaded
    <3>2. NoAttempts.up /\ NoAttempts.attempts = Never
      BY DEF NoAttempts
    <3> HIDE DEF open
    <3> QED
      BY <2>1, <3>1, <3>2 DEF MemType
  <2>3. Sound(Loaded, op[p], Never)
    BY <1>0, <1>1, <1>up, <2>2, FreshSound DEF Start
  <2>4. Same(file, Loaded)
    BY <2>2 DEF Same, Pausing
  <2> QED
    BY <1>0, <1>1, <1>up, <2>3, <2>4, OneMoves DEF Start
<1>2. CASE Dies(p)
  <2>1. DownMem.up = FALSE
    BY DEF DownMem, NoAttempts
  <2> QED
    BY <1>0, <1>2, <2>1, DownSound, OneMoves DEF Dies
<1>3. CASE Refused(p)
  BY <1>0, <1>3, ReturnedCall, CallMoves
     DEF Refused, Return, Idle, Unrecorded
<1>4. CASE Accepted(p)
  <2> DEFINE closed == [mem[p] EXCEPT !.open = FALSE]
             begun == [op[p] EXCEPT !.at = "building"]
  <2>1. /\ mem[p].up /\ op[p].at = "idle" /\ (~mem[p].open \/ mem[p].since = Window)
        /\ mem' = [mem EXCEPT ![p] = closed] /\ op' = [op EXCEPT ![p] = begun]
        /\ UNCHANGED <<file, restarts>>
    BY <1>4 DEF Accepted, Idle
  <2>2. ~op[p].restarted
    BY <1>0, <2>1 DEF Sound, Room
  <2>3. Sound(closed, begun, restarts[p])
    BY <1>0, <2>1, <2>2, AcceptedSound
  <2>4. closed.up /\ closed.open = FALSE /\ closed.since = mem[p].since
    BY <1>0, <2>1 DEF MemType
  <2>5. file.by = p => Same(file, closed)
    BY <1>0, <2>1, <2>4, Sizes DEF Same, Pausing, MemType, Ages
  <2> HIDE DEF closed, begun
  <2> QED
    BY <1>0, <2>1, <2>3, <2>5, OneMoves
<1>5. CASE Refill(p)
  <2>1. /\ [op[p] EXCEPT !.at = "refilling"] \in CallType
        /\ [op[p] EXCEPT !.at = "refilling"].at = "refilling"
    BY <1>0 DEF CallType
  <2> QED
    BY <1>0, <1>5, <2>1, CallMoves DEF Refill, Idle, Unrecorded
<1>6. CASE ResetCircuit(p)
  <2>1. NoAttempts \in MemType /\ NoAttempts.up /\ NoAttempts.attempts = Never
    BY NeverTimes, Sizes DEF NoAttempts, MemType, Times, Ages
  <2>2. ~op[p].restarted
    BY <1>0, <1>6 DEF ResetCircuit, Idle, Sound, Room
  <2>3. Sound(NoAttempts, op[p], Never)
    BY <1>0, <1>6, <2>1, <2>2, FreshSound DEF ResetCircuit, Idle
  <2>4. file' \in FileType /\ file'.by = p /\ Same(file', NoAttempts)
    BY <1>6, <2>3, Saved DEF ResetCircuit, Sound
  <2> QED
    BY <1>0, <1>6, <2>3, <2>4, OneMoves DEF ResetCircuit
<1>7. CASE RestartCore(p)
  <2>1. /\ mem[p].up /\ op[p].at = "building" /\ ~op[p].restarted
        /\ op' = [op EXCEPT ![p] = [op[p] EXCEPT !.restarted = TRUE]]
        /\ restarts' = [restarts EXCEPT ![p] = Now(restarts[p])]
        /\ UNCHANGED <<mem, file>>
    BY <1>up, <1>7 DEF RestartCore
  <2>2. Sound(mem[p], [op[p] EXCEPT !.restarted = TRUE], Now(restarts[p]))
    BY <1>0, <2>1, RestartSound
  <2> QED
    BY <1>0, <2>1, <2>2, OneMoves
<1>8. CASE AppliedLive(p)
  BY <1>0, <1>up, <1>8, ReturnedCall, CallMoves DEF AppliedLive, Return, Unrecorded
<1>9. CASE Failed(p)
  BY <1>0, <1>up, <1>9, ReturnedCall, RecordMoves DEF Failed, Return
<1>10. CASE Restarted(p)
  <2>1. /\ [op[p] EXCEPT !.at = "checking", !.tries = HealthRetries] \in CallType
        /\ [op[p] EXCEPT !.at = "checking", !.tries = HealthRetries].at = "checking"
    <3> DEFINE o == [op[p] EXCEPT !.at = "checking"]
    <3>1. o \in CallType /\ o.at = "checking" /\ HealthRetries \in 0..HealthRetries
      BY <1>0, Sizes DEF CallType
    <3>2. [op[p] EXCEPT !.at = "checking", !.tries = HealthRetries]
            = [o EXCEPT !.tries = HealthRetries]
      OBVIOUS
    <3> HIDE DEF o
    <3> QED
      BY <3>1, <3>2 DEF CallType
  <2>2. op' = [op EXCEPT ![p] = [op[p] EXCEPT !.at = "checking", !.tries = HealthRetries]]
    BY <1>10 DEF Restarted
  <2> QED
    BY <1>0, <1>up, <1>10, <2>1, <2>2, RecordMoves DEF Restarted
<1>11. CASE Healthy(p)
  BY <1>0, <1>up, <1>11, ReturnedCall, CallMoves DEF Healthy, Return, Unrecorded
<1>12. CASE ProbeFails(p)
  <2>1. /\ [op[p] EXCEPT !.tries = @ - 1] \in CallType
        /\ [op[p] EXCEPT !.tries = @ - 1].at = "checking"
    BY <1>0, <1>12, Sizes DEF ProbeFails, CallType
  <2> QED
    BY <1>0, <1>up, <1>12, <2>1, CallMoves DEF ProbeFails, Unrecorded
<1>13. CASE Unhealthy(p)
  BY <1>0, <1>up, <1>13, ReturnedCall, RecordMoves DEF Unhealthy, Return
<1>14. CASE Refilled(p)
  BY <1>0, <1>up, <1>14, ReturnedCall, CallMoves DEF Refilled, Return, Unrecorded
<1> QED
  BY <1>1, <1>2, <1>3, <1>4, <1>5, <1>6, <1>7, <1>8, <1>9, <1>10, <1>11,
     <1>12, <1>13, <1>14 DEF Step
LEMMA TickMoves == ASSUME IInv, Tick PROVE IInv'
<1> DEFINE M(p) == [mem[p] EXCEPT !.attempts = Aged(@), !.since = Older(@)]
<1>1. ASSUME NEW p \in Procs PROVE Sound(M(p), op[p], Aged(restarts[p]))
  BY TickSound DEF IInv
<1>2. /\ mem' = [p \in Procs |-> M(p)] /\ op' = op
      /\ restarts' = [p \in Procs |-> Aged(restarts[p])]
      /\ file' = [file EXCEPT !.since = Older(@)]
  BY DEF Tick
<1>3. file \in FileType /\ file' \in FileType /\ file'.by = file.by
      /\ file'.open = file.open /\ file'.since = Older(file.since)
  BY <1>2, OlderFacts DEF IInv, FileType
<1>4. ASSUME NEW p \in Procs
      PROVE  /\ M(p).up = mem[p].up /\ M(p).open = mem[p].open
             /\ M(p).since = Older(mem[p].since) /\ mem[p].since \in Ages
  BY DEF IInv, MemType
<1>5. ASSUME NEW p \in Procs, M(p).up, file'.by = p PROVE Same(file', M(p))
  <2>1. Same(file, mem[p])
    BY <1>3, <1>4, <1>5 DEF IInv
  <2>2. file.since \in Ages /\ mem[p].since \in Ages
    BY <1>3, <1>4 DEF FileType
  <2> HIDE DEF M
  <2> QED
    BY <1>3, <1>4, <2>1, <2>2, OlderFacts DEF Same, Pausing
<1> HIDE DEF M
<1>6. /\ mem' \in [Procs -> MemType] /\ op' \in [Procs -> CallType]
      /\ restarts' \in [Procs -> [Latest -> Ages]]
  BY <1>1, <1>2 DEF IInv, Sound, Times
<1>7. (\A q \in Procs : Sound(mem[q], op[q], restarts[q]))'
  BY <1>1, <1>2 DEF Sound, Times, InOrder, Breaker, Room, Recorded, Unrecorded
<1>8. (\A q \in Procs : mem[q].up /\ file.by = q => Same(file, mem[q]))'
  BY <1>2, <1>5 DEF Same, Pausing
<1> QED
  BY <1>3, <1>6, <1>7, <1>8 DEF IInv

LEMMA NextInv == IInv /\ [Next]_vars => IInv'
<1> SUFFICES ASSUME IInv, [Next]_vars PROVE IInv'
  OBVIOUS
<1>1. CASE Next
  BY <1>1, ProcMoves, TickMoves DEF Next
<1>2. CASE UNCHANGED vars
  BY <1>2 DEF vars, IInv, Sound, Times, InOrder, Breaker, Room, Recorded,
              Unrecorded, Same, Pausing
<1> QED
  BY <1>1, <1>2

\* The inductive invariant holds throughout.
THEOREM Inductive == Spec => []IInv
<1>1. Init => IInv
  BY InitInv
<1>2. IInv /\ [Next]_vars => IInv'
  BY NextInv
<1> QED
  BY <1>1, <1>2, PTL DEF Spec

-----------------------------------------------------------------------------
(* What follows.                                                            *)

\* Type correctness, with the most the window ever holds: the limit and the
\* one attempt that a failed health check adds.
THEOREM TypeCorrect == Spec => []TypeOK
<1>1. IInv => TypeOK
  <2> SUFFICES ASSUME IInv PROVE TypeOK
    OBVIOUS
  <2>1. ASSUME NEW p \in Procs
        PROVE  /\ mem[p] \in MemType /\ op[p] \in CallType
               /\ restarts[p] \in [Latest -> Ages]
               /\ mem[p].attempts[MaxRestarts + 2] = Window
    BY DEF IInv, Sound, Room
  <2>2. file \in FileType
    BY DEF IInv
  <2> QED
    BY <2>1, <2>2, Sizes DEF TypeOK, MemType, CallType, FileType, AtLeast
<1> QED
  BY <1>1, Inductive, PTL

\* No incarnation of a process restarts the core more than MaxRestarts times
\* in any window: a restart needs a breaker that is closed, a breaker closes
\* only with room in the window, and every restart counts in it.
THEOREM BreakerBounds == Spec => []RestartsBounded
<1>1. IInv => RestartsBounded
  <2>1. ~(Window < Window)
    BY Sizes
  <2> QED
    BY <2>1 DEF IInv, Sound, RestartsBounded, AtLeast
<1> QED
  BY <1>1, Inductive, PTL

\* The file tells the pause of the process that saved it last, so that a
\* restart of the daemon does not end it.
THEOREM FileKeepsPause == Spec => []FileTellsPause
<1>1. IInv => FileTellsPause
  BY DEF IInv, Same, FileTellsPause
<1> QED
  BY <1>1, Inductive, PTL
==============================================================================
