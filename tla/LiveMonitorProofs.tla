--------------------------- MODULE LiveMonitorProofs ---------------------------
(***************************************************************************)
(* Hysteresis and the flap guard of LiveMonitor, proved for every set of   *)
(* servers, every threshold and every window.                              *)
(***************************************************************************)
EXTENDS LiveMonitor, Integers, TLAPS

-----------------------------------------------------------------------------
(* The invariant.                                                           *)

SigType == [tag : Tags \cup {NoTag}, errors : [Newest -> 0..Expired],
            retransmit : 0..Expired, bad : 0..Hysteresis]
CtlType == [sinceSwitch : 0..Cooldown, target : Tags \cup {NoTag},
            failures : [Listed -> 0..Absent], open : BOOLEAN]
LoopType == [at : {"poll", "sample", "probe", "decide", "switch", "record"},
             tag : Tags \cup {NoTag}, todo : SUBSET Tags,
             target : Tags \cup {NoTag}, age : 0..LongAgo, ok : BOOLEAN]

Shapes ==
  /\ active \in Tags /\ loop \in LoopType /\ signal \in SigType
  /\ journal \in {"tail", "bad", "good", "ended"}
  /\ good \in [Tags -> 0..NotReady]
  /\ ctl \in CtlType
  /\ answered \in [Decided -> 0..Past]
  /\ fresh \in 0..Hysteresis

\* A decision that is made and not recorded yet.
Pending == loop.at \in {"switch", "record"}

LoopInv ==
  /\ loop.at \in {"poll", "sample"} => loop.todo = {}
  /\ loop.todo \subseteq Tags \ {loop.tag}
  /\ Pending => loop.target \in Tags \ {loop.tag}
  /\ Pending => \A i \in Decided : Capped(loop.age) <= answered[i]

\* The count of bad judgements against the judgements of this server: one that
\* the journal thread has made and not counted is in the second number only,
\* unless the server has changed since.
FreshInv ==
  /\ signal.bad <= fresh + 1
  /\ journal \in {"bad", "good"} => signal.bad <= fresh

\* A closed breaker has fewer failures than its limit, and a switch is only
\* under way with the breaker closed and the cooldown over.
BreakerInv ==
  /\ ctl.failures[MaxFailures + 1] = Absent
  /\ ~ctl.open => ctl.failures[MaxFailures] = Absent
  /\ Pending => ~ctl.open /\ ctl.sinceSwitch = Cooldown

InOrder == \A i, k \in Decided : i <= k => answered[i] <= answered[k]

\* What the next decision to be answered is apart from the latest one that
\* was: the time since the last switch recorded, and for a decision under way,
\* made when the cooldown was over, its age besides.
Waited == IF loop.age < Cooldown THEN loop.age ELSE Cooldown
Rest == IF Pending THEN Cooldown + Waited ELSE ctl.sinceSwitch

\* With fewer than j failures since the i-th latest decision, all but j of
\* the i decisions since then were followed by a whole cooldown.
Apart(times, failures, rest) ==
  \A i \in Decided : \A j \in 1..MaxFailures :
    times[i] <= FailureWindow /\ times[i] < failures[j]
      => times[i] >= Cooldown * (i - j) + rest

SpacingInv ==
  /\ answered[MostSwitches + 1] = Past
  /\ ~ctl.open => Apart(answered, ctl.failures, Rest)

IInv ==
  /\ Shapes /\ LoopInv /\ FreshInv /\ BreakerInv /\ InOrder
  /\ SpacingInv

-----------------------------------------------------------------------------
(* The constants.                                                           *)

LEMMA Sizes ==
  /\ ErrorThreshold \in Nat \ {0} /\ Hysteresis \in Nat \ {0} /\ ErrorWindow \in Nat
  /\ Cooldown \in Nat \ {0} /\ MaxFailures \in Nat \ {0} /\ FailureWindow \in Nat
  /\ Stale \in Nat /\ NoTag \notin Tags
  /\ Expired \in Nat /\ Absent \in Nat /\ Past \in Nat /\ NotReady \in Nat
  /\ LongAgo \in Nat /\ LongAgo >= Cooldown /\ LongAgo > FailureWindow
BY TagAssumption, SignalAssumption, FailoverAssumption, MonitorAssumption
   DEF Expired, Absent, Past, NotReady, LongAgo

-----------------------------------------------------------------------------
(* The signal.                                                              *)

LEMMA CountedFacts ==
  ASSUME NEW sig \in SigType, NEW isBad
  PROVE  /\ Counted(sig, isBad) \in SigType
         /\ Counted(sig, isBad).tag = sig.tag
         /\ Counted(sig, isBad).bad <= sig.bad + 1
<1> DEFINE n == IF ~isBad THEN 0 ELSE IF sig.bad < Hysteresis THEN sig.bad + 1 ELSE sig.bad
<1>1. sig.bad \in 0..Hysteresis
  BY DEF SigType
<1>2. n \in 0..Hysteresis /\ n <= sig.bad + 1
  BY <1>1, Sizes
<1>3. Counted(sig, isBad) = [sig EXCEPT !.bad = n]
  BY DEF Counted
<1> HIDE DEF n
<1> QED
  BY <1>2, <1>3 DEF SigType

LEMMA EvaluatedFacts ==
  ASSUME NEW sig \in SigType
  PROVE  /\ Evaluated(sig) \in SigType
         /\ Evaluated(sig).tag = sig.tag
         /\ Evaluated(sig).bad <= sig.bad + 1
BY CountedFacts DEF Evaluated

LEMMA WithErrorsFacts ==
  ASSUME NEW sig \in SigType, NEW n \in Nat
  PROVE  /\ WithErrors(sig, n) \in SigType
         /\ WithErrors(sig, n).tag = sig.tag
         /\ WithErrors(sig, n).bad = sig.bad
<1> DEFINE errors == [i \in Newest |-> IF i <= n THEN 0 ELSE sig.errors[i - n]]
<1>1. errors \in [Newest -> 0..Expired]
  <2> SUFFICES ASSUME NEW i \in Newest, i > n PROVE sig.errors[i - n] \in 0..Expired
    BY Sizes DEF Newest
  <2>1. i - n \in Newest
    BY Sizes DEF Newest
  <2> QED
    BY <2>1 DEF SigType
<1>2. WithErrors(sig, n) = [sig EXCEPT !.errors = errors]
  BY DEF WithErrors
<1> HIDE DEF errors
<1> QED
  BY <1>1, <1>2 DEF SigType

LEMMA WithRetransmitsFacts ==
  ASSUME NEW sig \in SigType, NEW many \in BOOLEAN
  PROVE  /\ WithRetransmits(sig, many) \in SigType
         /\ WithRetransmits(sig, many).tag = sig.tag
         /\ WithRetransmits(sig, many).bad = sig.bad
BY Sizes DEF WithRetransmits, SigType

LEMMA NoSignalFacts ==
  NoSignal \in SigType /\ NoSignal.bad = 0 /\ NoSignal.tag = NoTag
BY Sizes DEF NoSignal, SigType, Newest

\* A change of server starts the count anew.
LEMMA ActivatedFacts ==
  ASSUME NEW sig \in SigType, NEW tag \in Tags
  PROVE  /\ Activated(sig, tag) \in SigType
         /\ sig.tag = tag => Activated(sig, tag) = sig
         /\ sig.tag # tag => Activated(sig, tag).bad = 0
BY NoSignalFacts DEF Activated, SigType

LEMMA LaterFacts ==
  ASSUME NEW limit \in Nat, NEW age \in 0..limit
  PROVE  /\ Later(age, limit) \in 0..limit
         /\ Later(age, limit) = IF age < limit THEN age + 1 ELSE limit
BY DEF Later

LEMMA SignalAgedFacts ==
  ASSUME NEW sig \in SigType
  PROVE  SignalAged(sig) \in SigType /\ SignalAged(sig).bad = sig.bad
<1> DEFINE errors == [i \in Newest |-> Later(sig.errors[i], Expired)]
           retransmit == Later(sig.retransmit, Expired)
           middle == [sig EXCEPT !.errors = errors]
<1>1. errors \in [Newest -> 0..Expired] /\ retransmit \in 0..Expired
  BY LaterFacts, Sizes DEF SigType
<1>2. SignalAged(sig) = [middle EXCEPT !.retransmit = retransmit]
  BY DEF SignalAged
<1> HIDE DEF errors, retransmit
<1>3. middle \in SigType /\ middle.bad = sig.bad
  BY <1>1 DEF SigType
<1> HIDE DEF middle
<1> QED
  BY <1>1, <1>2, <1>3 DEF SigType

\* Judging so often moves the second number at least as far as the first.
LEMMA JudgedFacts ==
  ASSUME fresh \in 0..Hysteresis, NEW n \in 0..2, JudgedTimes(n)
  PROVE  /\ fresh' \in 0..Hysteresis
         /\ \A bad \in 0..Hysteresis : bad <= fresh + n => bad <= fresh'
         /\ \A bad \in 0..Hysteresis : bad <= fresh + 1 + n => bad <= fresh' + 1
BY Sizes DEF JudgedTimes

\* The count and the judgements of this server, over one step.
FreshStep ==
  /\ signal' \in SigType /\ fresh' \in 0..Hysteresis
  /\ FreshInv'

LEMMA NextFresh ==
  ASSUME Shapes, FreshInv, Next
  PROVE  FreshStep
<1>0. /\ signal \in SigType /\ signal.bad \in 0..Hysteresis
      /\ fresh \in 0..Hysteresis /\ active \in Tags
      /\ journal \in {"tail", "bad", "good", "ended"}
  BY DEF Shapes, SigType
<1>same. ASSUME UNCHANGED <<signal, fresh>>,
                journal' = journal \/ journal' \in {"tail", "ended"}
         PROVE  FreshStep
  BY <1>0, <1>same DEF FreshStep, FreshInv
\* A judgement that is counted at once.
<1>judge. ASSUME NEW n \in 0..2, JudgedTimes(n), signal' \in SigType,
                 signal'.bad <= signal.bad + n, journal' = journal
          PROVE  FreshStep
  <2>1. signal'.bad \in 0..Hysteresis
    BY <1>judge DEF SigType
  <2>2. signal'.bad <= fresh + 1 + n
    BY <1>0, <1>judge, <2>1 DEF FreshInv
  <2>3. journal \in {"bad", "good"} => signal'.bad <= fresh + n
    BY <1>0, <1>judge, <2>1 DEF FreshInv
  <2> QED
    BY <1>0, <1>judge, <2>1, <2>2, <2>3, JudgedFacts DEF FreshStep, FreshInv
<1>1. CASE WriteStatus \/ DoFailover
  <2>1. /\ journal' = journal
        /\ \/ signal' = Evaluated(signal) /\ JudgedTimes(1)
           \/ UNCHANGED <<signal, fresh>>
    BY <1>1 DEF WriteStatus, DoFailover
  <2> QED
    BY <1>0, <2>1, <1>judge, <1>same, EvaluatedFacts
<1>2. CASE Poll
  <2>1. /\ signal' = Activated(signal, active) /\ journal' = journal
        /\ fresh' = IF signal.tag = active THEN fresh ELSE 0
    BY <1>2 DEF Poll
  <2> QED
    BY <1>0, <2>1, ActivatedFacts, Sizes DEF FreshStep, FreshInv
<1>3. CASE Sample
  <2>1. CASE UNCHANGED <<signal, fresh>>
    BY <1>3, <2>1, <1>same DEF Sample
  <2>2. CASE \E many \in BOOLEAN : signal' = Evaluated(WithRetransmits(signal, many))
                                  /\ JudgedTimes(1)
    <3>1. PICK many \in BOOLEAN : signal' = Evaluated(WithRetransmits(signal, many))
                                 /\ JudgedTimes(1)
      BY <2>2
    <3>2. signal' \in SigType /\ signal'.bad <= signal.bad + 1
      BY <1>0, <3>1, WithRetransmitsFacts, EvaluatedFacts
    <3> QED
      BY <1>3, <3>1, <3>2, <1>judge DEF Sample
  <2> QED
    BY <1>3, <2>1, <2>2 DEF Sample
<1>4. CASE Check
  <2>1. CASE signal' = Evaluated(signal) /\ JudgedTimes(1)
    BY <1>0, <1>4, <2>1, <1>judge, EvaluatedFacts DEF Check
  <2>2. CASE \E n \in 0..ErrorThreshold :
               signal' = Evaluated(Evaluated(WithErrors(signal, n))) /\ JudgedTimes(2)
    <3>1. PICK n \in 0..ErrorThreshold :
            signal' = Evaluated(Evaluated(WithErrors(signal, n))) /\ JudgedTimes(2)
      BY <2>2
    <3> DEFINE once == Evaluated(WithErrors(signal, n))
    <3>2. n \in Nat
      BY Sizes
    <3>3. once \in SigType /\ once.bad <= signal.bad + 1
      BY <1>0, <3>2, WithErrorsFacts, EvaluatedFacts
    <3>4. once.bad \in Nat
      BY <3>3 DEF SigType
    <3>5. signal' \in SigType /\ signal'.bad <= once.bad + 1
      BY <3>1, <3>3, EvaluatedFacts
    <3>6. signal'.bad \in Nat
      BY <3>5 DEF SigType
    <3> HIDE DEF once
    <3>7. signal'.bad <= signal.bad + 2
      BY <1>0, <3>3, <3>4, <3>5, <3>6
    <3> QED
      BY <1>4, <3>1, <3>5, <3>7, <1>judge DEF Check
  <2> QED
    BY <1>4, <2>1, <2>2 DEF Check
<1>5. CASE JournalLine
  <2>1. PICK n \in {0, IF signal.tag = NoTag THEN 0 ELSE 1} :
          signal' = WithErrors(signal, n) /\ JudgedTimes(1)
          /\ journal' = IF IsBad(WithErrors(signal, n)) THEN "bad" ELSE "good"
    BY <1>5 DEF JournalLine
  <2>2. n \in Nat
    OBVIOUS
  <2>3. signal' \in SigType /\ signal'.bad = signal.bad
    BY <1>0, <2>1, <2>2, WithErrorsFacts
  <2>4. signal'.bad <= fresh + 1
    BY <2>3 DEF FreshInv
  <2> QED
    BY <1>0, <2>1, <2>3, <2>4, JudgedFacts DEF FreshStep, FreshInv
<1>6. CASE JournalCounts
  <2>1. signal' = Counted(signal, journal = "bad") /\ journal' = "tail"
        /\ fresh' = fresh /\ journal \in {"bad", "good"}
    BY <1>6 DEF JournalCounts
  <2>2. signal' \in SigType /\ signal'.bad <= signal.bad + 1
    BY <1>0, <2>1, CountedFacts
  <2>3. signal'.bad \in Nat
    BY <2>2 DEF SigType
  <2> QED
    BY <1>0, <2>1, <2>2, <2>3 DEF FreshStep, FreshInv
<1>7. CASE Tick
  BY <1>0, <1>7, SignalAgedFacts DEF Tick, FreshStep, FreshInv
<1>8. CASE Probe \/ Refused \/ Decide \/ Record \/ LoopFails \/ JournalEnds \/ Reselected
  BY <1>8, <1>same
     DEF Probe, Refused, Decide, Record, LoopFails, JournalEnds, Reselected
<1> QED
  BY <1>1, <1>2, <1>3, <1>4, <1>5, <1>6, <1>7, <1>8 DEF Next, Loop
-----------------------------------------------------------------------------
(* The controller.                                                          *)

Failures == [Listed -> 0..Absent]

\* A failure so long ago, in the list.
First(age) == IF age <= FailureWindow THEN age ELSE FailureWindow + 1
Added(failures, age) ==
  [i \in Listed |-> IF i = 1 THEN First(age) ELSE failures[i - 1]]

LEMMA PrunedFacts ==
  ASSUME NEW c \in CtlType
  PROVE  /\ Pruned(c) \in CtlType
         /\ Pruned(c).sinceSwitch = c.sinceSwitch /\ Pruned(c).open = c.open
         /\ Pruned(c).target = c.target
         /\ \A j \in Listed : Pruned(c).failures[j] =
              IF c.failures[j] <= FailureWindow THEN c.failures[j] ELSE Absent
<1> DEFINE failures == [j \in Listed |-> IF c.failures[j] <= FailureWindow
                                         THEN c.failures[j] ELSE Absent]
<1>1. failures \in Failures
  BY Sizes DEF Failures, CtlType
<1>2. Pruned(c) = [c EXCEPT !.failures = failures]
  BY DEF Pruned
<1>3. \A j \in Listed : failures[j] =
        IF c.failures[j] <= FailureWindow THEN c.failures[j] ELSE Absent
  OBVIOUS
<1> HIDE DEF failures
<1> QED
  BY <1>1, <1>2, <1>3 DEF CtlType, Failures

LEMMA AddedFacts ==
  ASSUME NEW failures \in Failures, NEW age \in Nat
  PROVE  /\ Added(failures, age) \in Failures
         /\ Added(failures, age)[1] = First(age) /\ First(age) \in Nat
         /\ \A j \in Listed : j # 1 => j - 1 \in Listed
                                      /\ Added(failures, age)[j] = failures[j - 1]
<1>1. 1 \in Listed /\ \A j \in Listed : j # 1 => j - 1 \in Listed
  BY Sizes DEF Listed
<1>2. First(age) \in 0..Absent
  BY Sizes DEF First, Absent
<1>3. \A j \in Listed : Added(failures, age)[j] =
        IF j = 1 THEN First(age) ELSE failures[j - 1]
  BY DEF Added
<1>4. \A j \in Listed : Added(failures, age)[j] \in 0..Absent
  BY <1>1, <1>2, <1>3 DEF Failures
<1>5. Added(failures, age) \in Failures
  BY <1>4 DEF Added, Failures
<1> QED
  BY <1>1, <1>2, <1>3, <1>5

LEMMA FailedAtFacts ==
  ASSUME NEW c \in CtlType, NEW age \in Nat
  PROVE  LET d == FailedAt(c, age)
         IN /\ d \in CtlType
            /\ d.sinceSwitch = c.sinceSwitch /\ d.target = c.target
            /\ d.failures = Added(c.failures, age)
            /\ d.open = (c.open \/ Added(c.failures, age)[MaxFailures] # Absent)
<1> DEFINE failures == Added(c.failures, age)
           open == c.open \/ failures[MaxFailures] # Absent
           middle == [c EXCEPT !.failures = failures]
<1>1. failures \in Failures
  BY AddedFacts DEF CtlType, Failures
<1>2. open \in BOOLEAN
  BY DEF CtlType
<1>3. FailedAt(c, age) = [middle EXCEPT !.open = open]
  BY DEF FailedAt, Added, First
<1> HIDE DEF failures, open
<1>4. /\ middle \in CtlType /\ middle.failures = failures
      /\ middle.sinceSwitch = c.sinceSwitch /\ middle.target = c.target
  BY <1>1 DEF CtlType, Failures
<1> HIDE DEF middle
<1>5. LET d == FailedAt(c, age)
      IN /\ d \in CtlType /\ d.open = open /\ d.failures = failures
         /\ d.sinceSwitch = c.sinceSwitch /\ d.target = c.target
  BY <1>2, <1>3, <1>4 DEF CtlType
<1> QED
  BY <1>5 DEF failures, open

\* A breaker that is closed has room for one more, in the list that is kept.
Closed(c) ==
  /\ c.failures[MaxFailures + 1] = Absent
  /\ ~c.open => c.failures[MaxFailures] = Absent

LEMMA PrunedClosed ==
  ASSUME NEW c \in CtlType, Closed(c) PROVE Closed(Pruned(c))
<1>1. MaxFailures \in Listed /\ MaxFailures + 1 \in Listed
  BY Sizes DEF Listed
<1>2. ~(Absent <= FailureWindow)
  BY Sizes DEF Absent
<1> QED
  BY <1>1, <1>2, PrunedFacts DEF Closed

LEMMA FailedAtClosed ==
  ASSUME NEW c \in CtlType, NEW age \in Nat, Closed(c), ~c.open
  PROVE  Closed(FailedAt(c, age))
<1> DEFINE f == Added(c.failures, age)
           d == FailedAt(c, age)
<1>1. MaxFailures + 1 \in Listed /\ MaxFailures + 1 # 1
      /\ (MaxFailures + 1) - 1 = MaxFailures
  BY Sizes DEF Listed
<1>2. c.failures \in Failures
  BY DEF CtlType, Failures
<1>3. f[MaxFailures + 1] = Absent
  BY <1>1, <1>2, AddedFacts DEF Closed
<1>4. d.failures = f /\ d.open = (c.open \/ f[MaxFailures] # Absent)
  BY FailedAtFacts
<1> HIDE DEF f, d
<1>5. Closed(d)
  BY <1>3, <1>4 DEF Closed
<1> QED
  BY <1>5 DEF d

LEMMA JudgedFacts2 ==
  ASSUME NEW c \in CtlType, NEW from, Closed(c)
  PROVE  /\ Judged(c, from) \in CtlType /\ Closed(Judged(c, from))
         /\ Judged(c, from).sinceSwitch = c.sinceSwitch
         /\ Judged(c, from) = c \/ (~c.open /\ Judged(c, from) = FailedAt(c, 0))
<1>1. CASE c.target = from /\ ~c.open
  BY <1>1, FailedAtFacts, FailedAtClosed DEF Judged
<1>2. CASE ~(c.target = from /\ ~c.open)
  BY <1>2 DEF Judged
<1> QED
  BY <1>1, <1>2

LEMMA ControllerAgedFacts ==
  ASSUME NEW c \in CtlType
  PROVE  LET d == ControllerAged(c)
         IN /\ d \in CtlType /\ d.open = c.open
            /\ d.sinceSwitch = Later(c.sinceSwitch, Cooldown)
            /\ \A j \in Listed : d.failures[j] =
                 IF c.failures[j] = Absent THEN Absent
                 ELSE Later(c.failures[j], FailureWindow + 1)
<1> DEFINE failures == [j \in Listed |-> IF c.failures[j] = Absent THEN Absent
                                         ELSE Later(c.failures[j], FailureWindow + 1)]
           since == Later(c.sinceSwitch, Cooldown)
           middle == [c EXCEPT !.sinceSwitch = since]
<1>1. since \in 0..Cooldown
  BY LaterFacts, Sizes DEF CtlType
<1>2. failures \in Failures
  <2> SUFFICES ASSUME NEW j \in Listed, c.failures[j] # Absent
               PROVE  Later(c.failures[j], FailureWindow + 1) \in 0..Absent
    BY Sizes DEF Failures
  <2>1. c.failures[j] \in 0..Absent
    BY DEF CtlType
  <2> QED
    BY <2>1, Sizes DEF Later, Absent
<1>3. ControllerAged(c) = [middle EXCEPT !.failures = failures]
  BY DEF ControllerAged
<1>4. \A j \in Listed : failures[j] = IF c.failures[j] = Absent THEN Absent
                                      ELSE Later(c.failures[j], FailureWindow + 1)
  OBVIOUS
<1> HIDE DEF failures, since
<1>5. middle \in CtlType /\ middle.sinceSwitch = since /\ middle.open = c.open
  BY <1>1 DEF CtlType
<1> HIDE DEF middle
<1>6. LET d == ControllerAged(c)
      IN /\ d \in CtlType /\ d.failures = failures
         /\ d.sinceSwitch = since /\ d.open = c.open
  BY <1>2, <1>3, <1>5 DEF CtlType, Failures
<1> QED
  BY <1>4, <1>6 DEF since

LEMMA SwitchedFacts ==
  ASSUME NEW c \in CtlType, NEW target \in Tags \cup {NoTag}, NEW age \in Nat
  PROVE  LET d == Switched(c, target, age)
         IN /\ d \in CtlType /\ d.open = c.open /\ d.failures = c.failures
            /\ d.sinceSwitch = IF age < Cooldown THEN age ELSE Cooldown
<1> DEFINE since == IF age < Cooldown THEN age ELSE Cooldown
           middle == [c EXCEPT !.sinceSwitch = since]
<1>1. since \in 0..Cooldown
  BY Sizes
<1>2. Switched(c, target, age) = [middle EXCEPT !.target = target]
  BY DEF Switched
<1> HIDE DEF since
<1>3. /\ middle \in CtlType /\ middle.sinceSwitch = since
      /\ middle.open = c.open /\ middle.failures = c.failures
  BY <1>1 DEF CtlType
<1> HIDE DEF middle
<1>4. LET d == Switched(c, target, age)
      IN /\ d \in CtlType /\ d.open = c.open /\ d.failures = c.failures
         /\ d.sinceSwitch = since
  BY <1>2, <1>3 DEF CtlType
<1> QED
  BY <1>4 DEF since
-----------------------------------------------------------------------------
(* The flap guard.                                                          *)

Times == [Decided -> 0..Past]

LEMMA CooldownTimes ==
  /\ \A k \in Int : Cooldown * k \in Int /\ Cooldown * (k + 1) = Cooldown * k + Cooldown
  /\ \A k \in Int : k <= 0 => Cooldown * k <= 0
<1>1. Cooldown \in Int /\ Cooldown > 0
  BY Sizes
<1>2. ASSUME NEW c \in Int, c > 0, NEW k \in Int
      PROVE  /\ c * k \in Int /\ c * (k + 1) = c * k + c
             /\ k <= 0 => c * k <= 0
  BY <1>2
<1> QED
  BY <1>1, <1>2

LEMMA ManySwitches ==
  /\ MostSwitches \in Nat \ {0} /\ MostSwitches + 1 \in Decided
  /\ 1 \in Decided /\ MostSwitches \in Decided
  /\ MostSwitches - MaxFailures \in Nat
  /\ Cooldown * (MostSwitches - MaxFailures) + Cooldown > FailureWindow
  /\ \A i \in Decided : i \in Nat \ {0} /\ (i # 1 => i - 1 \in Decided)
<1> DEFINE q == FailureWindow \div Cooldown
<1>1. q \in Nat /\ Cooldown * q + Cooldown > FailureWindow
  <2>1. ASSUME NEW w \in Nat, NEW c \in Nat \ {0}
        PROVE  w \div c \in Nat /\ c * (w \div c) + c > w
    BY <2>1
  <2> QED
    BY <2>1, Sizes
<1>2. MostSwitches = q + MaxFailures
  BY DEF MostSwitches
<1> HIDE DEF q
<1>3. /\ MostSwitches \in Nat \ {0} /\ MostSwitches - MaxFailures = q
  BY <1>1, <1>2, Sizes
<1> QED
  BY <1>1, <1>3 DEF Decided

\* Pruning forgets no failure that counts.
LEMMA ApartPruned ==
  ASSUME NEW times \in Times, NEW c \in CtlType, NEW rest \in Nat,
         Apart(times, c.failures, rest)
  PROVE  Apart(times, Pruned(c).failures, rest)
<1> SUFFICES ASSUME NEW i \in Decided, NEW j \in 1..MaxFailures,
                    times[i] <= FailureWindow, times[i] < Pruned(c).failures[j]
             PROVE  times[i] >= Cooldown * (i - j) + rest
  BY DEF Apart
<1>1. j \in Listed /\ c.failures[j] \in Nat /\ times[i] \in Nat
  BY Sizes DEF Listed, CtlType, Times
<1>2. times[i] < c.failures[j]
  BY <1>1, PrunedFacts, Sizes
<1> QED
  BY <1>2 DEF Apart

\* One more failure, no earlier than the decision it may be of.
LEMMA ApartAdded ==
  ASSUME NEW times \in Times, NEW failures \in Failures, NEW age \in Nat,
         NEW rest \in Nat, NEW after \in Nat, after <= rest + Cooldown,
         Apart(times, failures, rest),
         \A i \in Decided : times[i] <= FailureWindow => First(age) <= times[i]
  PROVE  Apart(times, Added(failures, age), after)
<1> SUFFICES ASSUME NEW i \in Decided, NEW j \in 1..MaxFailures,
                    times[i] <= FailureWindow, times[i] < Added(failures, age)[j]
             PROVE  times[i] >= Cooldown * (i - j) + after
  BY DEF Apart
<1>1. j \in Listed /\ times[i] \in Nat /\ i \in Nat /\ j \in Nat
  BY Sizes DEF Listed, Times, Decided
<1>2. j # 1
  <2> SUFFICES ASSUME j = 1 PROVE FALSE
    OBVIOUS
  <2>1. Added(failures, age)[1] = First(age) /\ First(age) \in Nat
    BY AddedFacts
  <2> QED
    BY <1>1, <2>1
<1>3. j - 1 \in 1..MaxFailures /\ times[i] < failures[j - 1]
  BY <1>1, <1>2, AddedFacts, Sizes
<1>4. times[i] >= Cooldown * (i - (j - 1)) + rest
  BY <1>3 DEF Apart
<1>5. /\ i - (j - 1) = (i - j) + 1 /\ i - j \in Int
      /\ Cooldown * (i - j) \in Int
      /\ Cooldown * ((i - j) + 1) = Cooldown * (i - j) + Cooldown
  BY <1>1, CooldownTimes
<1> DEFINE x == Cooldown * (i - j)
<1>6. times[i] >= (x + Cooldown) + rest /\ x \in Int
  BY <1>4, <1>5
<1> HIDE DEF x
<1>7. times[i] >= x + after
  BY <1>1, <1>6, Sizes
<1> QED
  BY <1>7 DEF x

\* A decision that was made so long ago, once the cooldown was over.
Pushed(times, age) ==
  [i \in Decided |-> IF i = 1 THEN Capped(age) ELSE times[i - 1]]

LEMMA CappedFacts ==
  ASSUME NEW age \in Nat
  PROVE  /\ Capped(age) \in 0..Past
         /\ Capped(age) <= FailureWindow => Capped(age) = age /\ First(age) = age
BY Sizes DEF Capped, Past, First

LEMMA PushedFacts ==
  ASSUME NEW times \in Times, NEW age \in Nat
  PROVE  /\ Pushed(times, age) \in Times
         /\ Pushed(times, age)[1] = Capped(age)
         /\ \A i \in Decided : i # 1 => Pushed(times, age)[i] = times[i - 1]
BY ManySwitches, CappedFacts DEF Pushed, Times

LEMMA ApartPushed ==
  ASSUME NEW times \in Times, NEW failures \in Failures, NEW age \in Nat,
         NEW waited \in Nat, waited <= age,
         Apart(times, failures, Cooldown + waited)
  PROVE  Apart(Pushed(times, age), failures, waited)
<1> DEFINE pushed == Pushed(times, age)
<1> SUFFICES ASSUME NEW i \in Decided, NEW j \in 1..MaxFailures,
                    pushed[i] <= FailureWindow, pushed[i] < failures[j]
             PROVE  pushed[i] >= Cooldown * (i - j) + waited
  BY DEF Apart
<1>1. i \in Nat /\ j \in Nat \ {0} /\ i - j \in Int /\ Cooldown * (i - j) \in Int
  BY CooldownTimes DEF Decided
<1>2. CASE i = 1
  <2>1. i - j <= 0
    BY <1>1, <1>2
  <2>2. Cooldown * (i - j) <= 0
    BY <1>1, <2>1, CooldownTimes
  <2>3. pushed[i] = age
    BY <1>2, PushedFacts, CappedFacts
  <2> QED
    BY <1>1, <2>2, <2>3
<1>3. CASE i # 1
  <2> DEFINE x == Cooldown * (i - j)
             y == Cooldown * ((i - 1) - j)
  <2>1. i - 1 \in Decided /\ pushed[i] = times[i - 1] /\ times[i - 1] \in Nat
    BY <1>3, PushedFacts, ManySwitches DEF Times
  <2>2. times[i - 1] >= y + (Cooldown + waited)
    BY <2>1 DEF Apart
  <2>3. x = y + Cooldown /\ y \in Int /\ x \in Int
    <3>1. (i - 1) - j \in Int /\ ((i - 1) - j) + 1 = i - j
      BY <1>1
    <3> QED
      BY <1>1, <3>1, CooldownTimes
  <2> HIDE DEF x, y, pushed
  <2>4. pushed[i] >= x + waited
    BY <2>1, <2>2, <2>3, Sizes
  <2> QED
    BY <2>4 DEF x
<1> QED
  BY <1>2, <1>3

\* Less of a rest is asked for.
LEMMA ApartLess ==
  ASSUME NEW times \in Times, NEW failures, NEW rest \in Nat, NEW less \in Nat,
         less <= rest, Apart(times, failures, rest)
  PROVE  Apart(times, failures, less)
<1> SUFFICES ASSUME NEW i \in Decided, NEW j \in 1..MaxFailures,
                    times[i] <= FailureWindow, times[i] < failures[j]
             PROVE  times[i] >= Cooldown * (i - j) + less
  BY DEF Apart
<1> DEFINE x == Cooldown * (i - j)
<1>1. times[i] >= x + rest /\ times[i] \in Nat
  BY DEF Apart, Times
<1>2. x \in Int
  BY CooldownTimes DEF Decided
<1> HIDE DEF x
<1>3. times[i] >= x + less
  BY <1>1, <1>2
<1> QED
  BY <1>3 DEF x

\* A closed breaker and a cooldown that is over leave room for one decision.
LEMMA RoomForOne ==
  ASSUME NEW times \in Times, NEW failures \in Failures,
         Apart(times, failures, Cooldown), failures[MaxFailures] = Absent
  PROVE  times[MostSwitches] = Past
<1> SUFFICES ASSUME times[MostSwitches] # Past PROVE FALSE
  OBVIOUS
<1> DEFINE t == times[MostSwitches]
           x == Cooldown * (MostSwitches - MaxFailures)
<1>1. t \in Nat /\ t <= FailureWindow
  BY ManySwitches, Sizes DEF Times, Past
<1>2. t < failures[MaxFailures] /\ MaxFailures \in 1..MaxFailures
  BY <1>1, Sizes DEF Absent
<1>3. t >= x + Cooldown
  BY <1>1, <1>2, ManySwitches DEF Apart
<1>4. x + Cooldown > FailureWindow /\ x \in Int
  BY ManySwitches, CooldownTimes
<1> HIDE DEF t, x
<1> QED
  BY <1>1, <1>3, <1>4, Sizes

\* Time passes for answered, failures and the cooldown alike.
LEMMA ApartAged ==
  ASSUME NEW times \in Times, NEW c \in CtlType, NEW rest \in Nat, NEW after \in Nat,
         after <= rest + 1, Apart(times, c.failures, rest)
  PROVE  Apart([i \in Decided |-> Later(times[i], Past)],
               ControllerAged(c).failures, after)
<1> DEFINE aged == [i \in Decided |-> Later(times[i], Past)]
<1> SUFFICES ASSUME NEW i \in Decided, NEW j \in 1..MaxFailures,
                    aged[i] <= FailureWindow,
                    aged[i] < ControllerAged(c).failures[j]
             PROVE  aged[i] >= Cooldown * (i - j) + after
  BY DEF Apart
<1>1. /\ j \in Listed /\ times[i] \in 0..Past /\ c.failures[j] \in 0..Absent
      /\ i - j \in Int /\ Cooldown * (i - j) \in Int
  BY Sizes, CooldownTimes DEF Listed, Times, CtlType, Decided
<1>2. aged[i] = times[i] + 1 /\ times[i] <= FailureWindow
  BY <1>1, Sizes DEF Later, Past
<1>3. times[i] < c.failures[j]
  <2>1. ControllerAged(c).failures[j] =
          IF c.failures[j] = Absent THEN Absent
          ELSE Later(c.failures[j], FailureWindow + 1)
    BY <1>1, ControllerAgedFacts
  <2> QED
    BY <1>1, <1>2, <2>1, Sizes DEF Later, Absent
<1> DEFINE x == Cooldown * (i - j)
<1>4. times[i] >= x + rest /\ x \in Int
  BY <1>1, <1>2, <1>3 DEF Apart
<1> HIDE DEF x, aged
<1>5. aged[i] >= x + after
  BY <1>1, <1>2, <1>4
<1> QED
  BY <1>5 DEF x

-----------------------------------------------------------------------------
(* The guard over one step: what the loop, the controller and the history   *)
(* of answers say of each other.                                            *)

Flap == LoopInv /\ BreakerInv /\ InOrder /\ SpacingInv

Parts == loop \in LoopType /\ ctl \in CtlType /\ answered \in Times

LEMMA PartsFacts ==
  ASSUME Parts, BreakerInv
  PROVE  /\ Rest \in Nat /\ Waited \in Nat /\ Waited <= loop.age /\ Waited <= Cooldown
         /\ ctl.sinceSwitch \in 0..Cooldown /\ loop.age \in Nat
         /\ ctl.failures \in Failures /\ Closed(ctl)
         /\ Pending => ~ctl.open /\ ctl.sinceSwitch = Cooldown
<1>1. loop.age \in 0..LongAgo /\ ctl.sinceSwitch \in 0..Cooldown
  BY DEF Parts, LoopType, CtlType
<1>2. Rest \in Nat /\ Waited \in Nat /\ Waited <= loop.age /\ Waited <= Cooldown
  BY <1>1, Sizes DEF Rest, Waited
<1> QED
  BY <1>1, <1>2, Sizes DEF Parts, CtlType, Failures, BreakerInv, Closed

LEMMA PollingFacts ==
  /\ Polling \in LoopType /\ Polling.at = "poll" /\ Polling.todo = {}
BY Sizes DEF Polling, LoopType

\* Steps that neither decide nor lose nor record anything.
LEMMA FlapStays ==
  ASSUME Parts, BreakerInv, InOrder, SpacingInv,
         answered' = answered, ctl' = ctl \/ ctl' = Pruned(ctl),
         Pending' = Pending, loop'.age = loop.age \/ ~Pending
  PROVE  ctl' \in CtlType /\ BreakerInv' /\ InOrder' /\ SpacingInv'
<1>1. /\ ctl' \in CtlType /\ Closed(ctl')
      /\ ctl'.sinceSwitch = ctl.sinceSwitch /\ ctl'.open = ctl.open
  BY PartsFacts, PrunedFacts, PrunedClosed DEF Parts
<1>2. BreakerInv'
  BY <1>1, PartsFacts DEF BreakerInv, Closed
<1>3. InOrder'
  BY DEF InOrder
<1>4. Rest' = Rest
  BY <1>1 DEF Rest, Waited
<1>5. ASSUME ~ctl.open PROVE Apart(answered, ctl'.failures, Rest)
  BY <1>5, PartsFacts, ApartPruned DEF SpacingInv, Parts
<1>6. SpacingInv'
  BY <1>1, <1>4, <1>5 DEF SpacingInv
<1> QED
  BY <1>1, <1>2, <1>3, <1>6

\* A decision whose answer is lost: the cooldown it waited for is still over.
LEMMA LostFlap ==
  ASSUME Parts, Flap, Pending, loop' = Polling, UNCHANGED <<ctl, answered>>
  PROVE  Parts' /\ Flap'
<1>1. /\ loop' \in LoopType /\ ~Pending' /\ LoopInv'
  BY PollingFacts DEF LoopInv, Pending
<1>2. /\ BreakerInv /\ InOrder /\ SpacingInv /\ answered \in Times
      /\ Rest \in Nat /\ Rest = Cooldown + Waited /\ Waited \in Nat
      /\ ctl.sinceSwitch = Cooldown
  BY PartsFacts DEF Flap, Parts, Rest
<1>3. Rest' = Cooldown /\ Cooldown \in Nat /\ Cooldown <= Rest
  BY <1>1, <1>2, Sizes DEF Rest
<1>4. ASSUME ~ctl.open PROVE Apart(answered, ctl.failures, Cooldown)
  BY <1>2, <1>3, <1>4, ApartLess DEF SpacingInv
<1>5. SpacingInv'
  BY <1>2, <1>3, <1>4 DEF SpacingInv
<1>6. BreakerInv' /\ InOrder'
  BY <1>1, <1>2 DEF BreakerInv, InOrder
<1> QED
  BY <1>1, <1>5, <1>6 DEF Parts, Flap

\* The judgement of an attempt keeps what the guard rests on.
LEMMA JudgedApart ==
  ASSUME Parts, BreakerInv, NEW from
  PROVE  LET d == Judged(Pruned(ctl), from)
         IN /\ d \in CtlType /\ Closed(d) /\ d.sinceSwitch = ctl.sinceSwitch
            /\ ~d.open => ~ctl.open
            /\ Apart(answered, ctl.failures, ctl.sinceSwitch)
                 => Apart(answered, d.failures, ctl.sinceSwitch)
<1> DEFINE c == Pruned(ctl)
           d == Judged(c, from)
<1>0. /\ ctl \in CtlType /\ answered \in Times /\ Closed(ctl)
      /\ ctl.sinceSwitch \in Nat /\ ctl.open \in BOOLEAN
  BY PartsFacts, Sizes DEF Parts, CtlType
<1>1. /\ c \in CtlType /\ Closed(c) /\ c.failures \in Failures
      /\ c.sinceSwitch = ctl.sinceSwitch /\ c.open = ctl.open
  BY <1>0, PrunedFacts, PrunedClosed DEF CtlType, Failures
<1>2. Apart(answered, ctl.failures, ctl.sinceSwitch)
        => Apart(answered, c.failures, ctl.sinceSwitch)
  BY <1>0, ApartPruned
<1> HIDE DEF c
<1>3. /\ d \in CtlType /\ Closed(d) /\ d.sinceSwitch = c.sinceSwitch
      /\ d = c \/ (~c.open /\ d = FailedAt(c, 0))
  BY <1>1, JudgedFacts2
<1>4. CASE d = c
  BY <1>1, <1>2, <1>3, <1>4 DEF c
<1>5. CASE ~c.open /\ d = FailedAt(c, 0)
  <2>1. d.failures = Added(c.failures, 0)
    BY <1>1, <1>5, FailedAtFacts
  <2>2. \A i \in Decided : answered[i] <= FailureWindow => First(0) <= answered[i]
    BY <1>0, Sizes DEF First, Times
  <2>3. Apart(answered, c.failures, ctl.sinceSwitch)
          => Apart(answered, Added(c.failures, 0), ctl.sinceSwitch)
    <3>1. ctl.sinceSwitch <= ctl.sinceSwitch + Cooldown
      BY <1>0, Sizes
    <3> QED
      BY <1>0, <1>1, <2>2, <3>1, ApartAdded
  <2> HIDE DEF d
  <2>4. /\ d \in CtlType /\ Closed(d) /\ d.sinceSwitch = ctl.sinceSwitch
        /\ ~ctl.open
        /\ Apart(answered, ctl.failures, ctl.sinceSwitch)
             => Apart(answered, d.failures, ctl.sinceSwitch)
    BY <1>1, <1>2, <1>3, <1>5, <2>1, <2>3
  <2> QED
    BY <2>4 DEF d, c
<1> QED
  BY <1>3, <1>4, <1>5

LEMMA RefusedFlap ==
  ASSUME Parts, Flap, Refused
  PROVE  Parts' /\ Flap'
<1>0. /\ Parts /\ BreakerInv /\ InOrder /\ SpacingInv /\ ~Pending
      /\ loop' = Polling /\ answered' = answered /\ ~Pending'
      /\ loop' \in LoopType /\ LoopInv'
  BY PollingFacts DEF Flap, Refused, Pending, LoopInv
<1>1. CASE ctl' = Pruned(ctl)
  <2>1. Pending' = Pending
    BY <1>0 DEF Pending
  <2> QED
    BY <1>0, <1>1, <2>1, FlapStays DEF Parts, Flap
<1>2. CASE ctl' = Judged(Pruned(ctl), loop.tag)
  <2>1. /\ ctl' \in CtlType /\ Closed(ctl') /\ ctl'.sinceSwitch = ctl.sinceSwitch
        /\ ~ctl'.open => ~ctl.open
        /\ Apart(answered, ctl.failures, ctl.sinceSwitch)
             => Apart(answered, ctl'.failures, ctl.sinceSwitch)
    BY <1>0, <1>2, JudgedApart
  <2>2. Rest = ctl.sinceSwitch /\ Rest' = ctl.sinceSwitch
    BY <1>0, <2>1 DEF Rest
  <2>3. SpacingInv'
    BY <1>0, <2>1, <2>2 DEF SpacingInv
  <2>4. BreakerInv' /\ InOrder'
    BY <1>0, <2>1 DEF BreakerInv, Closed, InOrder
  <2> QED
    BY <1>0, <2>1, <2>3, <2>4 DEF Parts, Flap
<1> QED
  BY <1>1, <1>2 DEF Refused

\* A decision is made with the cooldown over.
LEMMA DecideFlap ==
  ASSUME Parts, Flap, Decide
  PROVE  Parts' /\ Flap'
<1>0. /\ Parts /\ LoopInv /\ BreakerInv /\ InOrder /\ SpacingInv
      /\ ~Pending /\ loop \in LoopType /\ answered \in Times /\ ctl \in CtlType
  BY DEF Flap, Decide, Pending, Parts
<1>1. PICK t \in Ready : loop' = [loop EXCEPT !.at = "switch", !.target = t, !.age = 0]
  BY DEF Decide
<1>2. t \in Tags /\ t # loop.tag
  BY DEF Ready
<1>3. /\ loop' \in LoopType /\ loop'.at = "switch" /\ loop'.target = t
      /\ loop'.age = 0 /\ loop'.tag = loop.tag /\ loop'.todo = loop.todo
  <2> DEFINE l1 == [loop EXCEPT !.at = "switch"]
             l2 == [l1 EXCEPT !.target = t]
  <2>1. /\ l1 \in LoopType /\ l1.at = "switch" /\ l1.tag = loop.tag
        /\ l1.todo = loop.todo
    BY <1>0 DEF LoopType
  <2>2. loop' = [l2 EXCEPT !.age = 0]
    BY <1>1
  <2> HIDE DEF l1
  <2>3. /\ l2 \in LoopType /\ l2.at = "switch" /\ l2.target = t
        /\ l2.tag = loop.tag /\ l2.todo = loop.todo
    BY <1>2, <2>1 DEF LoopType
  <2> HIDE DEF l2
  <2> QED
    BY <2>2, <2>3, Sizes DEF LoopType
<1>4. answered' = answered
  BY DEF Decide
<1>5. /\ ctl' \in CtlType /\ Closed(ctl') /\ ctl'.sinceSwitch = ctl.sinceSwitch
      /\ ~ctl'.open => ~ctl.open
      /\ Apart(answered, ctl.failures, ctl.sinceSwitch)
           => Apart(answered, ctl'.failures, ctl.sinceSwitch)
  BY <1>0, JudgedApart DEF Decide
<1>6. ~ctl'.open /\ ctl'.sinceSwitch = Cooldown
  <2>1. ~ctl'.open /\ ctl'.sinceSwitch >= Cooldown
    BY DEF Decide, MaySwitch
  <2>2. ctl'.sinceSwitch \in 0..Cooldown
    BY <1>5 DEF CtlType
  <2> QED
    BY <2>1, <2>2, Sizes
<1>7. LoopInv'
  <2>1. \A i \in Decided : Capped(0) <= answered[i]
    BY <1>0, Sizes DEF Capped, Times
  <2> QED
    BY <1>0, <1>2, <1>3, <1>4, <2>1 DEF LoopInv, Pending
<1>8. BreakerInv'
  BY <1>5, <1>6 DEF BreakerInv, Closed
<1>9. InOrder'
  BY <1>0, <1>4 DEF InOrder
<1>10. SpacingInv'
  <2>1. Apart(answered, ctl'.failures, Cooldown)
    BY <1>0, <1>5, <1>6 DEF SpacingInv, Rest
  <2>2. Rest' = Cooldown
    BY <1>3, Sizes DEF Rest, Waited, Pending
  <2> QED
    BY <1>0, <1>4, <2>1, <2>2 DEF SpacingInv
<1> QED
  BY <1>0, <1>3, <1>4, <1>5, <1>7, <1>8, <1>9, <1>10 DEF Parts, Flap

\* The answer is recorded, as of the decision: a closed breaker and the
\* cooldown that was over then leave room for one decision more.
LEMMA AnsweredFlap ==
  ASSUME Parts, Flap, Pending, loop' = Polling, AnsweredNow,
         ctl' = IF loop.ok THEN Switched(ctl, loop.target, loop.age)
                ELSE FailedAt(ctl, loop.age)
  PROVE  Parts' /\ Flap'
<1>0. /\ LoopInv /\ BreakerInv /\ InOrder /\ SpacingInv
      /\ loop \in LoopType /\ answered \in Times /\ ctl \in CtlType
      /\ loop' \in LoopType /\ ~Pending' /\ LoopInv'
  BY PollingFacts DEF Flap, Parts, LoopInv, Pending
<1>1. /\ Waited \in Nat /\ Waited <= loop.age /\ Waited <= Cooldown
      /\ loop.age \in Nat /\ ctl.failures \in Failures /\ Closed(ctl)
      /\ ~ctl.open /\ ctl.sinceSwitch = Cooldown /\ Rest = Cooldown + Waited
  BY PartsFacts, <1>0 DEF Rest
<1>2. answered' = Pushed(answered, loop.age)
  BY DEF AnsweredNow, Pushed
<1>3. /\ answered' \in Times /\ answered'[1] = Capped(loop.age)
      /\ \A i \in Decided : i # 1 => answered'[i] = answered[i - 1]
  BY <1>0, <1>1, <1>2, PushedFacts
<1>4. \A i \in Decided : Capped(loop.age) <= answered'[i]
  <2> SUFFICES ASSUME NEW i \in Decided PROVE Capped(loop.age) <= answered'[i]
    OBVIOUS
  <2>1. CASE i = 1
    BY <1>1, <1>3, <2>1, CappedFacts
  <2>2. CASE i # 1
    BY <1>0, <1>3, <2>2, ManySwitches DEF LoopInv
  <2> QED
    BY <2>1, <2>2
<1>5. InOrder'
  <2> SUFFICES ASSUME NEW i \in Decided, NEW k \in Decided, i <= k
               PROVE  answered'[i] <= answered'[k]
    BY DEF InOrder
  <2>1. i \in Nat \ {0} /\ k \in Nat \ {0}
    BY ManySwitches
  <2>2. CASE i = 1
    BY <1>3, <1>4, <2>2
  <2>3. CASE i # 1
    <3>1. k # 1 /\ i - 1 \in Decided /\ k - 1 \in Decided /\ i - 1 <= k - 1
      BY <2>1, <2>3, ManySwitches
    <3> QED
      BY <1>0, <1>3, <2>3, <3>1 DEF InOrder
  <2> QED
    BY <2>2, <2>3
<1>6. Apart(answered, ctl.failures, Cooldown + Waited)
  BY <1>0, <1>1 DEF SpacingInv
<1>7. answered'[MostSwitches + 1] = Past
  <2>1. Apart(answered, ctl.failures, Cooldown)
    <3>1. Cooldown \in Nat /\ Cooldown + Waited \in Nat /\ Cooldown <= Cooldown + Waited
      BY <1>1, Sizes
    <3> QED
      BY <1>0, <1>6, <3>1, ApartLess
  <2>2. ctl.failures[MaxFailures] = Absent
    BY <1>1 DEF Closed
  <2>3. answered[MostSwitches] = Past
    BY <1>0, <1>1, <2>1, <2>2, RoomForOne
  <2>4. MostSwitches + 1 # 1 /\ (MostSwitches + 1) - 1 = MostSwitches
    BY ManySwitches
  <2> QED
    BY <1>3, <2>3, <2>4, ManySwitches
<1>8. Apart(answered', ctl.failures, Waited)
  BY <1>0, <1>1, <1>2, <1>6, ApartPushed
<1>9. CASE loop.ok
  <2>1. loop.target \in Tags \cup {NoTag}
    BY <1>0 DEF LoopType
  <2>2. /\ ctl' \in CtlType /\ ctl'.open = ctl.open /\ ctl'.failures = ctl.failures
        /\ ctl'.sinceSwitch = Waited
    BY <1>0, <1>1, <1>9, <2>1, SwitchedFacts DEF Waited
  <2>3. Rest' = Waited
    BY <1>0, <2>2 DEF Rest
  <2>4. BreakerInv' /\ SpacingInv'
    BY <1>0, <1>1, <1>7, <1>8, <2>2, <2>3 DEF BreakerInv, Closed, SpacingInv
  <2> QED
    BY <1>0, <1>3, <1>5, <2>2, <2>4 DEF Parts, Flap
<1>10. CASE ~loop.ok
  <2>1. /\ ctl' \in CtlType /\ ctl'.sinceSwitch = Cooldown /\ Closed(ctl')
        /\ ctl'.failures = Added(ctl.failures, loop.age)
    BY <1>0, <1>1, <1>10, FailedAtFacts, FailedAtClosed
  <2>2. \A i \in Decided : answered'[i] <= FailureWindow
                             => First(loop.age) <= answered'[i]
    <3> SUFFICES ASSUME NEW i \in Decided, answered'[i] <= FailureWindow
                 PROVE  First(loop.age) <= answered'[i]
      OBVIOUS
    <3>1. answered'[i] \in Nat /\ Capped(loop.age) \in Nat
          /\ Capped(loop.age) <= answered'[i]
      BY <1>1, <1>3, <1>4, CappedFacts DEF Times
    <3>2. Capped(loop.age) <= FailureWindow
      BY <3>1, Sizes
    <3> QED
      BY <1>1, <3>1, <3>2, CappedFacts
  <2>3. Apart(answered', ctl'.failures, Cooldown)
    <3>1. Cooldown \in Nat /\ Cooldown <= Waited + Cooldown
      BY <1>1, Sizes
    <3> QED
      BY <1>1, <1>3, <1>8, <2>1, <2>2, <3>1, ApartAdded
  <2>4. Rest' = Cooldown
    BY <1>0, <2>1 DEF Rest
  <2>5. BreakerInv' /\ SpacingInv'
    BY <1>0, <1>7, <2>1, <2>3, <2>4 DEF BreakerInv, Closed, SpacingInv
  <2> QED
    BY <1>0, <1>3, <1>5, <2>1, <2>5 DEF Parts, Flap
<1> QED
  BY <1>9, <1>10

LEMMA RecordFlap ==
  ASSUME Parts, Flap, Record
  PROVE  Parts' /\ Flap'
<1>1. Pending /\ loop' = Polling
  BY DEF Record, Pending
<1>2. CASE UNCHANGED <<ctl, answered>>
  BY <1>1, <1>2, LostFlap
<1>3. CASE /\ AnsweredNow
           /\ ctl' = IF loop.ok THEN Switched(ctl, loop.target, loop.age)
                     ELSE FailedAt(ctl, loop.age)
  BY <1>1, <1>3, AnsweredFlap
<1> QED
  BY <1>2, <1>3 DEF Record

\* Decisions, failures and the cooldown age together.
LEMMA TickFlap ==
  ASSUME Parts, Flap, Tick
  PROVE  Parts' /\ Flap'
<1>0. /\ LoopInv /\ BreakerInv /\ InOrder /\ SpacingInv
      /\ loop \in LoopType /\ answered \in Times /\ ctl \in CtlType
  BY DEF Flap, Parts
<1>1. /\ Rest \in Nat /\ loop.age \in 0..LongAgo /\ ctl.sinceSwitch \in 0..Cooldown
      /\ ctl.failures \in Failures /\ Closed(ctl)
      /\ Pending => ~ctl.open /\ ctl.sinceSwitch = Cooldown
  BY <1>0, PartsFacts DEF LoopType
<1> DEFINE age == IF Pending THEN Later(loop.age, LongAgo) ELSE 0
<1>2. age \in 0..LongAgo
  BY <1>1, LaterFacts, Sizes
<1>3. loop' = [loop EXCEPT !.age = age]
  BY DEF Tick, Pending
<1>4. /\ loop' \in LoopType /\ loop'.age = age /\ loop'.at = loop.at
      /\ loop'.tag = loop.tag /\ loop'.todo = loop.todo /\ loop'.target = loop.target
  <2> HIDE DEF age
  <2> QED
    BY <1>0, <1>2, <1>3 DEF LoopType
<1>5. Pending' = Pending
  BY <1>4 DEF Pending
<1>6. /\ answered' = [i \in Decided |-> Later(answered[i], Past)]
      /\ ctl' = ControllerAged(ctl)
  BY DEF Tick
<1>7. \A i \in Decided : /\ answered[i] \in 0..Past
                         /\ answered'[i] = Later(answered[i], Past)
                         /\ answered'[i] \in 0..Past
  BY <1>0, <1>6, LaterFacts, Sizes DEF Times
<1>8. answered' \in Times
  BY <1>6, <1>7 DEF Times
<1>9. /\ ctl' \in CtlType /\ ctl'.open = ctl.open
      /\ ctl'.sinceSwitch = Later(ctl.sinceSwitch, Cooldown)
      /\ \A j \in Listed : ctl.failures[j] = Absent => ctl'.failures[j] = Absent
  BY <1>0, <1>6, ControllerAgedFacts
<1>10. LoopInv'
  <2>1. ASSUME Pending, NEW i \in Decided PROVE Capped(age) <= answered'[i]
    <3>1. Capped(loop.age) <= answered[i]
      BY <1>0, <2>1 DEF LoopInv
    <3>2. age = Later(loop.age, LongAgo)
      BY <2>1
    <3> HIDE DEF age
    <3> QED
      BY <1>1, <1>7, <3>1, <3>2, Sizes DEF Later, Past, Capped
  <2> HIDE DEF age
  <2> QED
    BY <1>0, <1>4, <1>5, <2>1 DEF LoopInv, Pending
<1>11. BreakerInv'
  <2>1. MaxFailures \in Listed /\ MaxFailures + 1 \in Listed
    BY Sizes DEF Listed
  <2>2. Pending => ctl'.sinceSwitch = Cooldown
    BY <1>1, <1>9, Sizes DEF Later
  <2> QED
    BY <1>1, <1>5, <1>9, <2>1, <2>2 DEF BreakerInv, Closed
<1>12. InOrder'
  <2> SUFFICES ASSUME NEW i \in Decided, NEW k \in Decided, i <= k
               PROVE  answered'[i] <= answered'[k]
    BY DEF InOrder
  <2>1. answered[i] <= answered[k]
    BY <1>0 DEF InOrder
  <2> QED
    BY <1>7, <2>1, Sizes DEF Later
<1>13. SpacingInv'
  <2>1. answered'[MostSwitches + 1] = Past
    BY <1>0, <1>7, ManySwitches, Sizes DEF SpacingInv, Later
  <2>2. Rest' \in Nat /\ Rest' <= Rest + 1
    <3>1. Rest' = IF Pending THEN Cooldown + (IF age < Cooldown THEN age ELSE Cooldown)
                  ELSE Later(ctl.sinceSwitch, Cooldown)
      BY <1>4, <1>5, <1>9 DEF Rest, Waited
    <3>2. Pending => age = Later(loop.age, LongAgo)
      OBVIOUS
    <3> HIDE DEF age
    <3> QED
      BY <1>1, <1>2, <3>1, <3>2, Sizes DEF Rest, Waited, Later
  <2>3. ASSUME ~ctl.open PROVE Apart(answered', ctl'.failures, Rest')
    BY <1>0, <1>1, <1>6, <2>2, <2>3, ApartAged DEF SpacingInv
  <2> QED
    BY <1>9, <2>1, <2>3 DEF SpacingInv
<1> QED
  BY <1>4, <1>8, <1>9, <1>10, <1>11, <1>12, <1>13 DEF Parts, Flap

-----------------------------------------------------------------------------
(* The invariant is inductive.                                              *)

\* The switch: of its answer nothing is known yet, or it is lost.
LEMMA DoFailoverFlap ==
  ASSUME Parts, Flap, DoFailover
  PROVE  Parts' /\ Flap'
<1>0. /\ Parts /\ LoopInv /\ BreakerInv /\ InOrder /\ SpacingInv
      /\ loop \in LoopType /\ Pending /\ loop.at = "switch"
      /\ answered' = answered
  BY DEF Flap, Parts, Pending, DoFailover
<1>1. CASE loop' = Polling /\ UNCHANGED ctl
  BY <1>0, <1>1, LostFlap
<1>2. CASE /\ ctl' = Pruned(ctl)
           /\ \E ok \in BOOLEAN : loop' = [loop EXCEPT !.at = "record", !.ok = ok]
  <2>1. PICK ok \in BOOLEAN : loop' = [loop EXCEPT !.at = "record", !.ok = ok]
    BY <1>2
  <2> DEFINE l1 == [loop EXCEPT !.at = "record"]
  <2>2. /\ l1 \in LoopType /\ l1.at = "record" /\ l1.todo = loop.todo
        /\ l1.tag = loop.tag /\ l1.target = loop.target /\ l1.age = loop.age
    BY <1>0 DEF LoopType
  <2>3. loop' = [l1 EXCEPT !.ok = ok]
    BY <2>1
  <2> HIDE DEF l1
  <2>4. /\ loop' \in LoopType /\ loop'.at = "record" /\ loop'.todo = loop.todo
        /\ loop'.tag = loop.tag /\ loop'.target = loop.target /\ loop'.age = loop.age
    BY <2>2, <2>3 DEF LoopType
  <2>5. LoopInv' /\ Pending' = Pending
    BY <1>0, <2>4 DEF LoopInv, Pending
  <2> QED
    BY <1>0, <1>2, <2>4, <2>5, FlapStays DEF Parts, Flap
<1> QED
  BY <1>1, <1>2 DEF DoFailover

\* Steps of the loop before a decision.
LEMMA LoopFlap ==
  ASSUME Parts, Flap, active \in Tags,
         WriteStatus \/ Poll \/ Sample \/ Probe \/ Check \/ LoopFails
  PROVE  Parts' /\ Flap'
<1>0. /\ Parts /\ LoopInv /\ BreakerInv /\ InOrder /\ SpacingInv
      /\ loop \in LoopType /\ answered \in Times
  BY DEF Flap, Parts
<1>1. /\ answered' = answered
      /\ ctl' = ctl \/ ctl' = Pruned(ctl)
  BY DEF WriteStatus, Poll, Sample, Probe, Check, LoopFails
<1>2. /\ loop' \in LoopType /\ LoopInv' /\ Pending' = Pending
      /\ loop'.age = loop.age \/ ~Pending
  <2>1. CASE WriteStatus
    BY <1>0, <2>1 DEF WriteStatus, LoopInv, Pending
  <2>2. CASE Poll
    <3> DEFINE l1 == [loop EXCEPT !.at = "sample"]
    <3>1. /\ l1 \in LoopType /\ l1.at = "sample" /\ l1.todo = {}
      BY <1>0, <2>2 DEF LoopType, LoopInv, Poll
    <3>2. loop' = [l1 EXCEPT !.tag = active]
      BY <2>2 DEF Poll
    <3> HIDE DEF l1
    <3>3. /\ loop' \in LoopType /\ loop'.at = "sample" /\ loop'.todo = {}
      BY <3>1, <3>2 DEF LoopType
    <3> QED
      BY <2>2, <3>3 DEF LoopInv, Pending, Poll
  <2>3. CASE Sample
    <3>1. PICK todo \in {{}, Tags \ {loop.tag}} :
            loop' = [loop EXCEPT !.at = "probe", !.todo = todo]
      BY <2>3 DEF Sample
    <3> DEFINE l1 == [loop EXCEPT !.at = "probe"]
    <3>2. /\ l1 \in LoopType /\ l1.at = "probe" /\ l1.tag = loop.tag
      BY <1>0 DEF LoopType
    <3>3. loop' = [l1 EXCEPT !.todo = todo]
      BY <3>1
    <3>4. todo \subseteq Tags \ {loop.tag}
      OBVIOUS
    <3> HIDE DEF l1
    <3>5. /\ loop' \in LoopType /\ loop'.at = "probe" /\ loop'.todo = todo
          /\ loop'.tag = loop.tag
      BY <3>2, <3>3, <3>4 DEF LoopType
    <3> QED
      BY <2>3, <3>4, <3>5 DEF LoopInv, Pending, Sample
  <2>4. CASE Probe
    <3>1. PICK t \in loop.todo : loop' = [loop EXCEPT !.todo = @ \ {t}]
      BY <2>4 DEF Probe
    <3>2. /\ loop' \in LoopType /\ loop'.at = loop.at /\ loop'.tag = loop.tag
          /\ loop'.todo \subseteq loop.todo
      BY <1>0, <3>1 DEF LoopType
    <3> QED
      BY <1>0, <2>4, <3>2 DEF LoopInv, Pending, Probe
  <2>5. CASE Check
    <3>1. CASE loop' = Polling
      BY <2>5, <3>1, PollingFacts DEF LoopInv, Pending, Check
    <3>2. CASE loop' = [loop EXCEPT !.at = "decide"]
      <4>1. /\ loop' \in LoopType /\ loop'.at = "decide" /\ loop'.tag = loop.tag
            /\ loop'.todo = loop.todo
        BY <1>0, <3>2 DEF LoopType
      <4> QED
        BY <1>0, <2>5, <4>1 DEF LoopInv, Pending, Check
    <3> QED
      BY <2>5, <3>1, <3>2 DEF Check
  <2>6. CASE LoopFails
    BY <2>6, PollingFacts DEF LoopInv, Pending, LoopFails
  <2> QED
    BY <2>1, <2>2, <2>3, <2>4, <2>5, <2>6
<1> QED
  BY <1>0, <1>1, <1>2, FlapStays DEF Parts, Flap

LEMMA NextFlap ==
  ASSUME Shapes, Flap, [Next]_vars
  PROVE  Parts' /\ Flap'
<1>0. Parts /\ active \in Tags
  BY DEF Shapes, Parts, Times
<1>1. CASE UNCHANGED <<loop, ctl, answered>>
  BY <1>0, <1>1
     DEF Parts, Flap, LoopInv, BreakerInv, InOrder, SpacingInv, Apart, Rest, Waited, Pending
<1>2. CASE Refused
  BY <1>0, <1>2, RefusedFlap
<1>3. CASE Decide
  BY <1>0, <1>3, DecideFlap
<1>4. CASE Record
  BY <1>0, <1>4, RecordFlap
<1>5. CASE Tick
  BY <1>0, <1>5, TickFlap
<1>6. CASE WriteStatus \/ Poll \/ Sample \/ Probe \/ Check \/ LoopFails
  BY <1>0, <1>6, LoopFlap
<1>7. CASE DoFailover
  BY <1>0, <1>7, DoFailoverFlap
<1>8. CASE JournalLine \/ JournalCounts \/ JournalEnds \/ Reselected \/ UNCHANGED vars
  BY <1>1, <1>8 DEF JournalLine, JournalCounts, JournalEnds, Reselected, vars
<1> QED
  BY <1>2, <1>3, <1>4, <1>5, <1>6, <1>7, <1>8 DEF Next, Loop

\* Which member is selected, what the journal's thread is at, who answered.
LEMMA NextOthers ==
  ASSUME Shapes, LoopInv, [Next]_vars
  PROVE  /\ active' \in Tags /\ journal' \in {"tail", "bad", "good", "ended"}
         /\ good' \in [Tags -> 0..NotReady]
<1>0. /\ active \in Tags /\ journal \in {"tail", "bad", "good", "ended"}
      /\ good \in [Tags -> 0..NotReady]
  BY DEF Shapes
<1>1. CASE DoFailover
  <2>1. loop.target \in Tags
    BY <1>1 DEF LoopInv, Pending, DoFailover
  <2> QED
    BY <1>0, <1>1, <2>1 DEF DoFailover
<1>2. CASE Probe
  <2>1. /\ active' = active /\ journal' = journal
        /\ \E t \in loop.todo : \E age \in {0, NotReady} : good' = [good EXCEPT ![t] = age]
    BY <1>2 DEF Probe
  <2>2. 0 \in 0..NotReady /\ NotReady \in 0..NotReady
    BY Sizes
  <2> QED
    BY <1>0, <2>1, <2>2
<1>3. CASE Tick
  <2>1. \A t \in Tags : Later(good[t], NotReady) \in 0..NotReady
    BY <1>0, LaterFacts, Sizes
  <2> QED
    BY <1>0, <1>3, <2>1 DEF Tick
<1>4. CASE JournalLine \/ JournalCounts \/ JournalEnds
  BY <1>0, <1>4 DEF JournalLine, JournalCounts, JournalEnds
<1>5. CASE Reselected
  BY <1>0, <1>5 DEF Reselected
<1>6. CASE WriteStatus \/ Poll \/ Sample \/ Check \/ Refused \/ Decide \/ Record \/ LoopFails
  BY <1>0, <1>6
     DEF WriteStatus, Poll, Sample, Check, Refused, Decide, Record, LoopFails
<1>7. CASE UNCHANGED vars
  BY <1>0, <1>7 DEF vars
<1> QED
  BY <1>1, <1>2, <1>3, <1>4, <1>5, <1>6, <1>7 DEF Next, Loop

LEMMA InitInv == Init => IInv
<1> SUFFICES ASSUME Init PROVE IInv
  OBVIOUS
<1>1. /\ active \in Tags /\ loop = Polling /\ signal = NoSignal /\ journal = "tail"
      /\ good = [t \in Tags |-> NotReady] /\ ctl = NoFailover /\ fresh = 0
      /\ answered = [i \in Decided |-> Past]
  BY DEF Init
<1>2. loop \in LoopType /\ ~Pending /\ LoopInv
  BY <1>1, PollingFacts DEF Pending, LoopInv
<1>3. signal \in SigType /\ FreshInv
  BY <1>1, NoSignalFacts DEF FreshInv
<1>4. ctl \in CtlType /\ BreakerInv
  <2>1. MaxFailures \in Listed /\ MaxFailures + 1 \in Listed
    BY Sizes DEF Listed
  <2>2. /\ ctl \in CtlType /\ \A j \in Listed : ctl.failures[j] = Absent
    BY <1>1, Sizes DEF NoFailover, CtlType
  <2> QED
    BY <1>2, <2>1, <2>2 DEF BreakerInv
<1>5. Shapes
  BY <1>1, <1>2, <1>3, <1>4, Sizes DEF Shapes
<1>6. \A i \in Decided : answered[i] = Past /\ ~(answered[i] <= FailureWindow)
  BY <1>1, Sizes DEF Past
<1>7. InOrder /\ SpacingInv
  BY <1>6, Sizes, ManySwitches DEF InOrder, SpacingInv, Apart
<1> QED
  BY <1>2, <1>3, <1>4, <1>5, <1>7 DEF IInv

LEMMA NextInv == IInv /\ [Next]_vars => IInv'
<1> SUFFICES ASSUME IInv, [Next]_vars PROVE IInv'
  OBVIOUS
<1>1. Shapes /\ FreshInv /\ Flap
  BY DEF IInv, Flap
<1>2. Parts' /\ Flap'
  BY <1>1, NextFlap
<1>3. /\ active' \in Tags /\ journal' \in {"tail", "bad", "good", "ended"}
      /\ good' \in [Tags -> 0..NotReady]
  BY <1>1, NextOthers DEF Flap
<1>4. FreshStep
  <2>1. CASE Next
    BY <1>1, <2>1, NextFresh
  <2>2. CASE UNCHANGED vars
    BY <1>1, <2>2 DEF Shapes, FreshStep, FreshInv, vars
  <2> QED
    BY <2>1, <2>2
<1>5. Shapes'
  BY <1>2, <1>3, <1>4 DEF Shapes, Parts, Times, FreshStep
<1> QED
  BY <1>2, <1>4, <1>5 DEF IInv, Flap, FreshStep

\* The inductive invariant holds throughout.
THEOREM Inductive == Spec => []IInv
BY InitInv, NextInv, PTL DEF Spec

-----------------------------------------------------------------------------
(* What it says.                                                            *)

\* The loop, the signal, the standbys' answers, the controller and the history
\* keep to their types.
THEOREM TypeCorrect == Spec => []TypeOK
<1>1. IInv => TypeOK
  <2> SUFFICES ASSUME IInv PROVE TypeOK
    OBVIOUS
  <2>1. Shapes /\ LoopInv /\ BreakerInv
    BY DEF IInv
  <2>2. SignalType(signal)
    BY <2>1 DEF Shapes, SigType, SignalType
  <2>3. ControllerType(ctl)
    BY <2>1 DEF Shapes, CtlType, ControllerType, BreakerInv
  <2> QED
    BY <2>1, <2>2, <2>3 DEF TypeOK, Shapes, LoopType, LoopInv, Pending
<1> QED
  BY <1>1, Inductive, PTL

\* A server is called degraded only after hysteresis_samples judgements made
\* since it became the active one, less the one the journal thread may have
\* made before and counted after: whatever the thresholds, and although the
\* threads share the signal without a lock (health_signal.py:38-44).
THEOREM HysteresisKept == Spec => []HysteresisHolds
<1>1. IInv => HysteresisHolds
  <2> SUFFICES ASSUME IInv, Degraded(signal) PROVE fresh >= Hysteresis - 1
    BY DEF HysteresisHolds
  <2>1. /\ signal.bad \in 0..Hysteresis /\ fresh \in 0..Hysteresis
        /\ signal.bad <= fresh + 1
    BY DEF IInv, Shapes, SigType, FreshInv
  <2> QED
    BY <2>1, Sizes DEF Degraded
<1> QED
  BY <1>1, Inductive, PTL

\* The flap guard of failover.py, for every cooldown, limit and window: no
\* failure window sees more decisions whose switch answers with the pair that
\* failover.py:10 declares than one for each whole cooldown in it and one for
\* each failure up to the breaker's limit, although others are lost between.
THEOREM FlapGuard == Spec => []AnsweredBounded
<1>1. IInv => AnsweredBounded
  BY DEF IInv, SpacingInv, AnsweredBounded
<1> QED
  BY <1>1, Inductive, PTL
==============================================================================
