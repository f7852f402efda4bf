--------------------------- MODULE LiveApplyProofs ---------------------------
(***************************************************************************)
(* The order of a reconcile's requests, and the agreement of the core with *)
(* the three files after an apply that reports success, proved for every   *)
(* set of servers, every size of the group and every set of disturbances.  *)
(***************************************************************************)
EXTENDS LiveApply, Integers, FiniteSetTheorems, SequenceTheorems, TLAPS

-----------------------------------------------------------------------------
(* What is left of a plan, as a set of requests in six stages.              *)

Adds(S, tag) == \E r \in S : r.op = "add" /\ r.tag = tag
Removes(S, tag) == \E r \in S : r.op = "remove" /\ r.tag = tag

Stage(r) ==
  IF r.op = "add" THEN IF r.tag = "auto" THEN 4 ELSE IF r.tag = "select" THEN 5 ELSE 1
  ELSE IF r.tag = "auto" THEN 3 ELSE IF r.tag = "select" THEN 2 ELSE 6

Before(r, q) == Stage(r) < Stage(q) \/ (Stage(r) = Stage(q) /\ r.tag # q.tag)

Ordered(plan) == \A i, k \in DOMAIN plan : i < k => Before(plan[i], plan[k])

\* Requests that bring the core to this group.
Brings(S, group) ==
  \A r \in S : /\ r.op = "add" /\ r.tag \in Tags => r.tag \in Leaves(group)
               /\ r.op = "remove" /\ r.tag \in Tags => r.tag \notin Leaves(group)
               /\ r.op = "add" /\ r.tag = "auto" => r.group = group

\* The core ends up with exactly this group when they all take effect, ...
Leads(c, S, group) ==
  /\ c.leaves \subseteq Tags
  /\ \A t \in Tags : t \in Leaves(group) <=>
                       Adds(S, t) \/ (t \in c.leaves /\ ~Removes(S, t))
  /\ Adds(S, "auto") \/ (c.auto = group /\ ~Removes(S, "auto"))
  /\ Adds(S, "select") \/ (c.select /\ ~Removes(S, "select"))

\* ... and refuses none of them.
Removable(c, S) ==
  /\ \A t \in Tags : Removes(S, t) => t \in c.leaves
  /\ Removes(S, "auto") => c.auto # None /\ (Removes(S, "select") \/ ~c.select)
  /\ Removes(S, "select") => c.select

Runs(c, group) == c.leaves = Leaves(group) /\ c.auto = group /\ c.select

-----------------------------------------------------------------------------
(* The invariant.                                                           *)

GroupsKept ==
  /\ \A g \in {disk, live, job.old} : g = None \/ g \in Groups
  /\ job.group \in Groups
  /\ lastTags = None \/ lastTags \in SUBSET Tags
  /\ core \in Cores /\ (~core.up => core = Down)
  /\ degraded \in Tags \cup {None}
  /\ job \in Jobs

Written == job.pc \in {"park", "reconcile", "restart", "save_live", "save_tags", "select"}
Saving == job.pc \in {"save_live", "save_tags", "select"}

\* What the job has done by now, whatever happened around it.
JobInv ==
  /\ Written => disk = job.group
  /\ At("reconcile") => Ordered(job.plan) /\ Brings(Range(job.plan), job.group)
  /\ At("restart") => job.kind # "refill"
  /\ Saving => job.via = "live" \/ (job.via = "restart" /\ job.kind # "refill")
  /\ Saving /\ job.via = "restart" =>
       /\ core.up => Runs(core, job.group)
       /\ job.pc \in {"save_live", "select"} => lastTags = Leaves(job.group)
       /\ At("select") => live = job.group
  /\ Saving /\ job.via = "live" =>
       /\ job.pc \in {"save_tags", "select"} => live = job.group
       /\ At("select") => lastTags = Leaves(job.group)

\* A removal of leaves waits until the group that listed them is gone.
DependencyInv ==
  At("reconcile") =>
    LET S == Range(job.plan)
    IN Adds(S, "auto") \/ (\A t \in Tags : ~Removes(S, t)) \/ core.auto \in {None, job.group}

\* A job that began in agreement, and was not disturbed.
SyncInv ==
  job.synced =>
    /\ job.pc # "idle"
    /\ job.pc \in {"switch", "build"} => Synced
    /\ At("switch") => lastTags = Leaves(job.group)
    /\ At("park") => core.up /\ job.old \in Groups /\ Runs(core, job.old)
    /\ At("reconcile") => core.up /\ Leads(core, Range(job.plan), job.group)
    /\ Saving /\ job.via = "live" => core.up /\ Runs(core, job.group)

IInv == GroupsKept /\ JobInv /\ DependencyInv /\ SyncInv

\* While nothing fails the core has its selector pair from its first start on,
\* and everything agrees between jobs.
Calm == Disturbances \cap {"clash", "control", "start", "bounce", "crash"} = {}

NotYet == ~core.up /\ live = None /\ degraded = None /\ ~job.synced /\ job.kind # "refill"

CalmInv ==
  /\ At("idle") => NotYet \/ Synced
  /\ job.pc \in {"switch", "build", "park"} => NotYet \/ job.synced
  /\ At("restart") => NotYet \/ (job.synced /\ job.kind = "forced" /\ core.up
                                  /\ core.auto # None /\ core.select)
  /\ At("reconcile") => job.synced /\ Removable(core, Range(job.plan))
  /\ Saving => core.up /\ (job.via = "restart" \/ job.synced)

-----------------------------------------------------------------------------
(* Sequences: what they hold, and in which order.                           *)

LEMMA InRange ==
  ASSUME NEW s, NEW x
  PROVE  x \in Range(s) <=> \E i \in DOMAIN s : s[i] = x
BY DEF Range

LEMMA EnumFacts ==
  ASSUME NEW S, IsFiniteSet(S)
  PROVE  /\ SetToSeq(S) \in Seq(S) /\ Range(SetToSeq(S)) = S
         /\ \A i, k \in DOMAIN SetToSeq(S) : i # k => SetToSeq(S)[i] # SetToSeq(S)[k]
<1> DEFINE n == Cardinality(S)
           s == SetToSeq(S)
<1>1. n \in Nat /\ ExistsBijection(1..n, S)
  BY FS_CardinalityType
<1>2. \E f \in [1..n -> S] : IsInjective(f)
  BY <1>1 DEF ExistsBijection, Bijection, Injection
<1>3. s \in [1..n -> S] /\ IsInjective(s)
  BY <1>2 DEF SetToSeq
<1>4. s \in Injection(1..n, S)
  BY <1>3 DEF Injection
<1>5. IsFiniteSet(1..n) /\ Cardinality(1..n) = n
  BY <1>1, FS_Interval
<1>6. s \in Surjection(1..n, S)
  BY <1>4, <1>5, FS_Injection
<1>7. Range(s) = S
  BY <1>3, <1>6 DEF Range, Surjection
<1> HIDE DEF s
<1>8. s \in Seq(S)
  <2> HIDE DEF n
  <2> QED
    BY <1>1, <1>3, SeqDef
<1> QED
  BY <1>3, <1>7, <1>8 DEF IsInjective, s

LEMMA RankingFacts ==
  ASSUME NEW ranking \in Rankings
  PROVE  ranking \in Seq(Tags)
<1>1. PICK S \in SUBSET Tags : ranking \in SetToSeqs(S)
  BY DEF Rankings
<1>2. IsFiniteSet(S) /\ Cardinality(S) \in Nat
  BY GroupAssumption, FS_Subset, FS_CardinalityType
<1>3. ranking \in [1..Cardinality(S) -> S]
  BY <1>1 DEF SetToSeqs
<1> QED
  BY <1>2, <1>3

LEMMA FirstOfFacts ==
  ASSUME NEW s \in Seq(Tags)
  PROVE  FirstOf(s) \in Seq(Tags) /\ Len(FirstOf(s)) <= GroupSize
<1> DEFINE n == IF Len(s) < GroupSize THEN Len(s) ELSE GroupSize
<1>1. n \in 0..Len(s) /\ n <= GroupSize
  BY GroupAssumption
<1>2. \A i \in 1..n : s[i] \in Tags
  BY <1>1
<1>3. SubSeq(s, 1, n) \in Seq(Tags) /\ Len(SubSeq(s, 1, n)) = IF 1 <= n THEN n - 1 + 1 ELSE 0
  <2> HIDE DEF n
  <2> QED
    BY <1>1, <1>2, SubSeqProperties
<1>4. Len(SubSeq(s, 1, n)) <= GroupSize
  <2> HIDE DEF n
  <2> QED
    BY <1>1, <1>3, GroupAssumption
<1> QED
  BY <1>3, <1>4 DEF FirstOf

LEMMA GroupFacts ==
  ASSUME NEW g \in Groups
  PROVE  /\ g \in Seq(Tags) /\ Len(g) <= GroupSize /\ g # None
         /\ Leaves(g) = Range(g) /\ Leaves(g) \subseteq Tags /\ IsFiniteSet(Leaves(g))
<1>1. g \in Seq(Tags) /\ Len(g) <= GroupSize
  BY RankingFacts, FirstOfFacts DEF Groups
<1>2. g # None
  BY NoneAssumption
<1>3. Leaves(g) = Range(g) /\ Leaves(g) \subseteq Tags
  BY <1>1, <1>2 DEF Leaves, Range
<1>4. IsFiniteSet(Leaves(g))
  BY <1>3, FS_Subset, GroupAssumption
<1> QED
  BY <1>1, <1>2, <1>3, <1>4

LEMMA ConcatFacts ==
  ASSUME NEW s \in Seq(Requests), NEW t \in Seq(Requests)
  PROVE  /\ s \o t \in Seq(Requests) /\ Range(s \o t) = Range(s) \cup Range(t)
         /\ Ordered(s) /\ Ordered(t)
            /\ (\A r \in Range(s) : \A q \in Range(t) : Stage(r) < Stage(q))
              => Ordered(s \o t)
<1> DEFINE u == s \o t
<1>1. /\ u \in Seq(Requests) /\ Len(u) = Len(s) + Len(t)
      /\ \A i \in 1..(Len(s) + Len(t)) : u[i] = IF i <= Len(s) THEN s[i] ELSE t[i - Len(s)]
  BY ConcatProperties
<1> HIDE DEF u
<1>2. /\ DOMAIN u = 1..(Len(s) + Len(t)) /\ DOMAIN s = 1..Len(s) /\ DOMAIN t = 1..Len(t)
      /\ Len(s) \in Nat /\ Len(t) \in Nat
  BY <1>1
<1>3. Range(u) = Range(s) \cup Range(t)
  <2>1. ASSUME NEW i \in DOMAIN u PROVE u[i] \in Range(s) \cup Range(t)
    <3>1. CASE i <= Len(s)
      BY <1>1, <1>2, <3>1, InRange
    <3>2. CASE ~(i <= Len(s))
      <4>1. i - Len(s) \in DOMAIN t /\ u[i] = t[i - Len(s)]
        BY <1>1, <1>2, <3>2
      <4> QED
        BY <4>1, InRange
    <3> QED
      BY <3>1, <3>2
  <2>2. ASSUME NEW i \in DOMAIN s PROVE s[i] \in Range(u)
    BY <1>1, <1>2 DEF Range
  <2>3. ASSUME NEW i \in DOMAIN t PROVE t[i] \in Range(u)
    <3>1. i + Len(s) \in DOMAIN u /\ u[i + Len(s)] = t[i]
      BY <1>1, <1>2
    <3> QED
      BY <3>1 DEF Range
  <2> QED
    BY <2>1, <2>2, <2>3 DEF Range
<1>4. ASSUME Ordered(s), Ordered(t),
             \A r \in Range(s) : \A q \in Range(t) : Stage(r) < Stage(q)
      PROVE  Ordered(u)
  <2> SUFFICES ASSUME NEW i \in DOMAIN u, NEW k \in DOMAIN u, i < k
               PROVE  Before(u[i], u[k])
    BY DEF Ordered
  <2>1. CASE k <= Len(s)
    BY <1>1, <1>2, <1>4, <2>1 DEF Ordered
  <2>2. CASE i > Len(s)
    <3>1. /\ i - Len(s) \in DOMAIN t /\ k - Len(s) \in DOMAIN t
          /\ i - Len(s) < k - Len(s)
          /\ u[i] = t[i - Len(s)] /\ u[k] = t[k - Len(s)]
      BY <1>1, <1>2, <2>2
    <3> QED
      BY <1>4, <3>1 DEF Ordered
  <2>3. CASE i <= Len(s) /\ k > Len(s)
    <3>1. i \in DOMAIN s /\ k - Len(s) \in DOMAIN t
          /\ u[i] = s[i] /\ u[k] = t[k - Len(s)]
      BY <1>1, <1>2, <2>3
    <3>2. u[i] \in Range(s) /\ u[k] \in Range(t)
      BY <3>1, InRange
    <3> QED
      BY <1>4, <3>2 DEF Before
  <2> QED
    BY <1>2, <2>1, <2>2, <2>3
<1> QED
  BY <1>1, <1>3, <1>4 DEF u

\* The head comes before the rest, and the two are the whole.
LEMMA HeadFacts ==
  ASSUME NEW s \in Seq(Requests), s # <<>>
  PROVE  /\ Head(s) \in Requests /\ Tail(s) \in Seq(Requests)
         /\ Range(s) = {Head(s)} \cup Range(Tail(s))
         /\ Ordered(s) => /\ Ordered(Tail(s))
                          /\ \A r \in Range(Tail(s)) : Before(Head(s), r)
<1> DEFINE t == Tail(s)
<1>1. /\ Head(s) \in Requests /\ t \in Seq(Requests) /\ Len(t) = Len(s) - 1
      /\ \A i \in 1..Len(t) : t[i] = s[i + 1]
      /\ Head(s) = s[1]
  BY HeadTailProperties
<1>2. /\ DOMAIN s = 1..Len(s) /\ DOMAIN t = 1..Len(t)
      /\ Len(s) \in Nat \ {0}
  BY <1>1
<1> HIDE DEF t
<1>3. ASSUME NEW i \in DOMAIN s PROVE s[i] \in {Head(s)} \cup Range(t)
  <2>1. CASE i = 1
    BY <1>1, <2>1
  <2>2. CASE i # 1
    <3>1. i - 1 \in DOMAIN t /\ t[i - 1] = s[(i - 1) + 1] /\ (i - 1) + 1 = i
      BY <1>1, <1>2, <2>2
    <3> QED
      BY <3>1 DEF Range
  <2> QED
    BY <2>1, <2>2
<1>4. \A i \in DOMAIN t : i + 1 \in DOMAIN s /\ t[i] = s[i + 1] /\ 1 < i + 1
  BY <1>1, <1>2
<1>5. Range(s) = {Head(s)} \cup Range(t)
  BY <1>1, <1>2, <1>3, <1>4 DEF Range
<1>6. Ordered(s) => Ordered(t)
  BY <1>2, <1>4 DEF Ordered
<1>7. Ordered(s) => \A r \in Range(t) : Before(Head(s), r)
  BY <1>1, <1>2, <1>4 DEF Ordered, Range
<1> QED
  BY <1>1, <1>5, <1>6, <1>7 DEF t

-----------------------------------------------------------------------------
(* The plan of a reconcile.                                                 *)

LEMMA RequestFacts ==
  /\ \A t \in Tags \cup {"auto", "select"} : RemoveReq(t) \in Requests
  /\ \A t \in Tags \cup {"auto", "select"} : \A g \in Groups \cup {None} :
       AddReq(t, g) \in Requests
  /\ \A t \in Tags : Stage(AddReq(t, None)) = 1 /\ Stage(RemoveReq(t)) = 6
  /\ Stage(RemoveReq("select")) = 2 /\ Stage(RemoveReq("auto")) = 3
  /\ \A g : Stage(AddReq("auto", g)) = 4 /\ Stage(AddReq("select", g)) = 5
  /\ \A t : RemoveReq(t).tag = t /\ RemoveReq(t).op = "remove"
  /\ \A t, g : AddReq(t, g).tag = t /\ AddReq(t, g).op = "add" /\ AddReq(t, g).group = g
BY NamesAssumption DEF RemoveReq, AddReq, Requests, Stage

LEMMA PairFacts ==
  ASSUME NEW a \in Requests, NEW b \in Requests, Stage(a) < Stage(b)
  PROVE  /\ <<a, b>> \in Seq(Requests) /\ Range(<<a, b>>) = {a, b} /\ Ordered(<<a, b>>)
<1>1. DOMAIN <<a, b>> = {1, 2} /\ <<a, b>>[1] = a /\ <<a, b>>[2] = b
  OBVIOUS
<1>2. Range(<<a, b>>) = {a, b}
  BY <1>1 DEF Range
<1> QED
  BY <1>1, <1>2 DEF Ordered, Before

LEMMA NoRequests ==
  <<>> \in Seq(Requests) /\ Range(<<>>) = {} /\ Ordered(<<>>)
BY DEF Range, Ordered

LEMMA AddReqsFacts ==
  ASSUME NEW S \in SUBSET Tags
  PROVE  /\ AddReqs(S) \in Seq(Requests) /\ Ordered(AddReqs(S))
         /\ \A r : r \in Range(AddReqs(S)) <=> \E t \in S : r = AddReq(t, None)
<1> DEFINE s == SetToSeq(S)
           p == [i \in 1..Len(s) |-> AddReq(s[i], None)]
<1>1. /\ s \in Seq(S) /\ Range(s) = S
      /\ \A i, k \in DOMAIN s : i # k => s[i] # s[k]
  BY EnumFacts, FS_Subset, GroupAssumption
<1>2. AddReqs(S) = p
  BY DEF AddReqs
<1> HIDE DEF s
<1>3. /\ DOMAIN s = 1..Len(s) /\ Len(s) \in Nat /\ DOMAIN p = DOMAIN s
      /\ \A i \in DOMAIN s : s[i] \in Tags /\ p[i] = AddReq(s[i], None)
  BY <1>1
<1>4. \A i \in DOMAIN s : p[i] \in Requests
  BY <1>3, RequestFacts
<1>5. p \in Seq(Requests)
  BY <1>3, <1>4, SeqDef
<1> HIDE DEF p
<1>6. Ordered(p)
  BY <1>1, <1>3, RequestFacts DEF Ordered, Before
<1>7. ASSUME NEW r PROVE r \in Range(p) <=> \E t \in S : r = AddReq(t, None)
  BY <1>1, <1>3, InRange
<1> QED
  BY <1>2, <1>5, <1>6, <1>7

LEMMA RemoveReqsFacts ==
  ASSUME NEW S \in SUBSET Tags
  PROVE  /\ RemoveReqs(S) \in Seq(Requests) /\ Ordered(RemoveReqs(S))
         /\ \A r : r \in Range(RemoveReqs(S)) <=> \E t \in S : r = RemoveReq(t)
<1> DEFINE s == SetToSeq(S)
           p == [i \in 1..Len(s) |-> RemoveReq(s[i])]
<1>1. /\ s \in Seq(S) /\ Range(s) = S
      /\ \A i, k \in DOMAIN s : i # k => s[i] # s[k]
  BY EnumFacts, FS_Subset, GroupAssumption
<1>2. RemoveReqs(S) = p
  BY DEF RemoveReqs
<1> HIDE DEF s
<1>3. /\ DOMAIN s = 1..Len(s) /\ Len(s) \in Nat /\ DOMAIN p = DOMAIN s
      /\ \A i \in DOMAIN s : s[i] \in Tags /\ p[i] = RemoveReq(s[i])
  BY <1>1
<1>4. \A i \in DOMAIN s : p[i] \in Requests
  BY <1>3, RequestFacts
<1>5. p \in Seq(Requests)
  BY <1>3, <1>4, SeqDef
<1> HIDE DEF p
<1>6. Ordered(p)
  BY <1>1, <1>3, RequestFacts DEF Ordered, Before
<1>7. ASSUME NEW r PROVE r \in Range(p) <=> \E t \in S : r = RemoveReq(t)
  BY <1>1, <1>3, InRange
<1> QED
  BY <1>2, <1>5, <1>6, <1>7

LEMMA RegroupFacts ==
  ASSUME NEW wanted \in Groups, NEW old \in Groups \cup {None}
  PROVE  LET p == Regroup(wanted, old)
         IN /\ p \in Seq(Requests) /\ Ordered(p)
            /\ \A r : r \in Range(p) <=>
                 /\ wanted # old
                 /\ \/ r \in {AddReq("auto", wanted), AddReq("select", wanted)}
                    \/ old # None /\ r \in {RemoveReq("select"), RemoveReq("auto")}
<1> DEFINE new == <<AddReq("auto", wanted), AddReq("select", wanted)>>
           gone == <<RemoveReq("select"), RemoveReq("auto")>>
           p == Regroup(wanted, old)
<1>1. /\ new \in Seq(Requests) /\ Ordered(new)
      /\ Range(new) = {AddReq("auto", wanted), AddReq("select", wanted)}
  BY RequestFacts, PairFacts
<1>2. /\ gone \in Seq(Requests) /\ Ordered(gone)
      /\ Range(gone) = {RemoveReq("select"), RemoveReq("auto")}
  BY RequestFacts, PairFacts
<1>3. /\ gone \o new \in Seq(Requests) /\ Ordered(gone \o new)
      /\ Range(gone \o new) = Range(gone) \cup Range(new)
  <2>1. \A r \in Range(gone) : \A q \in Range(new) : Stage(r) < Stage(q)
    BY <1>1, <1>2, RequestFacts
  <2> HIDE DEF gone, new
  <2> QED
    BY <1>1, <1>2, <2>1, ConcatFacts
<1>4. <<>> \o new = new
  BY <1>1, ConcatEmptySeq
<1>5. p = IF wanted = old THEN <<>> ELSE IF old = None THEN new ELSE gone \o new
  BY <1>4 DEF Regroup
<1> HIDE DEF gone, new
<1>6. CASE wanted = old
  BY <1>5, <1>6, NoRequests
<1>7. CASE wanted # old /\ old = None
  BY <1>1, <1>5, <1>7
<1>8. CASE wanted # old /\ old # None
  BY <1>1, <1>2, <1>3, <1>5, <1>8
<1> QED
  BY <1>6, <1>7, <1>8

LEMMA LeavesFacts ==
  ASSUME NEW old \in Groups \cup {None} PROVE Leaves(old) \subseteq Tags
BY GroupFacts DEF Leaves

\* Which requests a plan has, and that they come stage by stage.
LEMMA PlanFacts ==
  ASSUME NEW wanted \in Groups, NEW old \in Groups \cup {None}
  PROVE  LET p == Plan(wanted, old)
         IN /\ p \in Seq(Requests) /\ Ordered(p)
            /\ \A r : r \in Range(p) <=>
                 \/ \E t \in Leaves(wanted) \ Leaves(old) : r = AddReq(t, None)
                 \/ r \in Range(Regroup(wanted, old))
                 \/ \E t \in Leaves(old) \ Leaves(wanted) : r = RemoveReq(t)
<1> DEFINE a == AddReqs(Leaves(wanted) \ Leaves(old))
           g == Regroup(wanted, old)
           d == RemoveReqs(Leaves(old) \ Leaves(wanted))
<1>0. Leaves(wanted) \subseteq Tags /\ Leaves(old) \subseteq Tags
  BY LeavesFacts
<1>1. /\ a \in Seq(Requests) /\ Ordered(a)
      /\ \A r : r \in Range(a) <=>
           \E t \in Leaves(wanted) \ Leaves(old) : r = AddReq(t, None)
  BY <1>0, AddReqsFacts
<1>2. /\ d \in Seq(Requests) /\ Ordered(d)
      /\ \A r : r \in Range(d) <=>
           \E t \in Leaves(old) \ Leaves(wanted) : r = RemoveReq(t)
  BY <1>0, RemoveReqsFacts
<1>3. /\ g \in Seq(Requests) /\ Ordered(g)
      /\ \A r \in Range(g) : Stage(r) \in 2..5
  BY RegroupFacts, RequestFacts
<1>4. /\ \A r \in Range(a) : Stage(r) = 1
      /\ \A r \in Range(d) : Stage(r) = 6
  <2>1. ASSUME NEW r \in Range(a) PROVE Stage(r) = 1
    <3>1. PICK t \in Leaves(wanted) \ Leaves(old) : r = AddReq(t, None)
      BY <1>1
    <3> QED
      BY <1>0, <3>1, RequestFacts
  <2>2. ASSUME NEW r \in Range(d) PROVE Stage(r) = 6
    <3>1. PICK t \in Leaves(old) \ Leaves(wanted) : r = RemoveReq(t)
      BY <1>2
    <3> QED
      BY <1>0, <3>1, RequestFacts
  <2> QED
    BY <2>1, <2>2
<1>5. Plan(wanted, old) = (a \o g) \o d
  BY DEF Plan
<1> HIDE DEF a, g, d
<1>6. /\ a \o g \in Seq(Requests) /\ Range(a \o g) = Range(a) \cup Range(g)
      /\ Ordered(a \o g)
  BY <1>1, <1>3, <1>4, ConcatFacts
<1>7. \A r \in Range(a \o g) : \A q \in Range(d) : Stage(r) < Stage(q)
  BY <1>3, <1>4, <1>6
<1> DEFINE h == a \o g
<1> HIDE DEF h
<1>8. /\ h \o d \in Seq(Requests) /\ Range(h \o d) = Range(h) \cup Range(d)
      /\ Ordered(h \o d)
  BY <1>2, <1>6, <1>7, ConcatFacts DEF h
<1>9. \A r : r \in Range(h \o d) <=> r \in Range(a) \/ r \in Range(g) \/ r \in Range(d)
  BY <1>6, <1>8 DEF h
<1> QED
  BY <1>1, <1>2, <1>5, <1>8, <1>9 DEF h, g

\* What a plan adds and removes.
LEMMA PlanDoes ==
  ASSUME NEW wanted \in Groups, NEW old \in Groups \cup {None}
  PROVE  LET S == Range(Plan(wanted, old))
         IN /\ \A t \in Tags : Adds(S, t) <=> t \in Leaves(wanted) \ Leaves(old)
            /\ \A t \in Tags : Removes(S, t) <=> t \in Leaves(old) \ Leaves(wanted)
            /\ Adds(S, "auto") <=> wanted # old
            /\ Adds(S, "select") <=> wanted # old
            /\ Removes(S, "auto") <=> wanted # old /\ old # None
            /\ Removes(S, "select") <=> wanted # old /\ old # None
            /\ Brings(S, wanted)
<1> DEFINE S == Range(Plan(wanted, old))
<1>1. /\ Leaves(wanted) \subseteq Tags /\ Leaves(old) \subseteq Tags
      /\ "auto" \notin Tags /\ "select" \notin Tags
  BY LeavesFacts, NamesAssumption
<1>2. \A r : r \in S <=>
        \/ \E t \in Leaves(wanted) \ Leaves(old) : r = AddReq(t, None)
        \/ /\ wanted # old
           /\ \/ r \in {AddReq("auto", wanted), AddReq("select", wanted)}
              \/ old # None /\ r \in {RemoveReq("select"), RemoveReq("auto")}
        \/ \E t \in Leaves(old) \ Leaves(wanted) : r = RemoveReq(t)
  <2>1. \A r : r \in Range(Regroup(wanted, old)) <=>
          /\ wanted # old
          /\ \/ r \in {AddReq("auto", wanted), AddReq("select", wanted)}
             \/ old # None /\ r \in {RemoveReq("select"), RemoveReq("auto")}
    BY RegroupFacts
  <2>2. \A r : r \in S <=>
          \/ \E t \in Leaves(wanted) \ Leaves(old) : r = AddReq(t, None)
          \/ r \in Range(Regroup(wanted, old))
          \/ \E t \in Leaves(old) \ Leaves(wanted) : r = RemoveReq(t)
    BY PlanFacts
  <2> HIDE DEF S
  <2> QED
    BY <2>1, <2>2
<1> HIDE DEF S
<1>3. \A t \in Tags : Adds(S, t) <=> t \in Leaves(wanted) \ Leaves(old)
  BY <1>1, <1>2, RequestFacts DEF Adds
<1>4. \A t \in Tags : Removes(S, t) <=> t \in Leaves(old) \ Leaves(wanted)
  BY <1>1, <1>2, RequestFacts DEF Removes
<1>5. (Adds(S, "auto") <=> wanted # old) /\ (Adds(S, "select") <=> wanted # old)
  BY <1>1, <1>2, RequestFacts DEF Adds
<1>6. /\ Removes(S, "auto") <=> wanted # old /\ old # None
      /\ Removes(S, "select") <=> wanted # old /\ old # None
  BY <1>1, <1>2, RequestFacts DEF Removes
<1>7. Brings(S, wanted)
  BY <1>1, <1>2, RequestFacts DEF Brings
<1> QED
  BY <1>3, <1>4, <1>5, <1>6, <1>7 DEF S

-----------------------------------------------------------------------------
(* What a request does to the core.                                         *)

LEMMA StageFacts ==
  ASSUME NEW r \in Requests
  PROVE  /\ Stage(r) \in 1..6
         /\ Stage(r) = 1 <=> r.op = "add" /\ r.tag \in Tags
         /\ Stage(r) = 2 <=> r.op = "remove" /\ r.tag = "select"
         /\ Stage(r) = 3 <=> r.op = "remove" /\ r.tag = "auto"
         /\ Stage(r) = 4 <=> r.op = "add" /\ r.tag = "auto"
         /\ Stage(r) = 5 <=> r.op = "add" /\ r.tag = "select"
         /\ Stage(r) = 6 <=> r.op = "remove" /\ r.tag \in Tags
BY NamesAssumption DEF Requests, Stage

LEMMA MembersFacts ==
  ASSUME NEW g \in Groups
  PROVE  /\ Members(g) \subseteq Tags \cup {"direct"} /\ Members(g) # {}
         /\ Best(g) \in Members(g)
         /\ \A t \in Tags : t \in Members(g) => t \in Leaves(g)
<1>1. g \in Seq(Tags) /\ Leaves(g) = Range(g) /\ Leaves(g) \subseteq Tags
  BY GroupFacts
<1>2. CASE g = <<>>
  BY <1>2, NamesAssumption DEF Members, Best
<1>3. CASE g # <<>>
  <2>1. 1 \in DOMAIN g
    BY <1>1, <1>3, EmptySeq
  <2>2. g[1] \in Range(g)
    BY <2>1, InRange
  <2> QED
    BY <1>1, <1>3, <2>2 DEF Members, Best
<1> QED
  BY <1>2, <1>3

\* How it leaves the core, stage by stage.
Done(r, c, d) ==
  /\ d \in Cores /\ d.up = c.up
  /\ d.leaves = CASE Stage(r) = 1 -> c.leaves \cup {r.tag}
                  [] Stage(r) = 6 -> c.leaves \ {r.tag}
                  [] OTHER -> c.leaves
  /\ d.auto = CASE Stage(r) = 3 -> None [] Stage(r) = 4 -> r.group [] OTHER -> c.auto
  /\ Stage(r) = 2 => ~d.select
  /\ Stage(r) = 5 => d.select
  /\ Stage(r) \notin {2, 5} => d.select = c.select

LEMMA EffectsFacts ==
  ASSUME core \in Cores, NEW r \in Requests, Stage(r) = 4 => r.group \in Groups,
         NEW d \in Effects(r)
  PROVE  Done(r, core, d)
<1>1. CASE Stage(r) = 1
  <2>1. r.op = "add" /\ r.tag \in Tags /\ r.tag # "auto" /\ r.tag # "select"
    BY <1>1, StageFacts, NamesAssumption
  <2>2. d = [core EXCEPT !.leaves = core.leaves \cup {r.tag}]
    BY <2>1 DEF Effects
  <2> QED
    BY <1>1, <2>1, <2>2 DEF Done, Cores
<1>2. CASE Stage(r) = 2
  <2>1. r.op = "remove" /\ r.tag = "select" /\ "select" \notin Tags
    BY <1>2, StageFacts, NamesAssumption
  <2>2. d = [core EXCEPT !.select = FALSE]
    BY <2>1 DEF Effects
  <2>3. /\ d \in Cores /\ d.up = core.up /\ d.leaves = core.leaves
        /\ d.auto = core.auto /\ d.select = FALSE
    BY <2>2 DEF Cores
  <2> QED
    BY <1>2, <2>3 DEF Done
<1>3. CASE Stage(r) = 3
  <2>1. r.op = "remove" /\ r.tag = "auto" /\ "auto" \notin Tags
    BY <1>3, StageFacts, NamesAssumption
  <2>2. d = [core EXCEPT !.auto = None]
    BY <2>1 DEF Effects
  <2> QED
    BY <1>3, <2>1, <2>2 DEF Done, Cores
<1>4. CASE Stage(r) = 4
  <2>1. r.op = "add" /\ r.tag = "auto" /\ "auto" \notin Tags
    BY <1>4, StageFacts, NamesAssumption
  <2>2. PICK t \in Members(r.group) : d = [core EXCEPT !.auto = r.group, !.now = t]
    BY <2>1 DEF Effects
  <2>3. r.group \in Groups /\ t \in Tags \cup {"direct"}
    BY <1>4, <2>2, MembersFacts
  <2> DEFINE c == [core EXCEPT !.auto = r.group]
  <2>4. /\ c \in Cores /\ c.auto = r.group /\ c.up = core.up
        /\ c.leaves = core.leaves /\ c.select = core.select
    BY <2>3 DEF Cores
  <2>5. d = [c EXCEPT !.now = t]
    BY <2>2
  <2> HIDE DEF c
  <2> QED
    BY <1>4, <2>3, <2>4, <2>5 DEF Done, Cores
<1>5. CASE Stage(r) = 5
  <2>1. r.op = "add" /\ r.tag = "select" /\ "select" \notin Tags
    BY <1>5, StageFacts, NamesAssumption
  <2>2. d = [core EXCEPT !.select = TRUE]
    BY <2>1 DEF Effects
  <2>3. /\ d \in Cores /\ d.up = core.up /\ d.leaves = core.leaves
        /\ d.auto = core.auto /\ d.select = TRUE
    BY <2>2 DEF Cores
  <2> QED
    BY <1>5, <2>3 DEF Done
<1>6. CASE Stage(r) = 6
  <2>1. r.op = "remove" /\ r.tag \in Tags /\ r.tag # "auto" /\ r.tag # "select"
    BY <1>6, StageFacts, NamesAssumption
  <2>2. d = [core EXCEPT !.leaves = core.leaves \ {r.tag}]
    BY <2>1 DEF Effects
  <2> QED
    BY <1>6, <2>1, <2>2 DEF Done, Cores
<1> QED
  BY <1>1, <1>2, <1>3, <1>4, <1>5, <1>6, StageFacts

\* The core takes it on.
Accepts(r, c) ==
  CASE Stage(r) = 2 -> c.select
    [] Stage(r) = 3 -> c.auto # None /\ ~c.select
    [] Stage(r) = 4 -> r.group \in Groups /\ Leaves(r.group) \subseteq c.leaves
    [] Stage(r) = 5 -> c.auto # None
    [] Stage(r) = 6 -> r.tag \in c.leaves /\ c.auto \in Groups /\ r.tag \notin Leaves(c.auto)
    [] OTHER -> TRUE

LEMMA AcceptedFacts ==
  ASSUME NEW r \in Requests, Accepts(r, core)
  PROVE  Effects(r) # {}
<1>1. CASE Stage(r) = 1
  <2>1. r.op = "add" /\ r.tag \in Tags /\ r.tag # "auto" /\ r.tag # "select"
    BY <1>1, StageFacts, NamesAssumption
  <2> QED
    BY <2>1 DEF Effects
<1>2. CASE Stage(r) = 2
  <2>1. r.op = "remove" /\ r.tag = "select" /\ "select" \notin Tags
    BY <1>2, StageFacts, NamesAssumption
  <2>2. Effects(r) = IF core.select THEN {[core EXCEPT !.select = FALSE]} ELSE {}
    BY <2>1 DEF Effects
  <2>3. core.select
    BY <1>2 DEF Accepts
  <2> QED
    BY <2>2, <2>3
<1>3. CASE Stage(r) = 3
  <2>1. r.op = "remove" /\ r.tag = "auto" /\ "auto" \notin Tags
    BY <1>3, StageFacts, NamesAssumption
  <2>2. Effects(r) = IF core.auto # None /\ ~core.select
                     THEN {[core EXCEPT !.auto = None]} ELSE {}
    BY <2>1 DEF Effects
  <2>3. core.auto # None /\ ~core.select
    BY <1>3 DEF Accepts
  <2> QED
    BY <2>2, <2>3
<1>4. CASE Stage(r) = 4
  <2>1. r.op = "add" /\ r.tag = "auto" /\ "auto" \notin Tags
    BY <1>4, StageFacts, NamesAssumption
  <2>2. r.group \in Groups /\ Leaves(r.group) \subseteq core.leaves
    BY <1>4 DEF Accepts
  <2>3. PICK t \in Members(r.group) : TRUE
    BY <2>2, MembersFacts
  <2>4. [core EXCEPT !.auto = r.group, !.now = t] \in Effects(r)
    BY <2>1, <2>2, <2>3 DEF Effects
  <2> QED
    BY <2>4
<1>5. CASE Stage(r) = 5
  <2>1. r.op = "add" /\ r.tag = "select" /\ "select" \notin Tags
    BY <1>5, StageFacts, NamesAssumption
  <2>2. Effects(r) = IF core.auto # None THEN {[core EXCEPT !.select = TRUE]} ELSE {}
    BY <2>1 DEF Effects
  <2>3. core.auto # None
    BY <1>5 DEF Accepts
  <2> QED
    BY <2>2, <2>3
<1>6. CASE Stage(r) = 6
  <2>1. r.op = "remove" /\ r.tag \in Tags /\ r.tag # "auto" /\ r.tag # "select"
    BY <1>6, StageFacts, NamesAssumption
  <2>2. r.tag \in core.leaves /\ r.tag \notin Members(core.auto)
    BY <1>6, <2>1, MembersFacts DEF Accepts
  <2> QED
    BY <2>1, <2>2 DEF Effects
<1> QED
  BY <1>1, <1>2, <1>3, <1>4, <1>5, <1>6, StageFacts

-----------------------------------------------------------------------------
(* One request of a plan.                                                   *)

\* A plan that is under way: its head r, and what comes after.
Heads(s, r, T, group) ==
  /\ r \in Requests /\ T \subseteq Requests
  /\ Range(s) = {r} \cup T /\ (\A q \in T : Before(r, q))
  /\ Brings(Range(s), group)

LEMMA HeadsFacts ==
  ASSUME NEW s \in Seq(Requests), s # <<>>, Ordered(s), NEW group, Brings(Range(s), group)
  PROVE  Heads(s, Head(s), Range(Tail(s)), group)
<1>1. Tail(s) \in Seq(Requests)
  BY HeadFacts
<1>2. Range(Tail(s)) \subseteq Requests
  BY <1>1 DEF Range
<1> QED
  BY <1>2, HeadFacts DEF Heads

\* What is left of a plan, and what no longer is.
LEMMA RestFacts ==
  ASSUME NEW s, NEW r, NEW T, NEW group, Heads(s, r, T, group)
  PROVE  /\ Brings(T, group)
         /\ \A t : Adds(Range(s), t) <=> (r.op = "add" /\ r.tag = t) \/ Adds(T, t)
         /\ \A t : Removes(Range(s), t) <=> (r.op = "remove" /\ r.tag = t) \/ Removes(T, t)
         /\ Stage(r) >= 2 => \A t \in Tags : ~Adds(T, t)
         /\ Stage(r) >= 2 => ~Removes(T, "select")
         /\ Stage(r) >= 3 => ~Removes(T, "auto")
         /\ Stage(r) >= 4 => ~Adds(T, "auto")
         /\ Stage(r) >= 5 => ~Adds(T, "select")
         /\ Stage(r) = 1 => ~Adds(T, r.tag)
         /\ Stage(r) = 6 => ~Removes(T, r.tag)
<1>1. r \in Requests /\ T \subseteq Requests /\ Range(s) = {r} \cup T
      /\ (\A q \in T : Before(r, q)) /\ Brings(Range(s), group)
  BY DEF Heads
<1>2. Brings(T, group)
  BY <1>1 DEF Brings
<1>3. /\ \A t : Adds(Range(s), t) <=> (r.op = "add" /\ r.tag = t) \/ Adds(T, t)
      /\ \A t : Removes(Range(s), t) <=> (r.op = "remove" /\ r.tag = t) \/ Removes(T, t)
  BY <1>1 DEF Adds, Removes
<1>4. \A q \in T : /\ Stage(q) \in 1..6 /\ Stage(r) \in 1..6 /\ Stage(r) <= Stage(q)
                   /\ Stage(r) = Stage(q) => r.tag # q.tag
  BY <1>1, StageFacts DEF Before
<1>5. Stage(r) >= 2 => \A t \in Tags : ~Adds(T, t)
  BY <1>1, <1>4, StageFacts DEF Adds
<1>6. Stage(r) >= 2 => ~Removes(T, "select")
  BY <1>1, <1>4, StageFacts DEF Removes
<1>7. Stage(r) >= 3 => ~Removes(T, "auto")
  BY <1>1, <1>4, StageFacts DEF Removes
<1>8. Stage(r) >= 4 => ~Adds(T, "auto")
  BY <1>1, <1>4, StageFacts DEF Adds
<1>9. Stage(r) >= 5 => ~Adds(T, "select")
  BY <1>1, <1>4, StageFacts DEF Adds
<1>10. Stage(r) = 1 => ~Adds(T, r.tag)
  BY <1>1, <1>4, StageFacts DEF Adds
<1>11. Stage(r) = 6 => ~Removes(T, r.tag)
  BY <1>1, <1>4, StageFacts DEF Removes
<1> QED
  BY <1>2, <1>3, <1>5, <1>6, <1>7, <1>8, <1>9, <1>10, <1>11

\* It leads on to the same group, ...
LEMMA LeadsStep ==
  ASSUME NEW s, NEW r, NEW T, NEW group \in Groups, Heads(s, r, T, group),
         NEW c, NEW d, Done(r, c, d), Leads(c, Range(s), group)
  PROVE  Leads(d, T, group)
<1> DEFINE S == Range(s)
<1>0. /\ r \in Requests /\ Brings(S, group) /\ r \in S
      /\ "auto" \notin Tags /\ "select" \notin Tags /\ Stage(r) \in 1..6
  BY StageFacts, NamesAssumption DEF Heads
<1>1. /\ Brings(T, group)
      /\ \A t : Adds(S, t) <=> (r.op = "add" /\ r.tag = t) \/ Adds(T, t)
      /\ \A t : Removes(S, t) <=> (r.op = "remove" /\ r.tag = t) \/ Removes(T, t)
  BY RestFacts
<1>2. /\ Stage(r) >= 3 => ~Removes(T, "auto")
      /\ Stage(r) >= 2 => ~Removes(T, "select")
  BY RestFacts
<1>3. \A t \in Tags : Removes(T, t) => t \notin Leaves(group)
  BY <1>1 DEF Brings, Removes
<1>4. /\ c.leaves \subseteq Tags
      /\ \A t \in Tags : t \in Leaves(group) <=>
                           Adds(S, t) \/ (t \in c.leaves /\ ~Removes(S, t))
      /\ Adds(S, "auto") \/ (c.auto = group /\ ~Removes(S, "auto"))
      /\ Adds(S, "select") \/ (c.select /\ ~Removes(S, "select"))
  BY DEF Leads
<1> HIDE DEF S
<1>5. CASE Stage(r) = 1
  <2>1. r.op = "add" /\ r.tag \in Tags /\ r.tag \in Leaves(group)
    BY <1>0, <1>5, StageFacts DEF Brings
  <2>2. d.leaves = c.leaves \cup {r.tag} /\ d.auto = c.auto /\ d.select = c.select
    BY <1>5 DEF Done
  <2> QED
    BY <1>0, <1>1, <1>3, <1>4, <2>1, <2>2 DEF Leads
<1>6. CASE Stage(r) = 2
  <2>1. r.op = "remove" /\ r.tag = "select"
    BY <1>0, <1>6, StageFacts
  <2>2. d.leaves = c.leaves /\ d.auto = c.auto
    BY <1>6 DEF Done
  <2> QED
    BY <1>0, <1>1, <1>4, <2>1, <2>2 DEF Leads
<1>7. CASE Stage(r) = 3
  <2>1. r.op = "remove" /\ r.tag = "auto"
    BY <1>0, <1>7, StageFacts
  <2>2. d.leaves = c.leaves /\ d.select = c.select
    BY <1>7 DEF Done
  <2> QED
    BY <1>0, <1>1, <1>4, <2>1, <2>2 DEF Leads
<1>8. CASE Stage(r) = 4
  <2>1. r.op = "add" /\ r.tag = "auto" /\ r.group = group
    BY <1>0, <1>8, StageFacts DEF Brings
  <2>2. d.leaves = c.leaves /\ d.auto = group /\ d.select = c.select
    BY <1>8, <2>1 DEF Done
  <2> QED
    BY <1>0, <1>1, <1>2, <1>4, <1>8, <2>1, <2>2 DEF Leads
<1>9. CASE Stage(r) = 5
  <2>1. r.op = "add" /\ r.tag = "select"
    BY <1>0, <1>9, StageFacts
  <2>2. d.leaves = c.leaves /\ d.auto = c.auto /\ d.select
    BY <1>9 DEF Done
  <2> QED
    BY <1>0, <1>1, <1>2, <1>4, <1>9, <2>1, <2>2 DEF Leads
<1>10. CASE Stage(r) = 6
  <2>1. r.op = "remove" /\ r.tag \in Tags
    BY <1>0, <1>10, StageFacts
  <2>2. d.leaves = c.leaves \ {r.tag} /\ d.auto = c.auto /\ d.select = c.select
    BY <1>10 DEF Done
  <2> QED
    BY <1>0, <1>1, <1>4, <2>1, <2>2 DEF Leads
<1> QED
  BY <1>0, <1>5, <1>6, <1>7, <1>8, <1>9, <1>10

\* ... leaves nothing ahead to be refused, ...
LEMMA RemovableStep ==
  ASSUME NEW s, NEW r, NEW T, NEW group, Heads(s, r, T, group),
         NEW c, NEW d, Done(r, c, d), Removable(c, Range(s))
  PROVE  Removable(d, T)
<1> DEFINE S == Range(s)
<1>0. /\ r \in Requests /\ "auto" \notin Tags /\ "select" \notin Tags /\ Stage(r) \in 1..6
  BY StageFacts, NamesAssumption DEF Heads
<1>1. /\ \A t : Removes(S, t) <=> (r.op = "remove" /\ r.tag = t) \/ Removes(T, t)
      /\ Stage(r) >= 2 => ~Removes(T, "select")
      /\ Stage(r) >= 3 => ~Removes(T, "auto")
      /\ Stage(r) = 6 => ~Removes(T, r.tag)
  BY RestFacts
<1>2. /\ \A t \in Tags : Removes(S, t) => t \in c.leaves
      /\ Removes(S, "auto") => c.auto # None /\ (Removes(S, "select") \/ ~c.select)
      /\ Removes(S, "select") => c.select
  BY DEF Removable
<1> HIDE DEF S
<1>3. \A t \in Tags : Removes(T, t) => t \in d.leaves
  BY <1>0, <1>1, <1>2 DEF Done
<1>4. Removes(T, "select") => d.select
  BY <1>0, <1>1, <1>2 DEF Done
<1>5. ASSUME Removes(T, "auto") PROVE d.auto # None /\ (Removes(T, "select") \/ ~d.select)
  <2>1. Stage(r) \in {1, 2}
    BY <1>0, <1>1, <1>5
  <2>2. d.auto = c.auto
    BY <2>1 DEF Done
  <2>3. CASE Stage(r) = 1
    <3>1. r.op = "add" /\ d.select = c.select
      BY <1>0, <2>3, StageFacts DEF Done
    <3> QED
      BY <1>1, <1>2, <1>5, <2>2, <3>1
  <2>4. CASE Stage(r) = 2
    BY <1>1, <1>2, <1>5, <2>2, <2>4 DEF Done
  <2> QED
    BY <2>1, <2>3, <2>4
<1> QED
  BY <1>3, <1>4, <1>5 DEF Removable

\* ... and is not refused itself.
LEMMA HeadAccepted ==
  ASSUME NEW s, NEW r, NEW T, NEW group \in Groups, Heads(s, r, T, group),
         NEW c, Leads(c, Range(s), group), Removable(c, Range(s))
  PROVE  Accepts(r, c)
<1> DEFINE S == Range(s)
<1>0. /\ r \in Requests /\ Brings(S, group) /\ r \in S
      /\ "auto" \notin Tags /\ "select" \notin Tags /\ Stage(r) \in 1..6
      /\ group # None /\ Leaves(group) \subseteq Tags
  BY StageFacts, NamesAssumption, GroupFacts DEF Heads
<1>1. /\ \A t : Adds(S, t) <=> (r.op = "add" /\ r.tag = t) \/ Adds(T, t)
      /\ \A t : Removes(S, t) <=> (r.op = "remove" /\ r.tag = t) \/ Removes(T, t)
      /\ Stage(r) >= 2 => \A t \in Tags : ~Adds(T, t)
      /\ Stage(r) >= 2 => ~Removes(T, "select")
      /\ Stage(r) >= 4 => ~Adds(T, "auto")
  BY RestFacts
<1>2. /\ \A t \in Tags : Removes(S, t) => t \in c.leaves
      /\ Removes(S, "auto") => c.auto # None /\ (Removes(S, "select") \/ ~c.select)
      /\ Removes(S, "select") => c.select
  BY DEF Removable
<1>3. /\ \A t \in Tags : t \in Leaves(group) => Adds(S, t) \/ t \in c.leaves
      /\ Adds(S, "auto") \/ c.auto = group
  BY DEF Leads
<1> HIDE DEF S
<1>4. CASE Stage(r) = 1
  BY <1>4 DEF Accepts
<1>5. CASE Stage(r) = 2
  BY <1>0, <1>1, <1>2, <1>5, StageFacts DEF Accepts
<1>6. CASE Stage(r) = 3
  <2>1. r.op = "remove" /\ r.tag = "auto"
    BY <1>0, <1>6, StageFacts
  <2>2. c.auto # None /\ ~c.select
    BY <1>1, <1>2, <1>6, <2>1
  <2> QED
    BY <1>6, <2>2 DEF Accepts
<1>7. CASE Stage(r) = 4
  <2>1. r.op = "add" /\ r.tag = "auto" /\ r.group = group
    BY <1>0, <1>7, StageFacts DEF Brings
  <2>2. Leaves(group) \subseteq c.leaves
    BY <1>0, <1>1, <1>3, <1>7, <2>1
  <2> QED
    BY <1>7, <2>1, <2>2 DEF Accepts
<1>8. CASE Stage(r) = 5
  <2>1. r.op = "add" /\ r.tag = "select"
    BY <1>0, <1>8, StageFacts
  <2>2. c.auto = group
    BY <1>1, <1>3, <1>8, <2>1
  <2> QED
    BY <1>0, <1>8, <2>2 DEF Accepts
<1>9. CASE Stage(r) = 6
  <2>1. r.op = "remove" /\ r.tag \in Tags /\ r.tag \notin Leaves(group)
    BY <1>0, <1>9, StageFacts DEF Brings
  <2>2. c.auto = group /\ r.tag \in c.leaves
    BY <1>0, <1>1, <1>2, <1>3, <1>9, <2>1
  <2> QED
    BY <1>9, <2>1, <2>2 DEF Accepts
<1> QED
  BY <1>0, <1>4, <1>5, <1>6, <1>7, <1>8, <1>9

\* A plan that starts from the config the core runs.
LEMMA PlanLeads ==
  ASSUME NEW c \in Cores, NEW old \in Groups, NEW wanted \in Groups, Runs(c, old)
  PROVE  LET S == Range(Plan(wanted, old))
         IN Leads(c, S, wanted) /\ Removable(c, S)
<1> DEFINE S == Range(Plan(wanted, old))
<1>0. Leaves(wanted) \subseteq Tags /\ Leaves(old) \subseteq Tags /\ old # None
  BY GroupFacts
<1>1. /\ \A t \in Tags : Adds(S, t) <=> t \in Leaves(wanted) \ Leaves(old)
      /\ \A t \in Tags : Removes(S, t) <=> t \in Leaves(old) \ Leaves(wanted)
      /\ Adds(S, "auto") <=> wanted # old
      /\ Adds(S, "select") <=> wanted # old
      /\ Removes(S, "auto") <=> wanted # old /\ old # None
      /\ Removes(S, "select") <=> wanted # old /\ old # None
  BY PlanDoes
<1> HIDE DEF S
<1>2. Leads(c, S, wanted)
  BY <1>0, <1>1 DEF Leads, Runs
<1>3. Removable(c, S)
  BY <1>0, <1>1 DEF Removable, Runs
<1> QED
  BY <1>2, <1>3 DEF S

\* A plan that is done.
LEMMA LedTo ==
  ASSUME NEW c \in Cores, NEW group \in Groups, Leads(c, {}, group)
  PROVE  Runs(c, group)
<1>1. Leaves(group) \subseteq Tags
  BY GroupFacts
<1> QED
  BY <1>1 DEF Leads, Runs, Adds, Removes

-----------------------------------------------------------------------------
(* The job and the core over one step.                                      *)

Pcs == {"idle", "switch", "build", "park", "reconcile", "restart", "save_live",
        "save_tags", "select"}

LEMMA NoServers == <<>> \in Groups
<1>1. IsFiniteSet({}) /\ Cardinality({}) = 0
  BY FS_EmptySet
<1>2. 1..0 = {}
  OBVIOUS
<1>3. <<>> \in SetToSeqs({})
  <2>1. <<>> \in [1..0 -> {}]
    BY <1>2
  <2> QED
    BY <1>1, <1>2, <2>1 DEF SetToSeqs
<1>4. <<>> \in Rankings
  BY <1>3 DEF Rankings
<1>5. SubSeq(<<>>, 1, 0) = <<>>
  BY SubSeqEmpty
<1>6. Len(<<>>) = 0
  OBVIOUS
<1>7. FirstOf(<<>>) = <<>>
  BY <1>5, <1>6, GroupAssumption DEF FirstOf
<1> QED
  BY <1>4, <1>7 DEF Groups

LEMMA IdleFacts ==
  /\ Idle \in Jobs /\ Idle.pc = "idle" /\ Idle.synced = FALSE /\ Idle.via = None
  /\ Idle.kind = None /\ Idle.old = None
BY NoServers, NoRequests DEF Idle, Jobs

LEMMA GotoFacts ==
  ASSUME job \in Jobs, NEW pc \in Pcs, Goto(pc)
  PROVE  /\ job' \in Jobs /\ job'.pc = pc /\ job'.kind = job.kind
         /\ job'.group = job.group /\ job'.old = job.old /\ job'.plan = job.plan
         /\ job'.via = job.via /\ job'.synced = job.synced
BY DEF Goto, Jobs, Pcs

LEMMA ReturnFacts ==
  ASSUME job \in Jobs, NEW ok \in BOOLEAN, Return(ok)
  PROVE  /\ job' \in Jobs /\ job'.pc = "idle" /\ job'.synced = FALSE
         /\ job'.kind = job.kind /\ job'.old = None
         /\ job'.via = IF ok THEN "ok" ELSE "failed"
<1> DEFINE via == IF ok THEN "ok" ELSE "failed"
           middle == [Idle EXCEPT !.via = via]
<1>1. via \in {"ok", "failed"}
  OBVIOUS
<1>2. job' = [middle EXCEPT !.kind = job.kind]
  BY DEF Return
<1> HIDE DEF via
<1>3. /\ middle \in Jobs /\ middle.pc = "idle" /\ middle.synced = FALSE
      /\ middle.old = None /\ middle.via = via
  BY <1>1, IdleFacts DEF Jobs
<1> HIDE DEF middle
<1>4. /\ job' \in Jobs /\ job'.pc = "idle" /\ job'.synced = FALSE
      /\ job'.old = None /\ job'.via = via /\ job'.kind = job.kind
  BY <1>2, <1>3 DEF Jobs
<1> QED
  BY <1>4 DEF via

\* Another member is selected, or none: the core serves what it served.
Reselects(c, d) ==
  /\ d \in Cores /\ d.up = c.up /\ d.leaves = c.leaves
  /\ d.auto = c.auto /\ d.select = c.select /\ (~c.up => d = c)

LEMMA ChosenFacts ==
  ASSUME core \in Cores, NEW t \in Tags \cup {"direct"}
  PROVE  /\ \A c \in Chosen(t) : core.up /\ Reselects(core, c)
         /\ \A c \in NotChosen(t) : Reselects(core, c)
<1>1. LET c == [core EXCEPT !.now = t]
      IN /\ c \in Cores /\ c.up = core.up /\ c.leaves = core.leaves
         /\ c.auto = core.auto /\ c.select = core.select
  BY DEF Cores
<1>2. \A c \in Chosen(t) : core.up /\ Reselects(core, c)
  BY <1>1 DEF Chosen, Selectable, Reselects
<1>3. Reselects(core, core)
  BY DEF Reselects
<1> QED
  BY <1>2, <1>3 DEF NotChosen

LEMMA StartedFacts ==
  ASSUME NEW g \in Groups, NEW c \in StartedFrom(g)
  PROVE  c \in Cores /\ c.up /\ Runs(c, g)
<1>1. PICK t \in Members(g) :
        c = [up |-> TRUE, leaves |-> Leaves(g), auto |-> g, select |-> TRUE, now |-> t]
  BY DEF StartedFrom
<1>2. t \in Tags \cup {"direct"} /\ Leaves(g) \subseteq Tags
  BY MembersFacts, GroupFacts
<1> QED
  BY <1>1, <1>2 DEF Cores, Runs

LEMMA DownFacts == Down \in Cores /\ ~Down.up /\ Down.auto = None
BY DEF Down, Cores

\* What the files, the core and the job of a step must be, to begin with.
LEMMA KeptFacts ==
  ASSUME GroupsKept
  PROVE  /\ job \in Jobs /\ job.pc \in Pcs /\ job.group \in Groups
         /\ job.old \in Groups \cup {None} /\ job.plan \in Seq(Requests)
         /\ core \in Cores /\ core.up \in BOOLEAN /\ job.synced \in BOOLEAN
         /\ Best(job.group) \in Tags \cup {"direct"}
         /\ disk \in Groups \cup {None} /\ live \in Groups \cup {None}
<1>1. job \in Jobs /\ core \in Cores /\ job.group \in Groups
  BY DEF GroupsKept
<1>2. Best(job.group) \in Tags \cup {"direct"}
  BY <1>1, MembersFacts
<1> QED
  BY <1>1, <1>2 DEF GroupsKept, Jobs, Cores, Pcs

CoreKept == core' \in Cores /\ (~core'.up => core' = Down)

LEMMA CoreKeeps ==
  ASSUME GroupsKept, Reselects(core, core')
  PROVE  CoreKept
BY DEF GroupsKept, Reselects, CoreKept

\* Between jobs there is nothing to keep but the groups.
LEMMA IdleKeeps ==
  ASSUME GroupsKept', job'.pc = "idle", job'.synced = FALSE
  PROVE  IInv'
BY DEF IInv, JobInv, DependencyInv, SyncInv, Written, Saving, At

LEMMA ReturnKeeps ==
  ASSUME IInv, NEW ok \in BOOLEAN, Return(ok), CoreKept,
         UNCHANGED <<disk, live, degraded>>,
         lastTags' = None \/ lastTags' \in SUBSET Tags
  PROVE  IInv'
<1>1. GroupsKept /\ job \in Jobs
  BY DEF IInv, GroupsKept
<1>2. /\ job' \in Jobs /\ job'.pc = "idle" /\ job'.synced = FALSE /\ job'.old = None
  BY <1>1, ReturnFacts
<1>3. GroupsKept'
  <2>1. job'.group \in Groups
    BY <1>2 DEF Jobs
  <2> QED
    BY <1>1, <1>2, <2>1 DEF GroupsKept, CoreKept
<1> QED
  BY <1>2, <1>3, IdleKeeps

LEMMA FallBackKeeps ==
  ASSUME IInv, Written, FallBack, CoreKept, UNCHANGED <<disk, live, lastTags, degraded>>
  PROVE  IInv'
<1>0. GroupsKept /\ JobInv /\ job \in Jobs
  BY DEF IInv, GroupsKept
<1>1. CASE job.kind = "refill"
  <2>1. Return(FALSE)
    BY <1>1 DEF FallBack
  <2> QED
    BY <2>1, <1>0, ReturnKeeps DEF GroupsKept
<1>2. CASE job.kind # "refill"
  <2>1. Goto("restart")
    BY <1>2 DEF FallBack
  <2>2. /\ job' \in Jobs /\ job'.pc = "restart" /\ job'.kind = job.kind
        /\ job'.group = job.group /\ job'.old = job.old
    BY <1>0, <2>1, GotoFacts DEF Pcs
  <2>3. GroupsKept'
    BY <1>0, <2>2 DEF GroupsKept, CoreKept
  <2>4. JobInv' /\ DependencyInv' /\ SyncInv'
    BY <1>0, <1>2, <2>2 DEF JobInv, DependencyInv, SyncInv, Written, Saving, At
  <2> QED
    BY <2>3, <2>4 DEF IInv
<1> QED
  BY <1>1, <1>2

LEMMA BeginKeeps ==
  ASSUME IInv, NEW kind \in {"apply", "forced", "refill"}, NEW group \in Groups,
         NEW pc \in {"switch", "build"}, Begin(kind, group, pc),
         pc = "switch" => lastTags = Leaves(group),
         degraded' \in Tags \cup {None}
  PROVE  IInv'
<1>0. GroupsKept
  BY DEF IInv
<1>1. /\ job' = [Idle EXCEPT !.pc = pc, !.kind = kind, !.group = group, !.synced = Synced]
      /\ UNCHANGED <<disk, live, lastTags, core>>
  BY DEF Begin
<1> DEFINE synced == Synced
           j1 == [Idle EXCEPT !.pc = pc]
           j2 == [j1 EXCEPT !.kind = kind]
           j3 == [j2 EXCEPT !.group = group]
<1>2. synced \in BOOLEAN /\ (synced <=> Synced)
  BY DEF Synced
<1>3. job' = [j3 EXCEPT !.synced = synced]
  BY <1>1
<1> HIDE DEF synced
<1>4. j1 \in Jobs /\ j1.pc = pc /\ j1.old = None
  BY IdleFacts DEF Jobs
<1> HIDE DEF j1
<1>5. j2 \in Jobs /\ j2.pc = pc /\ j2.old = None
  BY <1>4 DEF Jobs
<1> HIDE DEF j2
<1>6. j3 \in Jobs /\ j3.pc = pc /\ j3.old = None /\ j3.group = group
  BY <1>5 DEF Jobs
<1> HIDE DEF j3
<1>7. /\ job' \in Jobs /\ job'.pc = pc /\ job'.old = None /\ job'.group = group
      /\ job'.synced = synced
  BY <1>2, <1>3, <1>6 DEF Jobs
<1>8. GroupsKept'
  BY <1>0, <1>1, <1>7 DEF GroupsKept
<1>9. JobInv' /\ DependencyInv'
  BY <1>7 DEF JobInv, DependencyInv, Written, Saving, At
<1>10. Synced' <=> Synced
  BY <1>1 DEF Synced
<1>11. SyncInv'
  BY <1>1, <1>2, <1>7, <1>10 DEF SyncInv, Saving, At
<1> QED
  BY <1>8, <1>9, <1>11 DEF IInv

-----------------------------------------------------------------------------
(* The actions.                                                             *)

LEMMA BeginInv ==
  ASSUME IInv, BeginApply \/ BeginForced \/ BeginRefill
  PROVE  IInv'
<1>0. GroupsKept
  BY DEF IInv
<1>1. \A ranking \in Rankings : FirstOf(ranking) \in Groups
  BY DEF Groups
<1>2. CASE BeginApply
  <2>1. PICK ranking \in Rankings :
          Begin("apply", FirstOf(ranking),
                IF lastTags = Leaves(FirstOf(ranking)) THEN "switch" ELSE "build")
    BY <1>2 DEF BeginApply
  <2>2. degraded' \in Tags \cup {None}
    BY <1>0, <1>2 DEF BeginApply, GroupsKept
  <2> DEFINE group == FirstOf(ranking)
  <2>3. group \in Groups
    BY <1>1
  <2> HIDE DEF group
  <2>4. CASE lastTags = Leaves(group)
    <3>1. Begin("apply", group, "switch")
      BY <2>1, <2>4 DEF group
    <3> QED
      BY <2>2, <2>3, <2>4, <3>1, BeginKeeps
  <2>5. CASE lastTags # Leaves(group)
    <3>1. Begin("apply", group, "build")
      BY <2>1, <2>5 DEF group
    <3> QED
      BY <2>2, <2>3, <3>1, BeginKeeps
  <2> QED
    BY <2>4, <2>5
<1>3. CASE BeginForced
  <2>1. PICK ranking \in Rankings : Begin("forced", FirstOf(ranking), "build")
    BY <1>3 DEF BeginForced
  <2>2. degraded' \in Tags \cup {None}
    BY <1>0, <1>3 DEF BeginForced, GroupsKept
  <2> QED
    BY <1>1, <2>1, <2>2, BeginKeeps
<1>4. CASE BeginRefill
  <2>1. PICK ranking \in Rankings : Begin("refill", FirstOf(ranking), "build")
    BY <1>4 DEF BeginRefill
  <2>2. degraded' \in Tags \cup {None}
    BY <1>4 DEF BeginRefill
  <2> QED
    BY <1>1, <2>1, <2>2, BeginKeeps
<1> QED
  BY <1>2, <1>3, <1>4

LEMMA SwitchInv ==
  ASSUME IInv, Switch
  PROVE  IInv'
<1>0. GroupsKept /\ JobInv /\ SyncInv /\ job.pc = "switch"
      /\ UNCHANGED <<disk, live, lastTags, degraded>>
  BY DEF IInv, Switch, At
<1>1. core \in Cores /\ Best(job.group) \in Tags \cup {"direct"} /\ job \in Jobs
  BY <1>0, KeptFacts
<1>2. Reselects(core, core')
  BY <1>1, ChosenFacts DEF Switch
<1>3. CoreKept
  BY <1>0, <1>2, CoreKeeps
<1>4. CASE Return(TRUE)
  BY <1>0, <1>3, <1>4, ReturnKeeps DEF GroupsKept
<1>5. CASE Goto("build")
  <2>1. /\ job' \in Jobs /\ job'.pc = "build" /\ job'.group = job.group
        /\ job'.old = job.old /\ job'.synced = job.synced
    BY <1>1, <1>5, GotoFacts DEF Pcs
  <2>2. GroupsKept'
    BY <1>0, <1>3, <2>1 DEF GroupsKept, CoreKept
  <2>3. Synced => Synced'
    BY <1>0, <1>2 DEF Synced, Reselects
  <2>4. SyncInv'
    BY <1>0, <2>1, <2>3 DEF SyncInv, Saving, At
  <2>5. JobInv' /\ DependencyInv'
    BY <2>1 DEF JobInv, DependencyInv, Written, Saving, At
  <2> QED
    BY <2>2, <2>4, <2>5 DEF IInv
<1> QED
  BY <1>4, <1>5 DEF Switch

LEMMA BuildInv ==
  ASSUME IInv, Build
  PROVE  IInv'
<1>0. GroupsKept /\ JobInv /\ SyncInv /\ job.pc = "build"
      /\ UNCHANGED <<live, lastTags, core, degraded>>
  BY DEF IInv, Build, At
<1>1. /\ job \in Jobs /\ job.group \in Groups
      /\ disk \in Groups \cup {None} /\ live \in Groups \cup {None}
  BY <1>0, KeptFacts
<1>2. CASE Return(FALSE) /\ UNCHANGED disk
  BY <1>0, <1>2, ReturnKeeps DEF GroupsKept, CoreKept
<1>3. CASE /\ disk' = job.group
           /\ job' = [job EXCEPT !.old = IF live = None THEN disk ELSE live,
                                 !.pc = IF job.kind = "forced" THEN "restart" ELSE "park"]
  <2> DEFINE old == IF live = None THEN disk ELSE live
             pc == IF job.kind = "forced" THEN "restart" ELSE "park"
             j1 == [job EXCEPT !.old = old]
  <2>1. old \in Groups \cup {None} /\ pc \in {"restart", "park"}
        /\ (live # None => old = live) /\ (pc = "restart" => job.kind # "refill")
    BY <1>1
  <2>2. job' = [j1 EXCEPT !.pc = pc]
    BY <1>3
  <2> HIDE DEF old, pc
  <2>3. /\ j1 \in Jobs /\ j1.old = old /\ j1.group = job.group
        /\ j1.kind = job.kind /\ j1.synced = job.synced
    BY <1>1, <2>1 DEF Jobs
  <2> HIDE DEF j1
  <2>4. /\ job' \in Jobs /\ job'.pc = pc /\ job'.old = old /\ job'.group = job.group
        /\ job'.kind = job.kind /\ job'.synced = job.synced
    BY <2>1, <2>2, <2>3 DEF Jobs
  <2>5. GroupsKept'
    BY <1>0, <1>3, <2>1, <2>4 DEF GroupsKept
  <2>6. JobInv' /\ DependencyInv'
    BY <1>3, <2>1, <2>4 DEF JobInv, DependencyInv, Written, Saving, At
  <2>7. job.synced => core.up /\ live \in Groups /\ Runs(core, live)
    BY <1>0, <1>1 DEF SyncInv, Synced, Runs
  <2>8. job.synced /\ pc = "park" => core'.up /\ old \in Groups /\ Runs(core', old)
    <3>1. CASE job.synced
      <4>1. live # None
        BY <1>0, <3>1 DEF SyncInv, Synced
      <4> QED
        BY <1>0, <2>1, <2>7, <3>1, <4>1
    <3> QED
      BY <3>1
  <2>9. SyncInv'
    BY <2>1, <2>4, <2>8 DEF SyncInv, Saving, At, Runs
  <2> QED
    BY <2>5, <2>6, <2>9 DEF IInv
<1> QED
  BY <1>2, <1>3 DEF Build

LEMMA ReconciledInv ==
  ASSUME IInv, Reconciled
  PROVE  IInv'
<1>0. GroupsKept /\ JobInv /\ SyncInv /\ job.pc = "reconcile" /\ job.plan = <<>>
      /\ UNCHANGED <<disk, live, lastTags, core, degraded>>
  BY DEF IInv, Reconciled, At
<1>1. job \in Jobs /\ job.group \in Groups /\ core \in Cores
  BY <1>0, KeptFacts
<1> DEFINE j1 == [job EXCEPT !.pc = "save_live"]
<1>2. j1 \in Jobs /\ j1.pc = "save_live" /\ j1.group = job.group
      /\ j1.old = job.old /\ j1.synced = job.synced
  BY <1>1 DEF Jobs
<1>3. job' = [j1 EXCEPT !.via = "live"]
  BY DEF Reconciled
<1> HIDE DEF j1
<1>4. /\ job' \in Jobs /\ job'.pc = "save_live" /\ job'.via = "live"
      /\ job'.group = job.group /\ job'.old = job.old /\ job'.synced = job.synced
  BY <1>2, <1>3 DEF Jobs
<1>5. GroupsKept'
  BY <1>0, <1>4 DEF GroupsKept
<1>6. JobInv' /\ DependencyInv'
  BY <1>0, <1>4 DEF JobInv, DependencyInv, Written, Saving, At
<1>7. job.synced => core.up /\ Runs(core, job.group)
  BY <1>0, <1>1, NoRequests, LedTo DEF SyncInv, At
<1>8. SyncInv'
  BY <1>0, <1>4, <1>7 DEF SyncInv, Saving, At
<1> QED
  BY <1>5, <1>6, <1>8 DEF IInv

\* Park goes on to the requests or gives up, and selects at most.
LEMMA ParkFacts ==
  ASSUME GroupsKept, Park
  PROVE  /\ Reselects(core, core')
         /\ \/ /\ FallBack
               /\ \/ ~core.up \/ May("control")
                  \/ \E t \in Members(job.old) : core' \in NotChosen(t)
            \/ /\ core.up
               /\ job' = [job EXCEPT !.pc = "reconcile", !.plan = Plan(job.group, job.old)]
<1> DEFINE go == job' = [job EXCEPT !.pc = "reconcile", !.plan = Plan(job.group, job.old)]
           safe == Members(job.old) \cap Members(job.group)
<1>1. core \in Cores /\ job.group \in Groups
  BY KeptFacts
<1>2. safe \subseteq Tags \cup {"direct"} /\ safe \subseteq Members(job.old)
  BY <1>1, MembersFacts
<1>3. Reselects(core, core)
  BY <1>1 DEF Reselects
<1>4. CASE core.up /\ \E active \in ActiveTags :
              IF Retiring(active) /\ safe # {}
              THEN \E t \in safe : \/ core' \in Chosen(t) /\ go
                                   \/ core' \in NotChosen(t) /\ FallBack
              ELSE go /\ UNCHANGED core
  <2>1. CASE \E t \in safe : \/ core' \in Chosen(t) /\ go
                             \/ core' \in NotChosen(t) /\ FallBack
    <3>1. PICK t \in safe : \/ core' \in Chosen(t) /\ go
                            \/ core' \in NotChosen(t) /\ FallBack
      BY <2>1
    <3>2. t \in Tags \cup {"direct"} /\ t \in Members(job.old)
      BY <1>2
    <3> HIDE DEF safe, go
    <3>3. Reselects(core, core')
      BY <1>1, <3>1, <3>2, ChosenFacts
    <3> QED
      BY <1>4, <3>1, <3>2, <3>3 DEF go
  <2>2. CASE go /\ UNCHANGED core
    BY <1>3, <1>4, <2>2 DEF Reselects
  <2> QED
    BY <1>4, <2>1, <2>2
<1>5. CASE (~core.up \/ May("control")) /\ FallBack /\ UNCHANGED core
  BY <1>3, <1>5 DEF Reselects
<1> QED
  BY <1>4, <1>5 DEF Park

LEMMA ParkInv ==
  ASSUME IInv, Park
  PROVE  IInv'
<1>0. GroupsKept /\ JobInv /\ SyncInv /\ job.pc = "park"
      /\ UNCHANGED <<disk, live, lastTags, degraded>>
  BY DEF IInv, Park, At
<1>1. /\ job \in Jobs /\ job.group \in Groups /\ core \in Cores
      /\ job.old \in Groups \cup {None}
  BY <1>0, KeptFacts
<1>2. Reselects(core, core') /\ CoreKept
  BY <1>0, ParkFacts, CoreKeeps
<1>3. CASE FallBack
  BY <1>0, <1>2, <1>3, FallBackKeeps DEF Written
<1>4. CASE job' = [job EXCEPT !.pc = "reconcile", !.plan = Plan(job.group, job.old)]
  <2> DEFINE plan == Plan(job.group, job.old)
             S == Range(plan)
             j1 == [job EXCEPT !.pc = "reconcile"]
  <2>1. plan \in Seq(Requests) /\ Ordered(plan) /\ Brings(S, job.group)
    BY <1>1, PlanFacts, PlanDoes
  <2>2. job' = [j1 EXCEPT !.plan = plan]
    BY <1>4
  <2>3. Adds(S, "auto") \/ job.group = job.old
    BY <1>1, PlanDoes
  <2>4. job.group = job.old => \A t \in Tags : ~Removes(S, t)
    BY <1>1, PlanDoes
  <2>5. core'.up = core.up /\ core' \in Cores
    BY <1>2 DEF Reselects
  <2>6. job.synced => /\ core.up /\ job.old \in Groups /\ Runs(core', job.old)
    BY <1>0, <1>2 DEF SyncInv, At, Runs, Reselects
  <2>7. job.synced => core'.up /\ Leads(core', S, job.group)
    BY <1>1, <2>5, <2>6, PlanLeads
  <2> HIDE DEF plan
  <2>8. /\ j1 \in Jobs /\ j1.pc = "reconcile" /\ j1.old = job.old
        /\ j1.group = job.group /\ j1.synced = job.synced
    BY <1>1 DEF Jobs
  <2> HIDE DEF j1
  <2>9. /\ job' \in Jobs /\ job'.pc = "reconcile" /\ job'.old = job.old
        /\ job'.group = job.group /\ job'.synced = job.synced /\ job'.plan = plan
    BY <2>1, <2>2, <2>8 DEF Jobs
  <2>10. GroupsKept'
    BY <1>0, <1>2, <2>9 DEF GroupsKept, CoreKept
  <2>11. JobInv'
    BY <1>0, <2>1, <2>9 DEF JobInv, Written, Saving, At
  <2>12. DependencyInv'
    BY <2>3, <2>4, <2>9 DEF DependencyInv, At
  <2>13. SyncInv'
    <3>1. ASSUME job.synced PROVE (core.up /\ Leads(core, Range(job.plan), job.group))'
      BY <2>7, <2>9, <3>1 DEF Leads
    <3> QED
      BY <2>9, <3>1 DEF SyncInv, Saving, At
  <2> QED
    BY <2>10, <2>11, <2>12, <2>13 DEF IInv
<1> QED
  BY <1>0, <1>3, <1>4, ParkFacts

\* A request that took effect is one the core took on.
LEMMA HeadDone ==
  ASSUME GroupsKept, JobInv, At("reconcile"), job.plan # <<>>, NEW d \in Effects(Head(job.plan))
  PROVE  /\ Heads(job.plan, Head(job.plan), Range(Tail(job.plan)), job.group)
         /\ Done(Head(job.plan), core, d)
<1>1. /\ job.plan \in Seq(Requests) /\ core \in Cores /\ job.group \in Groups
      /\ Ordered(job.plan) /\ Brings(Range(job.plan), job.group)
  BY KeptFacts DEF JobInv
<1>2. Heads(job.plan, Head(job.plan), Range(Tail(job.plan)), job.group)
  BY <1>1, HeadsFacts
<1> DEFINE r == Head(job.plan)
<1>3. r \in Requests /\ r \in Range(job.plan)
  BY <1>2 DEF Heads
<1>4. Stage(r) = 4 => r.group \in Groups
  BY <1>1, <1>3, StageFacts DEF Brings
<1>5. Done(r, core, d)
  BY <1>1, <1>3, <1>4, EffectsFacts
<1> QED
  BY <1>2, <1>5

LEMMA RequestInv ==
  ASSUME IInv, Request
  PROVE  IInv'
<1>0. /\ GroupsKept /\ JobInv /\ DependencyInv /\ SyncInv
      /\ job.pc = "reconcile" /\ At("reconcile") /\ job.plan # <<>>
      /\ UNCHANGED <<disk, live, lastTags, degraded>>
  BY DEF IInv, Request, At
<1>1. /\ job \in Jobs /\ job.plan \in Seq(Requests) /\ job.group \in Groups
      /\ core \in Cores /\ Ordered(job.plan) /\ (~core.up => core = Down)
  BY <1>0, KeptFacts DEF JobInv, GroupsKept
<1> DEFINE r == Head(job.plan)
           S == Range(job.plan)
           T == Range(Tail(job.plan))
<1>2. ASSUME core.up, core' \in Effects(r)
      PROVE  Heads(job.plan, r, T, job.group) /\ Done(r, core, core') /\ CoreKept
  <2>1. Heads(job.plan, r, T, job.group) /\ Done(r, core, core')
    BY <1>0, <1>2, HeadDone
  <2> QED
    BY <1>2, <2>1 DEF Done, CoreKept
<1>3. CASE FallBack
  <2>1. core' = core \/ (core.up /\ core' \in Effects(r))
    BY <1>3 DEF Request
  <2>2. CoreKept
    BY <1>1, <1>2, <2>1 DEF CoreKept
  <2> QED
    BY <1>0, <1>3, <2>2, FallBackKeeps DEF Written
<1>4. CASE core.up /\ core' \in Effects(r) /\ job' = [job EXCEPT !.plan = Tail(@)]
  <2>1. Heads(job.plan, r, T, job.group) /\ Done(r, core, core') /\ CoreKept
    BY <1>2, <1>4
  <2>2. Tail(job.plan) \in Seq(Requests) /\ Ordered(Tail(job.plan))
    BY <1>1, <1>0, HeadFacts
  <2>3. /\ job' \in Jobs /\ job'.pc = "reconcile" /\ job'.plan = Tail(job.plan)
        /\ job'.group = job.group /\ job'.old = job.old /\ job'.synced = job.synced
    <3>1. job' = [job EXCEPT !.plan = Tail(job.plan)]
      BY <1>4
    <3> QED
      BY <1>0, <1>1, <2>2, <3>1 DEF Jobs
  <2>4. GroupsKept'
    BY <1>0, <2>1, <2>3 DEF GroupsKept, CoreKept
  <2>5. Brings(T, job.group)
    BY <2>1, RestFacts
  <2>6. JobInv'
    BY <1>0, <2>2, <2>3, <2>5 DEF JobInv, Written, Saving, At
  <2>7. Adds(T, "auto") \/ (\A t \in Tags : ~Removes(T, t)) \/ core'.auto \in {None, job.group}
    <3>1. r \in Requests /\ r \in S /\ Brings(S, job.group) /\ Stage(r) \in 1..6
      BY <2>1, StageFacts DEF Heads
    <3>2. /\ \A t : Adds(S, t) <=> (r.op = "add" /\ r.tag = t) \/ Adds(T, t)
          /\ \A t : Removes(S, t) <=> (r.op = "remove" /\ r.tag = t) \/ Removes(T, t)
      BY <2>1, RestFacts
    <3>3. Adds(S, "auto") \/ (\A t \in Tags : ~Removes(S, t)) \/ core.auto \in {None, job.group}
      BY <1>0 DEF DependencyInv
    <3> HIDE DEF r, S, T
    <3>4. CASE Stage(r) = 3
      BY <2>1, <3>4 DEF Done
    <3>5. CASE Stage(r) = 4
      <4>1. r.group = job.group
        BY <3>1, <3>5, StageFacts DEF Brings
      <4> QED
        BY <2>1, <3>5, <4>1 DEF Done
    <3>6. CASE Stage(r) \notin {3, 4}
      <4>1. core'.auto = core.auto
        BY <2>1, <3>6 DEF Done
      <4>2. ~(r.op = "add" /\ r.tag = "auto")
        BY <3>1, <3>6, StageFacts
      <4> QED
        BY <3>2, <3>3, <4>1, <4>2
    <3> QED
      BY <3>4, <3>5, <3>6
  <2>8. DependencyInv'
    BY <2>3, <2>7 DEF DependencyInv, At
  <2>9. job.synced => core'.up /\ Leads(core', T, job.group)
    <3>1. job.synced => core.up /\ Leads(core, S, job.group)
      BY <1>0 DEF SyncInv
    <3>2. core'.up = core.up
      BY <2>1 DEF Done
    <3> QED
      BY <1>1, <2>1, <3>1, <3>2, LeadsStep
  <2>10. SyncInv'
    <3>1. ASSUME job.synced PROVE (core.up /\ Leads(core, Range(job.plan), job.group))'
      BY <2>3, <2>9, <3>1 DEF Leads
    <3> QED
      BY <2>3, <3>1 DEF SyncInv, Saving, At
  <2> QED
    BY <2>4, <2>6, <2>8, <2>10 DEF IInv
<1> QED
  BY <1>3, <1>4 DEF Request

LEMMA RestartInv ==
  ASSUME IInv, RestartCore
  PROVE  IInv'
<1>0. GroupsKept /\ JobInv /\ job.pc = "restart" /\ disk = job.group
      /\ job.kind # "refill" /\ UNCHANGED <<disk, live, lastTags, degraded>>
  BY DEF IInv, JobInv, RestartCore, Written, At
<1>1. /\ job \in Jobs /\ job.group \in Groups /\ core \in Cores
      /\ (~core.up => core = Down)
  BY <1>0, KeptFacts DEF GroupsKept
<1>2. /\ \A c \in StartedFrom(disk) : c \in Cores /\ c.up /\ Runs(c, job.group)
      /\ Down \in Cores /\ ~Down.up
  BY <1>0, <1>1, StartedFacts, DownFacts
<1>3. core' \in StartedFrom(disk) \cup {Down, core}
  BY DEF RestartCore
<1>4. CoreKept
  BY <1>1, <1>2, <1>3 DEF CoreKept
<1>5. CASE Return(FALSE)
  BY <1>0, <1>4, <1>5, ReturnKeeps DEF GroupsKept
<1>6. CASE /\ core' \in StartedFrom(disk) \cup (IF May("start") THEN {Down} ELSE {})
           /\ job' = [job EXCEPT !.pc = "save_tags", !.via = "restart"]
  <2>1. core'.up => Runs(core', job.group)
    BY <1>2, <1>6
  <2> DEFINE j1 == [job EXCEPT !.pc = "save_tags"]
  <2>2. /\ j1 \in Jobs /\ j1.pc = "save_tags" /\ j1.group = job.group
        /\ j1.old = job.old /\ j1.kind = job.kind
    BY <1>1 DEF Jobs
  <2>3. job' = [j1 EXCEPT !.via = "restart"]
    BY <1>6
  <2> HIDE DEF j1
  <2>4. /\ job' \in Jobs /\ job'.pc = "save_tags" /\ job'.via = "restart"
        /\ job'.group = job.group /\ job'.old = job.old /\ job'.kind = job.kind
    BY <2>2, <2>3 DEF Jobs
  <2>5. GroupsKept'
    BY <1>0, <1>4, <2>4 DEF GroupsKept, CoreKept
  <2>6. JobInv'
    BY <1>0, <2>1, <2>4 DEF JobInv, Written, Saving, At, Runs
  <2>7. DependencyInv' /\ SyncInv'
    BY <2>4 DEF DependencyInv, SyncInv, Saving, At
  <2> QED
    BY <2>5, <2>6, <2>7 DEF IInv
<1> QED
  BY <1>5, <1>6 DEF RestartCore

LEMMA SaveLiveInv ==
  ASSUME IInv, SaveLive
  PROVE  IInv'
<1>0. GroupsKept /\ JobInv /\ SyncInv /\ job.pc = "save_live" /\ live' = job.group
      /\ UNCHANGED <<disk, lastTags, core, degraded>>
  BY DEF IInv, SaveLive, At
<1>1. job \in Jobs /\ job.group \in Groups
  BY <1>0, KeptFacts
<1> DEFINE pc == IF job.via = "live" THEN "save_tags" ELSE "select"
<1>2. pc \in Pcs /\ Goto(pc)
  BY DEF SaveLive, Pcs
<1>3. /\ job' \in Jobs /\ job'.pc = pc /\ job'.kind = job.kind /\ job'.via = job.via
      /\ job'.group = job.group /\ job'.old = job.old /\ job'.synced = job.synced
  BY <1>1, <1>2, GotoFacts
<1>4. GroupsKept'
  BY <1>0, <1>1, <1>3 DEF GroupsKept
<1>5. JobInv'
  BY <1>0, <1>3 DEF JobInv, Written, Saving, At, Runs
<1>6. DependencyInv' /\ SyncInv'
  BY <1>0, <1>3 DEF DependencyInv, SyncInv, Saving, At, Runs
<1> QED
  BY <1>4, <1>5, <1>6 DEF IInv

LEMMA SaveTagsInv ==
  ASSUME IInv, SaveTags
  PROVE  IInv'
<1>0. GroupsKept /\ JobInv /\ SyncInv /\ job.pc = "save_tags" /\ lastTags' = Leaves(job.group)
      /\ UNCHANGED <<disk, live, core, degraded>>
  BY DEF IInv, SaveTags, At
<1>1. job \in Jobs /\ job.group \in Groups /\ Leaves(job.group) \subseteq Tags
  BY <1>0, KeptFacts, GroupFacts
<1>2. CASE Return(TRUE)
  BY <1>0, <1>1, <1>2, ReturnKeeps DEF GroupsKept, CoreKept
<1>3. CASE Goto(IF job.via = "live" THEN "select" ELSE "save_live")
  <2> DEFINE pc == IF job.via = "live" THEN "select" ELSE "save_live"
  <2>1. pc \in Pcs /\ Goto(pc)
    BY <1>3 DEF Pcs
  <2>2. /\ job' \in Jobs /\ job'.pc = pc /\ job'.kind = job.kind /\ job'.via = job.via
        /\ job'.group = job.group /\ job'.old = job.old /\ job'.synced = job.synced
    BY <1>1, <2>1, GotoFacts
  <2>3. GroupsKept'
    BY <1>0, <1>1, <2>2 DEF GroupsKept
  <2>4. JobInv'
    BY <1>0, <2>2 DEF JobInv, Written, Saving, At, Runs, Leaves
  <2>5. DependencyInv' /\ SyncInv'
    BY <1>0, <2>2 DEF DependencyInv, SyncInv, Saving, At, Runs
  <2> QED
    BY <2>3, <2>4, <2>5 DEF IInv
<1> QED
  BY <1>2, <1>3 DEF SaveTags

LEMMA SelectInv ==
  ASSUME IInv, Select
  PROVE  IInv'
<1>0. GroupsKept /\ UNCHANGED <<disk, live, lastTags, degraded>>
      /\ (lastTags' = None \/ lastTags' \in SUBSET Tags)
  BY DEF IInv, GroupsKept, Select
<1>1. core \in Cores /\ Best(job.group) \in Tags \cup {"direct"}
  BY <1>0, KeptFacts
<1>2. Reselects(core, core')
  BY <1>1, ChosenFacts DEF Select
<1>3. CoreKept
  BY <1>0, <1>2, CoreKeeps
<1>4. PICK ok \in BOOLEAN : Return(ok)
  BY DEF Select
<1> QED
  BY <1>0, <1>3, <1>4, ReturnKeeps

\* Only another member selected, and nothing of the job touched.
LEMMA ReselectInv ==
  ASSUME IInv, Reselects(core, core'), UNCHANGED <<disk, live, lastTags, job>>,
         degraded' \in Tags \cup {None}
  PROVE  IInv'
<1>0. GroupsKept /\ JobInv /\ DependencyInv /\ SyncInv
  BY DEF IInv
<1>1. GroupsKept'
  BY <1>0, CoreKeeps DEF GroupsKept, CoreKept
<1>2. JobInv'
  BY <1>0 DEF JobInv, Written, Saving, At, Runs, Reselects
<1>3. DependencyInv'
  BY <1>0 DEF DependencyInv, At, Reselects
<1>4. SyncInv'
  BY <1>0 DEF SyncInv, Saving, At, Runs, Reselects, Leads, Synced
<1> QED
  BY <1>1, <1>2, <1>3, <1>4 DEF IInv

LEMMA FailoverFacts ==
  ASSUME GroupsKept, Failover
  PROVE  /\ core.up /\ Reselects(core, core')
         /\ degraded' \in Tags /\ UNCHANGED <<disk, live, lastTags, job>>
<1>1. PICK old \in Tags, t \in Tags : core' \in Chosen(t) /\ degraded' = old
  BY DEF Failover
<1>2. core \in Cores
  BY KeptFacts
<1> QED
  BY <1>1, <1>2, ChosenFacts DEF Failover

LEMMA BounceInv ==
  ASSUME IInv, CoreBounces
  PROVE  IInv'
<1>0. GroupsKept /\ JobInv /\ SyncInv /\ core' \in StartedFrom(disk) /\ disk \in Groups
      /\ UNCHANGED <<disk, live, lastTags, degraded>>
  BY DEF IInv, CoreBounces, GroupsKept
<1>1. core' \in Cores /\ core'.up /\ Runs(core', disk)
  BY <1>0, StartedFacts
<1>2. job \in Jobs /\ job.group \in Groups
  BY <1>0, KeptFacts
<1>3. CASE At("idle") /\ UNCHANGED job
  <2>1. job.synced = FALSE
    BY <1>0, <1>2, <1>3 DEF SyncInv, Jobs, At
  <2>2. GroupsKept'
    BY <1>0, <1>1, <1>3 DEF GroupsKept
  <2> QED
    BY <1>3, <2>1, <2>2, IdleKeeps DEF At
<1>4. CASE ~At("idle") /\ Disturbed
  <2>1. /\ job' \in Jobs /\ job'.pc = job.pc /\ job'.kind = job.kind /\ job'.via = job.via
        /\ job'.group = job.group /\ job'.old = job.old /\ job'.plan = job.plan
        /\ job'.synced = FALSE
    BY <1>2, <1>4 DEF Jobs, Disturbed
  <2>2. GroupsKept'
    BY <1>0, <1>1, <2>1 DEF GroupsKept
  <2>3. JobInv'
    BY <1>0, <1>1, <2>1 DEF JobInv, Written, Saving, At, Runs
  <2>4. DependencyInv'
    BY <1>0, <1>1, <2>1 DEF DependencyInv, JobInv, Written, At, Runs
  <2>5. SyncInv'
    BY <2>1 DEF SyncInv
  <2> QED
    BY <2>2, <2>3, <2>4, <2>5 DEF IInv
<1> QED
  BY <1>3, <1>4 DEF CoreBounces

LEMMA CrashInv ==
  ASSUME IInv, DaemonCrashes
  PROVE  IInv'
<1>0. GroupsKept /\ job' = Idle /\ degraded' = None /\ UNCHANGED <<disk, live>>
      /\ core' \in {core, Down} /\ lastTags' \in {lastTags, None}
  BY DEF IInv, DaemonCrashes
<1>1. Idle.group \in Groups
  BY IdleFacts DEF Jobs
<1>2. GroupsKept'
  BY <1>0, <1>1, IdleFacts, DownFacts DEF GroupsKept
<1> QED
  BY <1>0, <1>2, IdleFacts, IdleKeeps

-----------------------------------------------------------------------------

LEMMA InitInv == Init => IInv
<1> SUFFICES ASSUME Init PROVE IInv
  OBVIOUS
<1>1. Idle.group \in Groups
  BY IdleFacts DEF Jobs
<1>2. GroupsKept
  BY <1>1, IdleFacts, DownFacts DEF Init, GroupsKept
<1>3. JobInv /\ DependencyInv /\ SyncInv
  BY IdleFacts DEF Init, JobInv, DependencyInv, SyncInv, Written, Saving, At
<1> QED
  BY <1>2, <1>3 DEF IInv

LEMMA NextInv == IInv /\ [Next]_vars => IInv'
<1> SUFFICES ASSUME IInv, [Next]_vars PROVE IInv'
  OBVIOUS
<1>1. CASE BeginApply \/ BeginForced \/ BeginRefill
  BY <1>1, BeginInv
<1>2. CASE Switch
  BY <1>2, SwitchInv
<1>3. CASE Build
  BY <1>3, BuildInv
<1>4. CASE Park
  BY <1>4, ParkInv
<1>5. CASE Request
  BY <1>5, RequestInv
<1>6. CASE Reconciled
  BY <1>6, ReconciledInv
<1>7. CASE RestartCore
  BY <1>7, RestartInv
<1>8. CASE SaveLive
  BY <1>8, SaveLiveInv
<1>9. CASE SaveTags
  BY <1>9, SaveTagsInv
<1>10. CASE Select
  BY <1>10, SelectInv
<1>11. CASE Failover
  <2>1. GroupsKept
    BY DEF IInv
  <2> QED
    BY <1>11, <2>1, FailoverFacts, ReselectInv
<1>12. CASE CoreBounces
  BY <1>12, BounceInv
<1>13. CASE DaemonCrashes
  BY <1>13, CrashInv
<1>14. CASE UNCHANGED vars
  BY <1>14 DEF vars, IInv, GroupsKept, JobInv, DependencyInv, SyncInv, Written, Saving, At,
               Synced
<1> QED
  BY <1>1, <1>2, <1>3, <1>4, <1>5, <1>6, <1>7, <1>8, <1>9, <1>10, <1>11, <1>12, <1>13,
     <1>14 DEF Next

\* The inductive invariant behind every theorem of this module: what a job has
\* done so far, the order of what is left of its plan, and the agreement it
\* began in, hold in every reachable state.
THEOREM Inductive == Spec => []IInv
<1>1. IInv /\ [Next]_vars => IInv'
  BY NextInv
<1> QED
  BY InitInv, <1>1, PTL DEF Spec

\* Every config kept anywhere has at most standby_count servers, no server
\* twice, and the job, the core and the files are of their types.
THEOREM TypeCorrect == Spec => []TypeOK
<1>1. IInv => TypeOK
  <2> SUFFICES ASSUME IInv PROVE TypeOK
    OBVIOUS
  <2>1. GroupsKept
    BY DEF IInv
  <2>2. \A g \in Groups : Len(g) <= GroupSize
    BY GroupFacts
  <2> QED
    BY <2>1, <2>2 DEF TypeOK, GroupsKept
<1> QED
  BY Inductive, <1>1, PTL

\* No reconcile, whatever failed, bounced or was switched before it, removes a
\* leaf that a group of the core still lists.
THEOREM RemovalsOrdered == Spec => []RemovesNoDependency
<1>1. IInv => RemovesNoDependency
  <2> DEFINE r == Head(job.plan)
             S == Range(job.plan)
             T == Range(Tail(job.plan))
  <2> SUFFICES ASSUME IInv, At("reconcile"), job.plan # <<>>, core.auto # None,
                      r.op = "remove", r.tag \in Tags
               PROVE  r.tag \notin Members(core.auto)
    BY DEF RemovesNoDependency
  <2>1. /\ job.plan \in Seq(Requests) /\ job.group \in Groups /\ Ordered(job.plan)
        /\ Brings(S, job.group)
        /\ Adds(S, "auto") \/ (\A t \in Tags : ~Removes(S, t)) \/ core.auto \in {None, job.group}
    BY KeptFacts DEF IInv, JobInv, DependencyInv
  <2>2. Heads(job.plan, r, T, job.group)
    BY <2>1, HeadsFacts
  <2>3. r \in Requests /\ r \in S
    BY <2>2 DEF Heads
  <2>4. Stage(r) = 6 /\ r.tag \notin Leaves(job.group)
    BY <2>1, <2>3, StageFacts DEF Brings
  <2>5. ~Adds(S, "auto")
    BY <2>2, <2>4, RestFacts
  <2>6. Removes(S, r.tag)
    BY <2>3 DEF Removes
  <2>7. core.auto = job.group
    BY <2>1, <2>5, <2>6
  <2> QED
    BY <2>1, <2>4, <2>7, MembersFacts
<1> QED
  BY Inductive, <1>1, PTL

\* A job that returns after its last save leaves everything in agreement.
LEMMA LastStep ==
  ASSUME IInv, core.up, job.via = "restart" \/ job.synced,
         (SaveTags /\ job.kind = "refill") \/ Select
  PROVE  Synced'
<1>0. GroupsKept /\ JobInv /\ SyncInv /\ Saving /\ Written /\ disk = job.group
  BY DEF IInv, JobInv, SaveTags, Select, At, Saving, Written
<1>1. job.group \in Groups /\ core \in Cores /\ job.group # None
      /\ Best(job.group) \in Tags \cup {"direct"}
  BY <1>0, KeptFacts, GroupFacts
<1>2. job.via = "live" \/ (job.via = "restart" /\ job.kind # "refill")
  BY <1>0 DEF JobInv
<1>3. Runs(core, job.group)
  BY <1>0, <1>2 DEF JobInv, SyncInv
<1>4. CASE SaveTags /\ job.kind = "refill"
  <2>1. job.via = "live" /\ job.pc = "save_tags" /\ lastTags' = Leaves(job.group)
        /\ UNCHANGED <<disk, live, core>>
    BY <1>2, <1>4 DEF SaveTags, At
  <2>2. live = job.group
    BY <1>0, <2>1 DEF JobInv
  <2> QED
    BY <1>0, <1>1, <1>3, <2>1, <2>2 DEF Synced, Runs
<1>5. CASE Select
  <2>1. job.pc = "select" /\ At("select") /\ UNCHANGED <<disk, live, lastTags>>
    BY <1>5 DEF Select, At
  <2>2. Reselects(core, core')
    BY <1>1, <1>5, ChosenFacts DEF Select
  <2>3. live = job.group /\ lastTags = Leaves(job.group)
    BY <1>0, <1>2, <2>1 DEF JobInv
  <2> QED
    BY <1>0, <1>1, <1>3, <2>1, <2>2, <2>3 DEF Synced, Runs, Reselects
<1> QED
  BY <1>4, <1>5

\* A job that begins in agreement and reports success, by whichever path,
\* ends in agreement.
THEOREM SuccessAgrees == Spec => SuccessKeepsSync
<1>1. IInv /\ [Next]_vars =>
        (job.synced /\ ~At("idle") /\ job'.pc = "idle" /\ job'.via = "ok" => Synced')
  <2> SUFFICES ASSUME IInv, [Next]_vars, job.synced, ~At("idle"), job'.pc = "idle",
                      job'.via = "ok"
               PROVE  Synced'
    OBVIOUS
  <2>0. GroupsKept /\ JobInv /\ SyncInv /\ job \in Jobs /\ job.pc # "idle" /\ core \in Cores
        /\ Best(job.group) \in Tags \cup {"direct"}
    BY KeptFacts DEF IInv, At
  <2>1. ~Return(FALSE)
    BY <2>0, ReturnFacts
  <2>2. \A pc \in Pcs : Goto(pc) => pc = "idle"
    BY <2>0, GotoFacts
  <2>3. ~FallBack
    BY <2>1, <2>2 DEF FallBack, Pcs
  <2>4. CASE BeginApply \/ BeginForced \/ BeginRefill
    BY <2>0, <2>4 DEF BeginApply, BeginForced, BeginRefill, Begin, At
  <2>5. CASE Switch
    <3>1. job.pc = "switch" /\ UNCHANGED <<disk, live, lastTags>>
      BY <2>5 DEF Switch, At
    <3>2. Reselects(core, core')
      BY <2>0, <2>5, ChosenFacts DEF Switch
    <3> QED
      BY <2>0, <3>1, <3>2 DEF SyncInv, Synced, Reselects
  <2>6. CASE Build
    <3>1. job' = [job EXCEPT !.old = IF live = None THEN disk ELSE live,
                             !.pc = IF job.kind = "forced" THEN "restart" ELSE "park"]
      BY <2>1, <2>6 DEF Build
    <3> QED
      BY <2>0, <3>1 DEF Jobs
  <2>7. CASE Park
    BY <2>0, <2>3, <2>7, ParkFacts DEF Jobs
  <2>8. CASE Request
    BY <2>0, <2>3, <2>8 DEF Request, Jobs
  <2>9. CASE Reconciled
    BY <2>0, <2>9 DEF Reconciled, Jobs
  <2>10. CASE RestartCore
    BY <2>0, <2>1, <2>10 DEF RestartCore, Jobs
  <2>11. CASE SaveLive
    <3>1. \E pc \in {"save_tags", "select"} : Goto(pc)
      BY <2>11 DEF SaveLive
    <3> QED
      BY <2>2, <3>1 DEF Pcs
  <2>12. CASE SaveTags
    <3>1. job.kind = "refill" \/ \E pc \in {"select", "save_live"} : Goto(pc)
      BY <2>12 DEF SaveTags
    <3>2. job.kind = "refill" /\ job.pc = "save_tags"
      BY <2>2, <2>12, <3>1 DEF Pcs, SaveTags, At
    <3>3. core.up
      BY <2>0, <3>2 DEF SyncInv, JobInv, Saving
    <3> QED
      BY <2>12, <3>2, <3>3, LastStep
  <2>13. CASE Select
    <3>1. job.via = "live" \/ core.up
      BY <2>1, <2>13 DEF Select
    <3>2. core.up
      BY <2>0, <2>13, <3>1 DEF SyncInv, Select, Saving, At
    <3> QED
      BY <2>13, <3>2, LastStep
  <2>14. CASE Failover
    BY <2>0, <2>14 DEF Failover
  <2>15. CASE CoreBounces
    BY <2>0, <2>15 DEF CoreBounces, Disturbed, At, Jobs
  <2>16. CASE DaemonCrashes
    BY <2>16, IdleFacts, NamesAssumption DEF DaemonCrashes
  <2>17. CASE UNCHANGED vars
    BY <2>0, <2>17 DEF vars
  <2> QED
    BY <2>4, <2>5, <2>6, <2>7, <2>8, <2>9, <2>10, <2>11, <2>12, <2>13, <2>14, <2>15,
       <2>16, <2>17 DEF Next
<1> QED
  BY Inductive, <1>1, PTL DEF Spec, SuccessKeepsSync

-----------------------------------------------------------------------------
(* While the core, the daemon and the two APIs answer.                      *)

LEMMA CalmFacts ==
  ASSUME Calm
  PROVE  /\ ~May("clash") /\ ~May("control") /\ ~May("start")
         /\ ~May("bounce") /\ ~May("crash")
BY DEF Calm, May

LEMMA CalmBegin ==
  ASSUME IInv, CalmInv, BeginApply \/ BeginForced \/ BeginRefill
  PROVE  CalmInv'
<1>0. At("idle") /\ job \in Jobs /\ (NotYet \/ Synced)
  BY KeptFacts DEF BeginApply, BeginForced, BeginRefill, Begin, IInv, CalmInv
<1>1. PICK kind \in {"apply", "forced", "refill"}, group \in Groups, pc \in {"switch", "build"} :
        /\ Begin(kind, group, pc)
        /\ kind = "refill" => degraded # None
        /\ kind # "refill" => UNCHANGED degraded
  <2>0. \A ranking \in Rankings : FirstOf(ranking) \in Groups
    BY DEF Groups
  <2>1. CASE BeginApply
    <3>1. PICK ranking \in Rankings :
            Begin("apply", FirstOf(ranking),
                  IF lastTags = Leaves(FirstOf(ranking)) THEN "switch" ELSE "build")
      BY <2>1 DEF BeginApply
    <3> DEFINE group == FirstOf(ranking)
               pc == IF lastTags = Leaves(group) THEN "switch" ELSE "build"
    <3>2. group \in Groups /\ pc \in {"switch", "build"} /\ Begin("apply", group, pc)
      BY <2>0, <3>1
    <3> HIDE DEF group, pc
    <3> QED
      BY <2>1, <3>2 DEF BeginApply
  <2>2. CASE BeginForced
    BY <2>0, <2>2 DEF BeginForced
  <2>3. CASE BeginRefill
    BY <2>0, <2>3 DEF BeginRefill
  <2> QED
    BY <2>1, <2>2, <2>3
<1> DEFINE synced == Synced
           j1 == [Idle EXCEPT !.pc = pc]
           j2 == [j1 EXCEPT !.kind = kind]
           j3 == [j2 EXCEPT !.group = group]
<1>2. synced \in BOOLEAN /\ (synced <=> Synced)
  BY DEF Synced
<1>3. job' = [j3 EXCEPT !.synced = synced] /\ UNCHANGED <<disk, live, lastTags, core>>
  BY <1>1 DEF Begin
<1> HIDE DEF synced
<1>4. j1 \in Jobs /\ j1.pc = pc
  BY IdleFacts DEF Jobs
<1> HIDE DEF j1
<1>5. j2 \in Jobs /\ j2.pc = pc /\ j2.kind = kind
  BY <1>4 DEF Jobs
<1> HIDE DEF j2
<1>6. j3 \in Jobs /\ j3.pc = pc /\ j3.kind = kind
  BY <1>5 DEF Jobs
<1> HIDE DEF j3
<1>7. job'.pc = pc /\ job'.kind = kind /\ job'.synced = synced
  BY <1>2, <1>3, <1>6 DEF Jobs
<1>8. ~Synced => NotYet'
  BY <1>0, <1>1, <1>2, <1>3, <1>7 DEF NotYet
<1> QED
  BY <1>2, <1>7, <1>8 DEF CalmInv, Saving, At

LEMMA CalmSwitch ==
  ASSUME IInv, CalmInv, Switch
  PROVE  CalmInv'
<1>0. /\ job.pc = "switch" /\ job \in Jobs /\ core \in Cores
      /\ Best(job.group) \in Tags \cup {"direct"} /\ (NotYet \/ (job.synced /\ Synced))
      /\ UNCHANGED <<disk, live, lastTags, degraded>>
  BY KeptFacts DEF IInv, SyncInv, CalmInv, Switch, At
<1>1. Reselects(core, core') /\ (core' \in Chosen(Best(job.group)) => core.up)
  BY <1>0, ChosenFacts DEF Switch
<1>2. Synced => Synced'
  BY <1>0, <1>1 DEF Synced, Reselects
<1>3. CASE core' \in Chosen(Best(job.group)) /\ Return(TRUE)
  <2>1. job'.pc = "idle" /\ Synced
    BY <1>0, <1>1, <1>3, ReturnFacts DEF NotYet
  <2> QED
    BY <1>2, <2>1 DEF CalmInv, Saving, At
<1>4. CASE Goto("build")
  <2>1. job'.pc = "build" /\ job'.kind = job.kind /\ job'.synced = job.synced
    BY <1>0, <1>4, GotoFacts DEF Pcs
  <2>2. NotYet => NotYet'
    BY <1>0, <1>1, <2>1 DEF NotYet, Reselects
  <2> QED
    BY <1>0, <2>1, <2>2 DEF CalmInv, Saving, At
<1> QED
  BY <1>3, <1>4 DEF Switch

LEMMA CalmBuild ==
  ASSUME IInv, CalmInv, Build
  PROVE  CalmInv'
<1>0. /\ job.pc = "build" /\ job \in Jobs /\ (NotYet \/ (job.synced /\ Synced))
      /\ UNCHANGED <<live, lastTags, core, degraded>>
      /\ live \in Groups \cup {None}
  BY KeptFacts DEF IInv, SyncInv, CalmInv, Build, At
<1>1. CASE Return(FALSE) /\ UNCHANGED disk
  <2>1. job'.pc = "idle" /\ job'.kind = job.kind /\ job'.synced = FALSE
    BY <1>0, <1>1, ReturnFacts
  <2>2. (NotYet => NotYet') /\ (Synced => Synced')
    BY <1>0, <1>1, <2>1 DEF NotYet, Synced
  <2> QED
    BY <1>0, <2>1, <2>2 DEF CalmInv, Saving, At
<1>2. CASE job' = [job EXCEPT !.old = IF live = None THEN disk ELSE live,
                              !.pc = IF job.kind = "forced" THEN "restart" ELSE "park"]
  <2> DEFINE old == IF live = None THEN disk ELSE live
             pc == IF job.kind = "forced" THEN "restart" ELSE "park"
  <2>1. pc \in {"restart", "park"} /\ (pc = "restart" => job.kind = "forced")
    OBVIOUS
  <2>2. job' = [job EXCEPT !.old = old, !.pc = pc]
    BY <1>2
  <2> HIDE DEF old, pc
  <2>3. job'.pc = pc /\ job'.kind = job.kind /\ job'.synced = job.synced
    BY <1>0, <2>2 DEF Jobs
  <2>4. NotYet => NotYet'
    BY <1>0, <2>3 DEF NotYet
  <2>5. Synced => core.up /\ core.auto # None /\ core.select
    BY DEF Synced
  <2> QED
    BY <1>0, <2>1, <2>3, <2>4, <2>5 DEF CalmInv, Saving, At
<1> QED
  BY <1>1, <1>2 DEF Build

LEMMA CalmPark ==
  ASSUME Calm, IInv, CalmInv, Park
  PROVE  CalmInv'
<1>0. /\ GroupsKept /\ job.pc = "park" /\ job \in Jobs /\ job.group \in Groups /\ core \in Cores
      /\ UNCHANGED <<disk, live, lastTags, degraded>>
      /\ NotYet \/ (job.synced /\ core.up /\ job.old \in Groups /\ Runs(core, job.old))
  BY KeptFacts DEF IInv, SyncInv, CalmInv, Park, At
<1>1. Reselects(core, core')
  BY <1>0, ParkFacts
<1>2. CASE NotYet
  <2>1. FallBack /\ job.kind # "refill" /\ core' = core
    BY <1>0, <1>1, <1>2, ParkFacts DEF NotYet, Reselects
  <2>2. Goto("restart")
    BY <2>1 DEF FallBack
  <2>3. job'.pc = "restart" /\ job'.kind = job.kind /\ job'.synced = job.synced
    BY <1>0, <2>2, GotoFacts DEF Pcs
  <2>4. NotYet'
    BY <1>0, <1>2, <2>1, <2>3 DEF NotYet
  <2> QED
    BY <2>3, <2>4 DEF CalmInv, Saving, At
<1>3. CASE job.synced /\ core.up /\ job.old \in Groups /\ Runs(core, job.old)
  <2>1. job.old # None /\ core.auto = job.old
    BY <1>3, GroupFacts DEF Runs
  <2>2. \A t \in Members(job.old) : NotChosen(t) = {}
    BY <1>3, <2>1, CalmFacts DEF NotChosen, Selectable
  <2>3. job' = [job EXCEPT !.pc = "reconcile", !.plan = Plan(job.group, job.old)]
    BY <1>0, <1>3, <2>2, CalmFacts, ParkFacts
  <2> DEFINE plan == Plan(job.group, job.old)
  <2>4. core' \in Cores /\ Runs(core', job.old)
    BY <1>1, <1>3 DEF Runs, Reselects
  <2>5. Removable(core', Range(plan))
    BY <1>0, <1>3, <2>4, PlanLeads
  <2> HIDE DEF plan
  <2>6. job'.pc = "reconcile" /\ job'.plan = plan /\ job'.synced = job.synced
    BY <1>0, <2>3 DEF Jobs, plan
  <2>7. (job.synced /\ Removable(core, Range(job.plan)))'
    BY <1>3, <2>5, <2>6 DEF Removable
  <2> QED
    BY <2>6, <2>7 DEF CalmInv, Saving, At
<1> QED
  BY <1>0, <1>2, <1>3

LEMMA CalmRequest ==
  ASSUME Calm, IInv, CalmInv, Request
  PROVE  CalmInv'
<1> DEFINE r == Head(job.plan)
           T == Range(Tail(job.plan))
<1>0. /\ GroupsKept /\ JobInv /\ job.pc = "reconcile" /\ At("reconcile") /\ job.plan # <<>>
      /\ job \in Jobs /\ job.group \in Groups
      /\ core.up /\ job.synced /\ Leads(core, Range(job.plan), job.group)
      /\ Removable(core, Range(job.plan))
  BY KeptFacts DEF IInv, SyncInv, CalmInv, Request, At
<1>1. /\ job.plan \in Seq(Requests) /\ Ordered(job.plan) /\ Brings(Range(job.plan), job.group)
  BY <1>0, KeptFacts DEF JobInv
<1>2. Heads(job.plan, r, T, job.group)
  BY <1>0, <1>1, HeadsFacts
<1>3. r \in Requests
  BY <1>2 DEF Heads
<1>4. Effects(r) # {}
  BY <1>0, <1>2, <1>3, HeadAccepted, AcceptedFacts
<1>5. core' \in Effects(r) /\ job' = [job EXCEPT !.plan = Tail(@)]
  BY <1>0, <1>4, CalmFacts DEF Request
<1>6. Done(r, core, core')
  BY <1>0, <1>5, HeadDone
<1>7. Removable(core', T)
  BY <1>0, <1>2, <1>6, RemovableStep
<1>8. job'.pc = "reconcile" /\ job'.plan = Tail(job.plan) /\ job'.synced = job.synced
  BY <1>0, <1>5 DEF Jobs
<1>9. (job.synced /\ Removable(core, Range(job.plan)))'
  BY <1>0, <1>7, <1>8 DEF Removable
<1> QED
  BY <1>8, <1>9 DEF CalmInv, Saving, At

LEMMA CalmSaves ==
  ASSUME Calm, IInv, CalmInv, Reconciled \/ RestartCore \/ SaveLive \/ SaveTags \/ Select
  PROVE  CalmInv'
<1>0. /\ GroupsKept /\ JobInv /\ SyncInv /\ job \in Jobs /\ core \in Cores
      /\ job.group \in Groups /\ Best(job.group) \in Tags \cup {"direct"}
  BY KeptFacts DEF IInv
<1>1. CASE Reconciled
  <2>1. job.pc = "reconcile" /\ UNCHANGED core
        /\ job' = [job EXCEPT !.pc = "save_live", !.via = "live"]
    BY <1>1 DEF Reconciled, At
  <2>2. core.up /\ job.synced
    BY <1>0, <2>1 DEF SyncInv, CalmInv, At
  <2>3. job'.pc = "save_live" /\ job'.synced = job.synced
    BY <1>0, <2>1 DEF Jobs
  <2> QED
    BY <2>1, <2>2, <2>3 DEF CalmInv, Saving, At
<1>2. CASE RestartCore
  <2>1. core' \in StartedFrom(disk)
        /\ job' = [job EXCEPT !.pc = "save_tags", !.via = "restart"]
    BY <1>2, CalmFacts DEF RestartCore
  <2>2. disk \in Groups
    BY <1>0, <1>2 DEF JobInv, Written, RestartCore, At
  <2>3. core'.up
    BY <2>1, <2>2, StartedFacts
  <2>4. job'.pc = "save_tags" /\ job'.via = "restart"
    BY <1>0, <2>1 DEF Jobs
  <2> QED
    BY <2>3, <2>4 DEF CalmInv, Saving, At
<1>3. ASSUME Saving PROVE core.up /\ (job.via = "restart" \/ job.synced)
  BY <1>3 DEF CalmInv
<1>4. ASSUME Saving, NEW pc \in {"save_live", "save_tags", "select"}, Goto(pc), UNCHANGED core
      PROVE  CalmInv'
  <2>1. job'.pc = pc /\ job'.via = job.via /\ job'.synced = job.synced
    BY <1>0, <1>4, GotoFacts DEF Pcs
  <2> QED
    BY <1>3, <1>4, <2>1 DEF CalmInv, Saving, At
<1>5. CASE SaveLive
  <2>1. Saving /\ UNCHANGED core /\ \E pc \in {"save_tags", "select"} : Goto(pc)
    BY <1>5 DEF SaveLive, Saving, At
  <2> QED
    BY <1>4, <2>1
<1>6. CASE SaveTags
  <2>1. Saving /\ UNCHANGED core
    BY <1>6 DEF SaveTags, Saving, At
  <2>2. CASE job.kind = "refill"
    <3>1. Synced' /\ Return(TRUE)
      BY <1>3, <1>6, <2>1, <2>2, LastStep DEF SaveTags
    <3>2. job'.pc = "idle"
      BY <1>0, <3>1, ReturnFacts
    <3> QED
      BY <3>1, <3>2 DEF CalmInv, Saving, At
  <2>3. CASE job.kind # "refill"
    <3>1. \E pc \in {"save_live", "select"} : Goto(pc)
      BY <1>6, <2>3 DEF SaveTags
    <3> QED
      BY <1>4, <2>1, <3>1
  <2> QED
    BY <2>2, <2>3
<1>7. CASE Select
  <2>1. Saving
    BY <1>7 DEF Select, Saving, At
  <2>2. Synced'
    BY <1>3, <1>7, <2>1, LastStep
  <2>3. PICK ok \in BOOLEAN : Return(ok)
    BY <1>7 DEF Select
  <2>4. job'.pc = "idle"
    BY <1>0, <2>3, ReturnFacts
  <2> QED
    BY <2>2, <2>4 DEF CalmInv, Saving, At
<1> QED
  BY <1>1, <1>2, <1>5, <1>6, <1>7

LEMMA CalmFailover ==
  ASSUME IInv, CalmInv, Failover
  PROVE  CalmInv'
<1>0. core.up /\ Reselects(core, core') /\ UNCHANGED <<disk, live, lastTags, job>>
  BY FailoverFacts DEF IInv
<1>1. ~NotYet
  BY <1>0 DEF NotYet
<1>2. Synced => Synced'
  BY <1>0 DEF Synced, Reselects
<1>3. Removable(core, Range(job.plan)) => (Removable(core, Range(job.plan)))'
  BY <1>0 DEF Removable, Reselects
<1> QED
  BY <1>0, <1>1, <1>2, <1>3 DEF CalmInv, Saving, At, Reselects

LEMMA CalmNext == Calm /\ IInv /\ CalmInv /\ [Next]_vars => CalmInv'
<1> SUFFICES ASSUME Calm, IInv, CalmInv, [Next]_vars PROVE CalmInv'
  OBVIOUS
<1>1. CASE BeginApply \/ BeginForced \/ BeginRefill
  BY <1>1, CalmBegin
<1>2. CASE Switch
  BY <1>2, CalmSwitch
<1>3. CASE Build
  BY <1>3, CalmBuild
<1>4. CASE Park
  BY <1>4, CalmPark
<1>5. CASE Request
  BY <1>5, CalmRequest
<1>6. CASE Reconciled \/ RestartCore \/ SaveLive \/ SaveTags \/ Select
  BY <1>6, CalmSaves
<1>7. CASE Failover
  BY <1>7, CalmFailover
<1>8. CASE CoreBounces \/ DaemonCrashes
  BY <1>8, CalmFacts DEF CoreBounces, DaemonCrashes
<1>9. CASE UNCHANGED vars
  BY <1>9 DEF vars, CalmInv, NotYet, Synced, Saving, At, Removable
<1> QED
  BY <1>1, <1>2, <1>3, <1>4, <1>5, <1>6, <1>7, <1>8, <1>9 DEF Next

\* While nothing fails every job but a core's first begins in agreement, and no
\* request of a reconcile is refused.
THEOREM CalmInductive == Calm => (Spec => []CalmInv)
<1> SUFFICES ASSUME Calm PROVE Spec => []CalmInv
  OBVIOUS
<1>1. Init => CalmInv
  BY IdleFacts, DownFacts, NamesAssumption DEF Init, CalmInv, NotYet, Saving, At
<1>2. IInv /\ CalmInv /\ [Next]_vars => CalmInv'
  BY CalmNext
<1> QED
  BY Inductive, <1>1, <1>2, PTL DEF Spec

\* An unforced apply that begins in agreement never restarts the core, while
\* the core and its two APIs answer; only sing-box check may fail, and
\* LiveMonitor switch and refill as it likes.
THEOREM ChurnIsLive == Calm => (Spec => []ChurnRestartsNothing)
<1> SUFFICES ASSUME Calm PROVE Spec => []ChurnRestartsNothing
  OBVIOUS
<1>1. CalmInv => ChurnRestartsNothing
  BY DEF CalmInv, NotYet, ChurnRestartsNothing
<1>2. Spec => []CalmInv
  BY CalmInductive
<1> QED
  BY <1>1, <1>2, PTL

\* Under the same condition a running core has its selector pair whenever no
\* reconcile is replacing it.
THEOREM StandbyKept == Calm => (Spec => []StandbyStaysSelectable)
<1> SUFFICES ASSUME Calm PROVE Spec => []StandbyStaysSelectable
  OBVIOUS
<1>1. IInv /\ CalmInv => StandbyStaysSelectable
  <2> SUFFICES ASSUME IInv, CalmInv, core.up, ~At("reconcile")
               PROVE  core.auto # None /\ core.select
    BY DEF StandbyStaysSelectable
  <2>1. /\ GroupsKept /\ JobInv /\ SyncInv /\ job.pc \in Pcs /\ job.group \in Groups
        /\ job.group # None /\ ~NotYet
    BY KeptFacts, GroupFacts DEF IInv, NotYet
  <2>2. Synced => core.auto # None /\ core.select
    BY DEF Synced
  <2>3. job.old \in Groups => job.old # None
    BY GroupFacts
  <2>4. Saving => Runs(core, job.group)
    BY <2>1 DEF CalmInv, JobInv, SyncInv
  <2> QED
    BY <2>1, <2>2, <2>3, <2>4 DEF CalmInv, SyncInv, Saving, At, Pcs, Runs
<1>2. Spec => []CalmInv
  BY CalmInductive
<1> QED
  BY <1>1, <1>2, Inductive, PTL
==============================================================================
