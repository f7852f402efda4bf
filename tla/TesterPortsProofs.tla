-------------------------- MODULE TesterPortsProofs --------------------------
(***************************************************************************)
(* Bisection keeps exactly the configs that sing-box accepts, every chunk  *)
(* is published in full, and a round that tests alone measures each config *)
(* through itself, proved for every list of candidates, every chunk size   *)
(* and every set of malformed configs.                                     *)
(***************************************************************************)
EXTENDS TesterPorts, Integers, FiniteSetTheorems, SequenceTheorems, TLAPS

-----------------------------------------------------------------------------
(* The invariant.                                                           *)

\* Batches that share no config, none of them empty.
Cut(bs) ==
  /\ \A i \in DOMAIN bs : bs[i] # <<>> /\ IsInjective(bs[i])
  /\ \A i, k \in DOMAIN bs : i # k => Range(bs[i]) \cap Range(bs[k]) = {}

Held(bs) == UNION {Range(bs[i]) : i \in DOMAIN bs}

Shapes ==
  /\ malformed \subseteq Configs
  /\ at \in [Rounds -> {"idle", "chunk", "bisect", "wait", "measure", "publish"}]
  /\ todo \in [Rounds -> Seq(Configs)]
  /\ batches \in [Rounds -> Seq(Seq(Configs))]
  /\ items \in [Rounds -> Seq(Configs)]
  /\ proc \in [Rounds -> {"none", "starting", "up", "exited"}]
  /\ DOMAIN results = Rounds
  /\ \A r \in Rounds :
       /\ IsInjective(todo[r])
       /\ Len(items[r]) <= ChunkSize
       /\ DOMAIN results[r] \subseteq Configs
       /\ \A c \in DOMAIN results[r] :
            results[r][c] \in [answered : BOOLEAN, via : Configs \cup {None, "refused"}]

\* Half-way: what was kept and what is still to check make up the chunk, and
\* no config is in both.
Bisecting(r) ==
  /\ Cut(batches[r]) /\ IsInjective(items[r])
  /\ Range(items[r]) \cap Held(batches[r]) = {}
  /\ Held(batches[r]) \subseteq Range(Chunk(r))
  /\ Range(items[r]) \subseteq Range(Chunk(r)) \ malformed
  /\ Range(Chunk(r)) \ malformed \subseteq Range(items[r]) \cup Held(batches[r])

Kept(r) == Range(items[r]) = Range(Chunk(r)) \ malformed /\ IsInjective(items[r])

RoundInv(r) ==
  /\ at[r] = "bisect" => Bisecting(r)
  /\ at[r] \in {"wait", "measure"} => Kept(r)
  /\ at[r] \notin {"wait", "measure"} => proc[r] = "none"
  /\ at[r] \in {"bisect", "wait", "measure", "publish"} =>
       DOMAIN results[r] = Range(Chunk(r))

IInv == Shapes /\ \A r \in Rounds : RoundInv(r)

-----------------------------------------------------------------------------
(* Sequences.                                                               *)

LEMMA InRange ==
  ASSUME NEW s, NEW x
  PROVE  x \in Range(s) <=> \E i \in DOMAIN s : s[i] = x
BY DEF Range

LEMMA InHeld ==
  ASSUME NEW bs, NEW x
  PROVE  x \in Held(bs) <=> \E i \in DOMAIN bs : x \in Range(bs[i])
BY DEF Held

\* A part of a list: its first, its last, and what is in between.
LEMMA SliceFacts ==
  ASSUME NEW s \in Seq(Configs), IsInjective(s), NEW m \in 1..(Len(s) + 1), NEW n \in 0..Len(s)
  PROVE  LET t == SubSeq(s, m, n)
         IN /\ t \in Seq(Configs) /\ IsInjective(t)
            /\ Len(t) = IF m <= n THEN n - m + 1 ELSE 0
            /\ \A x : x \in Range(t) <=> \E i \in m..n : s[i] = x
<1> DEFINE t == SubSeq(s, m, n)
<1>1. \A i \in m..n : i \in DOMAIN s /\ s[i] \in Configs
  OBVIOUS
<1>2. /\ t \in Seq(Configs) /\ Len(t) = IF m <= n THEN n - m + 1 ELSE 0
      /\ \A i \in 1 .. n - m + 1 : t[i] = s[m + i - 1]
  BY <1>1, SubSeqProperties
<1> HIDE DEF t
<1>3. DOMAIN t = 1..(n - m + 1)
  BY <1>2
<1>4. IsInjective(t)
  <2> SUFFICES ASSUME NEW i \in DOMAIN t, NEW k \in DOMAIN t, t[i] = t[k] PROVE i = k
    BY DEF IsInjective
  <2>1. m + i - 1 \in DOMAIN s /\ m + k - 1 \in DOMAIN s
        /\ s[m + i - 1] = s[m + k - 1]
    BY <1>1, <1>2, <1>3
  <2>2. m + i - 1 = m + k - 1
    BY <2>1 DEF IsInjective
  <2> QED
    BY <1>3, <2>2
<1>5. \A x : x \in Range(t) <=> \E i \in m..n : s[i] = x
  <2>1. ASSUME NEW i \in DOMAIN t PROVE \E k \in m..n : s[k] = t[i]
    <3>1. m + i - 1 \in m..n /\ s[m + i - 1] = t[i]
      BY <1>2, <1>3
    <3> QED
      BY <3>1
  <2>2. ASSUME NEW k \in m..n PROVE \E i \in DOMAIN t : t[i] = s[k]
    <3>1. k - m + 1 \in DOMAIN t /\ m + (k - m + 1) - 1 = k
      BY <1>3
    <3>2. t[k - m + 1] = s[k]
      BY <1>2, <1>3, <3>1
    <3> QED
      BY <3>1, <3>2
  <2> QED
    BY <2>1, <2>2, InRange
<1> QED
  BY <1>2, <1>4, <1>5 DEF t

LEMMA ChunkFacts ==
  ASSUME NEW r \in Rounds, todo[r] \in Seq(Configs), IsInjective(todo[r])
  PROVE  /\ Chunk(r) \in Seq(Configs) /\ IsInjective(Chunk(r))
         /\ Len(Chunk(r)) <= ChunkSize /\ Len(Chunk(r)) <= Len(todo[r])
         /\ todo[r] # <<>> => Chunk(r) # <<>>
         /\ Range(Chunk(r)) \subseteq Configs
<1> DEFINE n == IF Len(todo[r]) < ChunkSize THEN Len(todo[r]) ELSE ChunkSize
<1>1. n \in 0..Len(todo[r]) /\ n <= ChunkSize /\ 1 \in 1..(Len(todo[r]) + 1)
  BY ChunkAssumption
<1>2. todo[r] # <<>> => 1 <= n
  BY ChunkAssumption, EmptySeq
<1>3. Chunk(r) = SubSeq(todo[r], 1, n)
  BY DEF Chunk
<1> HIDE DEF n
<1>4. /\ Chunk(r) \in Seq(Configs) /\ IsInjective(Chunk(r))
      /\ Len(Chunk(r)) = IF 1 <= n THEN n - 1 + 1 ELSE 0
  BY <1>1, <1>3, SliceFacts
<1>5. Range(Chunk(r)) \subseteq Configs
  BY <1>4 DEF Range
<1>6. Len(Chunk(r)) = n
  BY <1>1, <1>4
<1> QED
  BY <1>1, <1>2, <1>4, <1>5, <1>6

\* A list that holds only members of another, each once, is no longer.
LEMMA NoLonger ==
  ASSUME NEW s \in Seq(Configs), NEW t \in Seq(Configs), IsInjective(s),
         Range(s) \subseteq Range(t)
  PROVE  Len(s) <= Len(t)
<1>1. Len(s) \in Nat /\ Len(t) \in Nat /\ DOMAIN s = 1..Len(s) /\ DOMAIN t = 1..Len(t)
  OBVIOUS
<1>2. t \in [1..Len(t) -> Range(t)] /\ s \in [1..Len(s) -> Range(t)]
  BY <1>1 DEF Range
<1>3. t \in Surjection(1..Len(t), Range(t))
  BY <1>1, <1>2 DEF Surjection, Range
<1>4. s \in Injection(1..Len(s), Range(t))
  BY <1>2 DEF Injection
<1>5. /\ IsFiniteSet(1..Len(t)) /\ Cardinality(1..Len(t)) = Len(t)
      /\ IsFiniteSet(1..Len(s)) /\ Cardinality(1..Len(s)) = Len(s)
  <2>1. \A n \in Nat : IsFiniteSet(1..n) /\ Cardinality(1..n) = n
    BY FS_Interval
  <2> QED
    BY <1>1, <2>1
<1>6. IsFiniteSet(Range(t)) /\ Cardinality(Range(t)) <= Len(t)
  BY <1>3, <1>5, FS_Surjection
<1>7. Len(s) <= Cardinality(Range(t))
  BY <1>4, <1>5, <1>6, FS_Injection
<1>8. Cardinality(Range(t)) \in Nat
  BY <1>6, FS_CardinalityType
<1> QED
  BY <1>1, <1>6, <1>7, <1>8

LEMMA AppendFacts ==
  ASSUME NEW s \in Seq(Configs), NEW t \in Seq(Configs), IsInjective(s), IsInjective(t),
         Range(s) \cap Range(t) = {}
  PROVE  /\ s \o t \in Seq(Configs) /\ IsInjective(s \o t)
         /\ Range(s \o t) = Range(s) \cup Range(t)
<1> DEFINE u == s \o t
<1>1. /\ u \in Seq(Configs) /\ Len(u) = Len(s) + Len(t)
      /\ \A i \in 1..(Len(s) + Len(t)) : u[i] = IF i <= Len(s) THEN s[i] ELSE t[i - Len(s)]
  BY ConcatProperties
<1> HIDE DEF u
<1>2. /\ DOMAIN u = 1..(Len(s) + Len(t)) /\ DOMAIN s = 1..Len(s) /\ DOMAIN t = 1..Len(t)
      /\ Len(s) \in Nat /\ Len(t) \in Nat
  BY <1>1
<1>3. \A i \in DOMAIN u :
        \/ i \in DOMAIN s /\ u[i] = s[i]
        \/ i \notin DOMAIN s /\ i - Len(s) \in DOMAIN t /\ u[i] = t[i - Len(s)]
  BY <1>1, <1>2
<1>4. /\ \A i \in DOMAIN s : i \in DOMAIN u /\ u[i] = s[i]
      /\ \A i \in DOMAIN t : i + Len(s) \in DOMAIN u /\ u[i + Len(s)] = t[i]
  BY <1>1, <1>2
<1>5. Range(u) = Range(s) \cup Range(t)
  BY <1>3, <1>4 DEF Range
<1>6. IsInjective(u)
  <2> SUFFICES ASSUME NEW i \in DOMAIN u, NEW k \in DOMAIN u, u[i] = u[k] PROVE i = k
    BY DEF IsInjective
  <2>1. i \in DOMAIN s <=> k \in DOMAIN s
    BY <1>3 DEF Range
  <2>2. CASE i \in DOMAIN s
    BY <1>4, <2>1, <2>2 DEF IsInjective
  <2>3. CASE i \notin DOMAIN s
    <3>1. i - Len(s) = k - Len(s)
      BY <1>3, <2>1, <2>3 DEF IsInjective
    <3> QED
      BY <1>2, <3>1
  <2> QED
    BY <2>2, <2>3
<1> QED
  BY <1>1, <1>5, <1>6 DEF u

\* The two halves of a batch of two or more.
LEMMA HalvesFacts ==
  ASSUME NEW batch \in Seq(Configs), IsInjective(batch), batch # <<>>, Len(batch) # 1
  PROVE  \E left, right \in Seq(Configs) :
           /\ Halves(batch) = <<left, right>>
           /\ left # <<>> /\ right # <<>> /\ IsInjective(left) /\ IsInjective(right)
           /\ Range(left) \cap Range(right) = {}
           /\ Range(left) \cup Range(right) = Range(batch)
<1> DEFINE mid == Len(batch) \div 2
           left == SubSeq(batch, 1, mid)
           right == SubSeq(batch, mid + 1, Len(batch))
<1>1. Len(batch) \in Nat /\ Len(batch) >= 2 /\ DOMAIN batch = 1..Len(batch)
  <2>1. Len(batch) \in Nat /\ Len(batch) # 0
    BY EmptySeq
  <2> HIDE DEF mid, left, right
  <2>2. Len(batch) >= 2
    <3>1. \A n \in Nat : n # 0 /\ n # 1 => n >= 2
      OBVIOUS
    <3> QED
      BY <2>1, <3>1
  <2>3. DOMAIN batch = 1..Len(batch)
    OBVIOUS
  <2> QED
    BY <2>1, <2>2, <2>3
<1>2. mid \in Nat /\ 1 <= mid /\ mid < Len(batch)
  BY <1>1
<1> HIDE DEF mid
<1>3. /\ left \in Seq(Configs) /\ IsInjective(left) /\ Len(left) = mid
      /\ \A x : x \in Range(left) <=> \E i \in 1..mid : batch[i] = x
  <2>1. 1 \in 1..(Len(batch) + 1) /\ mid \in 0..Len(batch)
    BY <1>1, <1>2
  <2>2. /\ left \in Seq(Configs) /\ IsInjective(left)
        /\ Len(left) = IF 1 <= mid THEN mid - 1 + 1 ELSE 0
        /\ \A x : x \in Range(left) <=> \E i \in 1..mid : batch[i] = x
    BY <2>1, SliceFacts
  <2> QED
    BY <1>2, <2>2
<1>4. /\ right \in Seq(Configs) /\ IsInjective(right) /\ Len(right) >= 1
      /\ \A x : x \in Range(right) <=> \E i \in (mid + 1)..Len(batch) : batch[i] = x
  <2>1. mid + 1 \in 1..(Len(batch) + 1) /\ Len(batch) \in 0..Len(batch)
    BY <1>1, <1>2
  <2>2. /\ right \in Seq(Configs) /\ IsInjective(right)
        /\ Len(right) = IF mid + 1 <= Len(batch) THEN Len(batch) - (mid + 1) + 1 ELSE 0
        /\ \A x : x \in Range(right) <=> \E i \in (mid + 1)..Len(batch) : batch[i] = x
    BY <2>1, SliceFacts
  <2> QED
    BY <1>1, <1>2, <2>2
<1>5. Halves(batch) = <<left, right>>
  BY DEF Halves, mid
<1> HIDE DEF left, right
<1>6. left # <<>> /\ right # <<>>
  BY <1>2, <1>3, <1>4, EmptySeq
<1>7. Range(left) \cap Range(right) = {}
  <2> SUFFICES ASSUME NEW x, x \in Range(left), x \in Range(right) PROVE FALSE
    OBVIOUS
  <2>1. PICK i \in 1..mid : batch[i] = x
    BY <1>3
  <2>2. PICK k \in (mid + 1)..Len(batch) : batch[k] = x
    BY <1>4
  <2>3. i \in DOMAIN batch /\ k \in DOMAIN batch /\ i # k
    BY <1>1, <1>2
  <2> QED
    BY <2>1, <2>2, <2>3 DEF IsInjective
<1>8. Range(left) \cup Range(right) = Range(batch)
  <2>1. \A i \in DOMAIN batch : i \in 1..mid \/ i \in (mid + 1)..Len(batch)
    BY <1>1, <1>2
  <2>2. \A i : i \in 1..mid \/ i \in (mid + 1)..Len(batch) => i \in DOMAIN batch
    BY <1>1, <1>2
  <2>3. \A x : x \in Range(batch) <=> x \in Range(left) \/ x \in Range(right)
    BY <1>3, <1>4, <2>1, <2>2, InRange
  <2> QED
    BY <2>3
<1> QED
  BY <1>3, <1>4, <1>5, <1>6, <1>7, <1>8

LEMMA BatchFacts ==
  ASSUME NEW bs \in Seq(Seq(Configs)), NEW i \in DOMAIN bs
  PROVE  bs[i] \in Seq(Configs) /\ Range(bs[i]) \subseteq Held(bs)
BY DEF Held

\* The next batch and the ones after it.
LEMMA NextBatch ==
  ASSUME NEW bs \in Seq(Seq(Configs)), bs # <<>>, Cut(bs)
  PROVE  /\ Head(bs) \in Seq(Configs) /\ Tail(bs) \in Seq(Seq(Configs))
         /\ Head(bs) # <<>> /\ IsInjective(Head(bs)) /\ Cut(Tail(bs))
         /\ Held(bs) = Range(Head(bs)) \cup Held(Tail(bs))
         /\ Range(Head(bs)) \cap Held(Tail(bs)) = {}
<1> DEFINE t == Tail(bs)
<1>1. /\ Head(bs) \in Seq(Configs) /\ t \in Seq(Seq(Configs)) /\ Len(t) = Len(bs) - 1
      /\ \A i \in 1..Len(t) : t[i] = bs[i + 1]
      /\ Head(bs) = bs[1]
  BY HeadTailProperties
<1>2. DOMAIN bs = 1..Len(bs) /\ DOMAIN t = 1..Len(t) /\ Len(bs) \in Nat \ {0}
  BY <1>1
<1> HIDE DEF t
<1>3. \A i \in DOMAIN t : i + 1 \in DOMAIN bs /\ i + 1 # 1 /\ t[i] = bs[i + 1]
  BY <1>1, <1>2
<1>4. \A i \in DOMAIN bs : i = 1 \/ (i - 1 \in DOMAIN t /\ t[i - 1] = bs[i])
  <2> SUFFICES ASSUME NEW i \in DOMAIN bs, i # 1
               PROVE  i - 1 \in DOMAIN t /\ t[i - 1] = bs[i]
    OBVIOUS
  <2>1. i - 1 \in DOMAIN t /\ (i - 1) + 1 = i
    BY <1>1, <1>2
  <2> QED
    BY <1>3, <2>1
<1>5. 1 \in DOMAIN bs
  BY <1>2
<1>6. Head(bs) # <<>> /\ IsInjective(Head(bs))
  BY <1>1, <1>5 DEF Cut
<1>7. Cut(t)
  <2>1. \A i \in DOMAIN t : t[i] # <<>> /\ IsInjective(t[i])
    BY <1>3 DEF Cut
  <2>2. ASSUME NEW i \in DOMAIN t, NEW k \in DOMAIN t, i # k
        PROVE  Range(t[i]) \cap Range(t[k]) = {}
    <3>1. i + 1 \in DOMAIN bs /\ k + 1 \in DOMAIN bs /\ i + 1 # k + 1
      BY <1>2, <1>3, <2>2
    <3> QED
      BY <1>3, <3>1 DEF Cut
  <2> QED
    BY <2>1, <2>2 DEF Cut
<1>8. Held(bs) = Range(Head(bs)) \cup Held(t)
  <2>1. ASSUME NEW x, x \in Held(bs) PROVE x \in Range(Head(bs)) \/ x \in Held(t)
    <3>1. PICK i \in DOMAIN bs : x \in Range(bs[i])
      BY <2>1, InHeld
    <3> QED
      BY <1>1, <1>4, <3>1, InHeld
  <2>2. ASSUME NEW x, x \in Range(Head(bs)) \/ x \in Held(t) PROVE x \in Held(bs)
    BY <1>1, <1>3, <1>5, <2>2, InHeld
  <2> QED
    BY <2>1, <2>2
<1>9. Range(Head(bs)) \cap Held(t) = {}
  <2> SUFFICES ASSUME NEW x, x \in Range(Head(bs)), x \in Held(t) PROVE FALSE
    OBVIOUS
  <2>1. PICK i \in DOMAIN t : x \in Range(t[i])
    BY InHeld
  <2>2. x \in Range(bs[1]) \cap Range(bs[i + 1]) /\ i + 1 \in DOMAIN bs /\ i + 1 # 1
    BY <1>1, <1>3, <2>1
  <2> QED
    BY <1>5, <2>2 DEF Cut
<1> QED
  BY <1>1, <1>6, <1>7, <1>8, <1>9 DEF t

LEMMA OneBatch ==
  ASSUME NEW batch \in Seq(Configs), IsInjective(batch), batch # <<>>
  PROVE  /\ <<batch>> \in Seq(Seq(Configs)) /\ Cut(<<batch>>)
         /\ Held(<<batch>>) = Range(batch)
<1>1. DOMAIN <<batch>> = {1} /\ <<batch>>[1] = batch
  OBVIOUS
<1> QED
  BY <1>1 DEF Cut, Held

LEMMA NoBatches == Held(<<>>) = {} /\ <<>> \in Seq(Seq(Configs))
BY DEF Held

\* The two halves take the place of their batch.
LEMMA PushFacts ==
  ASSUME NEW left \in Seq(Configs), NEW right \in Seq(Configs), NEW rest \in Seq(Seq(Configs)),
         left # <<>>, right # <<>>, IsInjective(left), IsInjective(right), Cut(rest),
         Range(left) \cap Range(right) = {},
         (Range(left) \cup Range(right)) \cap Held(rest) = {}
  PROVE  LET bs == <<left, right>> \o rest
         IN /\ bs \in Seq(Seq(Configs)) /\ Cut(bs)
            /\ Held(bs) = Range(left) \cup Range(right) \cup Held(rest)
<1> DEFINE bs == <<left, right>> \o rest
<1>0. <<left, right>> \in Seq(Seq(Configs)) /\ Len(<<left, right>>) = 2
      /\ <<left, right>>[1] = left /\ <<left, right>>[2] = right
  OBVIOUS
<1>1. /\ bs \in Seq(Seq(Configs)) /\ Len(bs) = 2 + Len(rest)
      /\ \A i \in 1..(2 + Len(rest)) :
           bs[i] = IF i <= 2 THEN <<left, right>>[i] ELSE rest[i - 2]
  BY <1>0, ConcatProperties
<1>2. Len(rest) \in Nat /\ DOMAIN rest = 1..Len(rest)
  OBVIOUS
<1> HIDE DEF bs
<1>3. DOMAIN bs = 1..(2 + Len(rest))
  BY <1>1
<1>4. /\ 1 \in DOMAIN bs /\ bs[1] = left /\ 2 \in DOMAIN bs /\ bs[2] = right
      /\ \A i \in DOMAIN rest : i + 2 \in DOMAIN bs /\ bs[i + 2] = rest[i]
  <2>1. 1 \in DOMAIN bs /\ bs[1] = left /\ 2 \in DOMAIN bs /\ bs[2] = right
    BY <1>0, <1>1, <1>2, <1>3
  <2>2. ASSUME NEW i \in DOMAIN rest PROVE i + 2 \in DOMAIN bs /\ bs[i + 2] = rest[i]
    <3>1. i + 2 \in DOMAIN bs /\ ~(i + 2 <= 2) /\ (i + 2) - 2 = i
      BY <1>2, <1>3
    <3> QED
      BY <1>1, <1>3, <3>1
  <2> QED
    BY <2>1, <2>2
<1>5. \A i \in DOMAIN bs :
        \/ i = 1 \/ i = 2
        \/ i # 1 /\ i # 2 /\ i - 2 \in DOMAIN rest /\ bs[i] = rest[i - 2]
  <2> SUFFICES ASSUME NEW i \in DOMAIN bs, i # 1, i # 2
               PROVE  i - 2 \in DOMAIN rest /\ bs[i] = rest[i - 2]
    OBVIOUS
  <2>1. i - 2 \in DOMAIN rest /\ ~(i <= 2)
    BY <1>2, <1>3
  <2> QED
    BY <1>1, <1>3, <2>1
<1>6. Held(bs) = Range(left) \cup Range(right) \cup Held(rest)
  <2>1. \A i \in DOMAIN bs : bs[i] = left \/ bs[i] = right \/ \E k \in DOMAIN rest : bs[i] = rest[k]
    BY <1>4, <1>5
  <2> QED
    BY <1>4, <2>1 DEF Held
<1>7. \A i \in DOMAIN rest : Range(rest[i]) \subseteq Held(rest)
  BY DEF Held
<1>8. Cut(bs)
  <2>1. \A i \in DOMAIN bs : bs[i] # <<>> /\ IsInjective(bs[i])
    BY <1>4, <1>5 DEF Cut
  <2>2. ASSUME NEW i \in DOMAIN bs, NEW k \in DOMAIN bs, i # k
        PROVE  Range(bs[i]) \cap Range(bs[k]) = {}
    <3>1. CASE i \in {1, 2} /\ k \in {1, 2}
      BY <1>4, <2>2, <3>1
    <3>2. CASE i \in {1, 2} /\ k \notin {1, 2}
      <4>1. Range(bs[k]) \subseteq Held(rest)
        BY <1>5, <1>7, <3>2
      <4> QED
        BY <1>4, <3>2, <4>1
    <3>3. CASE i \notin {1, 2} /\ k \in {1, 2}
      <4>1. Range(bs[i]) \subseteq Held(rest)
        BY <1>5, <1>7, <3>3
      <4> QED
        BY <1>4, <3>3, <4>1
    <3>4. CASE i \notin {1, 2} /\ k \notin {1, 2}
      <4>1. /\ i - 2 \in DOMAIN rest /\ k - 2 \in DOMAIN rest
            /\ bs[i] = rest[i - 2] /\ bs[k] = rest[k - 2]
        BY <1>5, <3>4
      <4>2. i - 2 # k - 2
        BY <1>3, <2>2
      <4> QED
        BY <4>1, <4>2 DEF Cut
    <3> QED
      BY <3>1, <3>2, <3>3, <3>4
  <2> QED
    BY <2>1, <2>2 DEF Cut
<1> QED
  BY <1>1, <1>6, <1>8 DEF bs

-----------------------------------------------------------------------------
(* The actions.  Each of them is a step of one round.                       *)

LEMMA RoundFacts ==
  ASSUME IInv, NEW r \in Rounds
  PROVE  /\ todo[r] \in Seq(Configs) /\ IsInjective(todo[r])
         /\ batches[r] \in Seq(Seq(Configs)) /\ items[r] \in Seq(Configs)
         /\ Len(items[r]) <= ChunkSize /\ RoundInv(r) /\ DOMAIN results[r] \subseteq Configs
         /\ Chunk(r) \in Seq(Configs) /\ IsInjective(Chunk(r)) /\ Len(Chunk(r)) <= ChunkSize
         /\ Len(Chunk(r)) <= Len(todo[r]) /\ Range(Chunk(r)) \subseteq Configs
         /\ todo[r] # <<>> => Chunk(r) # <<>>
<1>1. /\ todo[r] \in Seq(Configs) /\ IsInjective(todo[r])
      /\ batches[r] \in Seq(Seq(Configs)) /\ items[r] \in Seq(Configs)
      /\ Len(items[r]) <= ChunkSize /\ RoundInv(r) /\ DOMAIN results[r] \subseteq Configs
  BY DEF IInv, Shapes
<1> QED
  BY <1>1, ChunkFacts

OthersKept(r) ==
  /\ malformed' = malformed
  /\ \A o \in Rounds \ {r} :
       /\ at'[o] = at[o] /\ todo'[o] = todo[o] /\ batches'[o] = batches[o]
       /\ items'[o] = items[o] /\ proc'[o] = proc[o] /\ results'[o] = results[o]

LEMMA OneRound ==
  ASSUME IInv, NEW r \in Rounds, OthersKept(r), Shapes', RoundInv(r)'
  PROVE  IInv'
<1>1. ASSUME NEW o \in Rounds, o # r PROVE RoundInv(o)'
  <2>1. /\ malformed' = malformed /\ at'[o] = at[o] /\ todo'[o] = todo[o]
        /\ batches'[o] = batches[o] /\ items'[o] = items[o] /\ proc'[o] = proc[o]
        /\ results'[o] = results[o]
    BY <1>1 DEF OthersKept
  <2>2. RoundInv(o)
    BY DEF IInv
  <2> QED
    BY <2>1, <2>2 DEF RoundInv, Bisecting, Kept, Chunk
<1> QED
  BY <1>1 DEF IInv

LEMMA BeginInv ==
  ASSUME IInv, NEW r \in Rounds, Begin(r)
  PROVE  IInv'
<1>1. PICK s \in Snapshots[r] : todo' = [todo EXCEPT ![r] = s]
  BY DEF Begin
<1>2. s \in Seq(Configs) /\ IsInjective(s)
  BY SnapshotAssumption
<1>3. /\ Shapes /\ at[r] = "idle" /\ at' = [at EXCEPT ![r] = "chunk"]
      /\ UNCHANGED <<malformed, batches, items, proc, results>> /\ RoundInv(r)
  BY DEF IInv, Begin
<1>4. Shapes'
  BY <1>1, <1>2, <1>3 DEF Shapes
<1>5. at'[r] = "chunk" /\ proc'[r] = "none" /\ OthersKept(r)
  BY <1>1, <1>3 DEF Shapes, OthersKept, RoundInv
<1>6. RoundInv(r)'
  BY <1>5 DEF RoundInv
<1> QED
  BY <1>4, <1>5, <1>6, OneRound

LEMMA TakeChunkInv ==
  ASSUME IInv, NEW r \in Rounds, TakeChunk(r)
  PROVE  IInv'
<1>0. /\ Shapes /\ at[r] = "chunk" /\ todo[r] # <<>> /\ UNCHANGED <<malformed, todo>>
      /\ results' = [results EXCEPT ![r] = InitialResults(r)] /\ RoundInv(r)
  BY DEF IInv, TakeChunk
<1>1. /\ Chunk(r) \in Seq(Configs) /\ IsInjective(Chunk(r)) /\ Len(Chunk(r)) <= ChunkSize
      /\ Range(Chunk(r)) \subseteq Configs /\ Chunk(r) # <<>>
  BY <1>0, RoundFacts
<1>2. /\ DOMAIN InitialResults(r) = Range(Chunk(r))
      /\ \A c \in Range(Chunk(r)) :
           InitialResults(r)[c] \in [answered : BOOLEAN, via : Configs \cup {None, "refused"}]
  BY DEF InitialResults, Unmeasured
<1>3. /\ DOMAIN results' = Rounds /\ results'[r] = InitialResults(r)
      /\ \A o \in Rounds \ {r} : results'[o] = results[o]
  BY <1>0 DEF Shapes
<1>4. \A o \in Rounds :
        /\ DOMAIN results'[o] \subseteq Configs
        /\ \A c \in DOMAIN results'[o] :
             results'[o][c] \in [answered : BOOLEAN, via : Configs \cup {None, "refused"}]
  <2> SUFFICES ASSUME NEW o \in Rounds
               PROVE  /\ DOMAIN results'[o] \subseteq Configs
                      /\ \A c \in DOMAIN results'[o] :
                           results'[o][c] \in [answered : BOOLEAN,
                                               via : Configs \cup {None, "refused"}]
    OBVIOUS
  <2>1. CASE o = r
    BY <1>1, <1>2, <1>3, <2>1
  <2>2. CASE o # r
    BY <1>0, <1>3, <2>2 DEF Shapes
  <2> QED
    BY <2>1, <2>2
<1>5. Chunk(r)' = Chunk(r)
  BY <1>0 DEF Chunk
<1>6. CASE Accepted(Chunk(r)) /\ items' = [items EXCEPT ![r] = Chunk(r)] /\ Popen(r)
           /\ UNCHANGED batches
  <2>1. Shapes'
    BY <1>0, <1>1, <1>3, <1>4, <1>6 DEF Shapes, Popen
  <2>2. OthersKept(r) /\ at'[r] = "wait" /\ items'[r] = Chunk(r)
    BY <1>0, <1>3, <1>6 DEF Shapes, OthersKept, Popen
  <2>3. Range(items'[r]) = Range(Chunk(r)') \ malformed' /\ IsInjective(items'[r])
    BY <1>0, <1>1, <1>5, <1>6, <2>2 DEF Accepted
  <2>4. RoundInv(r)'
    BY <1>2, <1>3, <1>5, <2>2, <2>3 DEF RoundInv, Kept
  <2> QED
    BY <2>1, <2>2, <2>4, OneRound
<1>7. CASE ~Accepted(Chunk(r)) /\ items' = [items EXCEPT ![r] = <<>>]
           /\ batches' = [batches EXCEPT ![r] = <<Chunk(r)>>]
           /\ at' = [at EXCEPT ![r] = "bisect"] /\ UNCHANGED proc
  <2>1. /\ <<Chunk(r)>> \in Seq(Seq(Configs)) /\ Cut(<<Chunk(r)>>)
        /\ Held(<<Chunk(r)>>) = Range(Chunk(r))
    BY <1>1, OneBatch
  <2>2. <<>> \in Seq(Configs) /\ Len(<<>>) <= ChunkSize
    BY ChunkAssumption
  <2>3. Range(<<>>) = {} /\ IsInjective(<<>>)
    BY DEF Range, IsInjective
  <2>4. Shapes'
    BY <1>0, <1>3, <1>4, <1>7, <2>1, <2>2 DEF Shapes
  <2>5. /\ OthersKept(r) /\ at'[r] = "bisect" /\ items'[r] = <<>> /\ batches'[r] = <<Chunk(r)>>
        /\ proc'[r] = "none"
    BY <1>0, <1>3, <1>7 DEF Shapes, OthersKept, RoundInv
  <2>6. Bisecting(r)'
    BY <1>5, <2>1, <2>3, <2>5 DEF Bisecting
  <2>7. RoundInv(r)'
    BY <1>2, <1>3, <1>5, <2>5, <2>6 DEF RoundInv
  <2> QED
    BY <2>4, <2>5, <2>7, OneRound
<1> QED
  BY <1>6, <1>7 DEF TakeChunk

LEMMA FindValidItemsInv ==
  ASSUME IInv, NEW r \in Rounds, FindValidItems(r)
  PROVE  IInv'
<1> DEFINE batch == Head(batches[r])
           rest == Tail(batches[r])
<1>0. /\ Shapes /\ at[r] = "bisect" /\ batches[r] # <<>>
      /\ UNCHANGED <<malformed, at, todo, proc, results>> /\ RoundInv(r) /\ Bisecting(r)
  BY DEF IInv, FindValidItems, RoundInv
<1>1. /\ batches[r] \in Seq(Seq(Configs)) /\ items[r] \in Seq(Configs)
      /\ Len(items[r]) <= ChunkSize
      /\ Chunk(r) \in Seq(Configs) /\ Len(Chunk(r)) <= ChunkSize
  BY RoundFacts
<1>2. /\ Cut(batches[r]) /\ IsInjective(items[r])
      /\ Range(items[r]) \cap Held(batches[r]) = {}
      /\ Held(batches[r]) \subseteq Range(Chunk(r))
      /\ Range(items[r]) \subseteq Range(Chunk(r)) \ malformed
      /\ Range(Chunk(r)) \ malformed \subseteq Range(items[r]) \cup Held(batches[r])
  BY <1>0 DEF Bisecting
<1>3. /\ batch \in Seq(Configs) /\ rest \in Seq(Seq(Configs))
      /\ batch # <<>> /\ IsInjective(batch) /\ Cut(rest)
      /\ Held(batches[r]) = Range(batch) \cup Held(rest)
      /\ Range(batch) \cap Held(rest) = {}
  BY <1>0, <1>1, <1>2, NextBatch
<1>4. Chunk(r)' = Chunk(r)
  BY <1>0 DEF Chunk
<1> HIDE DEF batch, rest
<1>5. ASSUME NEW kept \in Seq(Configs), NEW left \in Seq(Seq(Configs)),
             Len(kept) <= ChunkSize, Cut(left), IsInjective(kept),
             Range(kept) \cap Held(left) = {}, Held(left) \subseteq Range(Chunk(r)),
             Range(kept) \subseteq Range(Chunk(r)) \ malformed,
             Range(Chunk(r)) \ malformed \subseteq Range(kept) \cup Held(left),
             items' = [items EXCEPT ![r] = kept],
             batches' = [batches EXCEPT ![r] = left]
      PROVE  IInv'
  <2>1. Shapes'
    BY <1>0, <1>5 DEF Shapes
  <2>2. OthersKept(r) /\ items'[r] = kept /\ batches'[r] = left
    BY <1>0, <1>5 DEF Shapes, OthersKept
  <2>3. Bisecting(r)'
    BY <1>0, <1>4, <1>5, <2>2 DEF Bisecting
  <2>4. RoundInv(r)'
    BY <1>0, <1>4, <2>3 DEF RoundInv
  <2> QED
    BY <2>1, <2>2, <2>4, OneRound
<1>6. UNCHANGED items => items' = [items EXCEPT ![r] = items[r]]
  BY <1>0 DEF Shapes
<1>7. CASE /\ Accepted(batch)
           /\ items' = [items EXCEPT ![r] = @ \o batch]
           /\ batches' = [batches EXCEPT ![r] = rest]
  <2> DEFINE kept == items[r] \o batch
  <2>1. /\ kept \in Seq(Configs) /\ IsInjective(kept)
        /\ Range(kept) = Range(items[r]) \cup Range(batch)
    BY <1>1, <1>2, <1>3, AppendFacts
  <2> HIDE DEF kept
  <2>2. Range(kept) \subseteq Range(Chunk(r)) \ malformed
    BY <1>2, <1>3, <1>7, <2>1 DEF Accepted
  <2>3. Len(kept) <= Len(Chunk(r))
    BY <1>1, <2>1, <2>2, NoLonger
  <2>4. Len(kept) <= ChunkSize
    BY <1>1, <2>1, <2>3, ChunkAssumption
  <2>5. Range(kept) \cap Held(rest) = {} /\ Held(rest) \subseteq Range(Chunk(r))
        /\ Range(Chunk(r)) \ malformed \subseteq Range(kept) \cup Held(rest)
    BY <1>2, <1>3, <2>1
  <2>6. items' = [items EXCEPT ![r] = kept]
    BY <1>7 DEF kept
  <2> QED
    BY <1>3, <1>5, <1>7, <2>1, <2>2, <2>4, <2>5, <2>6
<1>8. CASE /\ ~Accepted(batch) /\ Len(batch) = 1
           /\ batches' = [batches EXCEPT ![r] = rest] /\ UNCHANGED items
  <2>1. Range(batch) \subseteq malformed
    <3>1. \A i \in DOMAIN batch : i = 1
      BY <1>3, <1>8
    <3>2. PICK x : x \in Range(batch) /\ x \in malformed
      BY <1>8 DEF Accepted
    <3> QED
      BY <3>1, <3>2, InRange
  <2>2. Range(items[r]) \cap Held(rest) = {} /\ Held(rest) \subseteq Range(Chunk(r))
        /\ Range(Chunk(r)) \ malformed \subseteq Range(items[r]) \cup Held(rest)
    BY <1>2, <1>3, <2>1
  <2> QED
    BY <1>1, <1>2, <1>3, <1>5, <1>6, <1>8, <2>2
<1>9. CASE /\ ~Accepted(batch) /\ Len(batch) # 1
           /\ batches' = [batches EXCEPT ![r] = Halves(batch) \o rest] /\ UNCHANGED items
  <2>1. PICK left \in Seq(Configs), right \in Seq(Configs) :
          /\ Halves(batch) = <<left, right>>
          /\ left # <<>> /\ right # <<>> /\ IsInjective(left) /\ IsInjective(right)
          /\ Range(left) \cap Range(right) = {}
          /\ Range(left) \cup Range(right) = Range(batch)
    BY <1>3, <1>9, HalvesFacts
  <2> DEFINE bs == <<left, right>> \o rest
  <2>2. /\ bs \in Seq(Seq(Configs)) /\ Cut(bs)
        /\ Held(bs) = Range(left) \cup Range(right) \cup Held(rest)
    <3>1. (Range(left) \cup Range(right)) \cap Held(rest) = {}
      BY <1>3, <2>1
    <3> QED
      BY <1>3, <2>1, <3>1, PushFacts
  <2>3. batches' = [batches EXCEPT ![r] = bs]
    BY <1>9, <2>1
  <2> HIDE DEF bs
  <2>4. Held(bs) = Held(batches[r])
    BY <1>3, <2>1, <2>2
  <2> QED
    BY <1>1, <1>2, <1>5, <1>6, <1>9, <2>2, <2>3, <2>4
<1> QED
  BY <1>7, <1>8, <1>9 DEF FindValidItems, batch, rest

LEMMA BisectedInv ==
  ASSUME IInv, NEW r \in Rounds, Bisected(r)
  PROVE  IInv'
<1>0. /\ Shapes /\ at[r] = "bisect" /\ batches[r] = <<>> /\ RoundInv(r)
      /\ UNCHANGED <<malformed, todo, batches, items, results>>
  BY DEF IInv, Bisected
<1>1. Kept(r) /\ proc[r] = "none"
  BY <1>0, NoBatches DEF RoundInv, Bisecting, Kept
<1>2. Chunk(r)' = Chunk(r) /\ Kept(r)'
  BY <1>0, <1>1 DEF Chunk, Kept
<1>3. CASE at' = [at EXCEPT ![r] = "publish"] /\ UNCHANGED proc
  <2>1. Shapes' /\ OthersKept(r) /\ at'[r] = "publish"
    BY <1>0, <1>3 DEF Shapes, OthersKept
  <2>2. RoundInv(r)'
    BY <1>0, <1>1, <1>2, <1>3, <2>1 DEF RoundInv
  <2> QED
    BY <2>1, <2>2, OneRound
<1>4. CASE Popen(r)
  <2>1. Shapes' /\ OthersKept(r) /\ at'[r] = "wait"
    BY <1>0, <1>4 DEF Shapes, OthersKept, Popen
  <2>2. RoundInv(r)'
    BY <1>0, <1>2, <2>1 DEF RoundInv
  <2> QED
    BY <2>1, <2>2, OneRound
<1> QED
  BY <1>3, <1>4 DEF Bisected

LEMMA WaitInv ==
  ASSUME IInv, NEW r \in Rounds, Bind(r) \/ PortsWaited(r)
  PROVE  IInv'
<1>0. /\ Shapes /\ RoundInv(r) /\ UNCHANGED <<malformed, todo, batches, items, results>>
      /\ Chunk(r)' = Chunk(r)
  BY DEF IInv, Bind, PortsWaited, Chunk
<1>1. CASE Bind(r)
  <2> DEFINE p == IF \E o \in Rounds : proc[o] = "up" THEN "exited" ELSE "up"
  <2>1. p \in {"exited", "up"} /\ proc' = [proc EXCEPT ![r] = p]
        /\ proc[r] = "starting" /\ UNCHANGED at
    BY <1>1 DEF Bind
  <2> HIDE DEF p
  <2>2. Shapes' /\ OthersKept(r)
    BY <1>0, <2>1 DEF Shapes, OthersKept
  <2>3. RoundInv(r)'
    BY <1>0, <2>1 DEF RoundInv, Kept
  <2> QED
    BY <2>2, <2>3, OneRound
<1>2. CASE PortsWaited(r)
  <2>1. at[r] = "wait" /\ at' = [at EXCEPT ![r] = "measure"] /\ UNCHANGED proc
    BY <1>2 DEF PortsWaited
  <2>2. Shapes' /\ OthersKept(r) /\ at'[r] = "measure"
    BY <1>0, <2>1 DEF Shapes, OthersKept
  <2>3. RoundInv(r)'
    BY <1>0, <2>1, <2>2 DEF RoundInv, Kept
  <2> QED
    BY <2>2, <2>3, OneRound
<1> QED
  BY <1>1, <1>2

LEMMA PortFacts ==
  ASSUME NEW r \in Rounds, items[r] \in Seq(Configs), NEW c \in Range(items[r])
  PROVE  PortOf(r, c) \in 1..Len(items[r]) /\ items[r][PortOf(r, c)] = c
<1>1. \E i \in 1..Len(items[r]) : items[r][i] = c
  BY InRange
<1> QED
  BY <1>1 DEF PortOf

LEMMA ReachesFacts ==
  ASSUME Shapes, NEW port \in Nat \ {0}
  PROVE  \/ Reaches(port) = None
         \/ \E o \in Rounds : /\ proc[o] = "up" /\ port <= Len(items[o])
                              /\ Reaches(port) = items[o][port] /\ items[o][port] \in Configs
<1> DEFINE owners == {o \in Rounds : proc[o] = "up" /\ port <= Len(items[o])}
           owner == CHOOSE o \in owners : TRUE
<1>1. CASE owners = {}
  BY <1>1 DEF Reaches
<1>2. CASE owners # {}
  <2>1. owner \in owners
    BY <1>2
  <2>2. Reaches(port) = items[owner][port]
    BY <1>2 DEF Reaches
  <2> HIDE DEF owner
  <2>3. owner \in Rounds /\ proc[owner] = "up" /\ port <= Len(items[owner])
    BY <2>1
  <2>4. items[owner] \in Seq(Configs)
    BY <2>3 DEF Shapes
  <2>5. items[owner][port] \in Configs
    BY <2>3, <2>4
  <2> QED
    BY <2>2, <2>3, <2>5
<1> QED
  BY <1>1, <1>2

\* A measurement touches one result of its round.
LEMMA MeasureFacts ==
  ASSUME IInv, NEW r \in Rounds, Measure(r)
  PROVE  \E c \in DOMAIN results[r], ok \in BOOLEAN, via \in Configs \cup {"refused"} :
           /\ PortOf(r, c) \in 1..Len(items[r]) /\ items[r][PortOf(r, c)] = c
           /\ via \in {Reaches(PortOf(r, c)), "refused"}
           /\ results' = [results EXCEPT ![r][c] = [answered |-> ok, via |-> via]]
<1>1. PICK c \in Range(items[r]), answered \in BOOLEAN :
        results' = [results EXCEPT ![r][c] =
                      [answered |-> answered /\ Reaches(PortOf(r, c)) # None,
                       via |-> IF Reaches(PortOf(r, c)) = None THEN "refused"
                               ELSE Reaches(PortOf(r, c))]]
  BY DEF Measure
<1>2. Shapes /\ RoundInv(r) /\ at[r] = "measure" /\ items[r] \in Seq(Configs)
  BY DEF IInv, Measure, Shapes
<1>3. c \in DOMAIN results[r]
  BY <1>2 DEF RoundInv, Kept
<1> DEFINE port == PortOf(r, c)
           ok == answered /\ Reaches(port) # None
           via == IF Reaches(port) = None THEN "refused" ELSE Reaches(port)
<1>4. port \in 1..Len(items[r]) /\ items[r][port] = c
  BY <1>2, PortFacts
<1>5. port \in Nat \ {0}
  BY <1>4
<1>6. via \in Configs \cup {"refused"} /\ via \in {Reaches(port), "refused"}
  <2> HIDE DEF port
  <2> QED
    BY <1>2, <1>5, ReachesFacts
<1>7. ok \in BOOLEAN
  OBVIOUS
<1>8. results' = [results EXCEPT ![r][c] = [answered |-> ok, via |-> via]]
  BY <1>1
<1> HIDE DEF ok, via
<1> QED
  BY <1>3, <1>4, <1>6, <1>7, <1>8

LEMMA MeasureInv ==
  ASSUME IInv, NEW r \in Rounds, Measure(r)
  PROVE  IInv'
<1>0. /\ Shapes /\ RoundInv(r) /\ at[r] = "measure"
      /\ UNCHANGED <<malformed, at, todo, batches, items, proc>> /\ Chunk(r)' = Chunk(r)
  BY DEF IInv, Measure, Chunk
<1>1. PICK c \in DOMAIN results[r], ok \in BOOLEAN, via \in Configs \cup {"refused"} :
        results' = [results EXCEPT ![r][c] = [answered |-> ok, via |-> via]]
  BY MeasureFacts
<1>2. /\ DOMAIN results' = Rounds /\ DOMAIN results'[r] = DOMAIN results[r]
      /\ \A o \in Rounds \ {r} : results'[o] = results[o]
      /\ \A d \in DOMAIN results[r] :
           results'[r][d] = IF d = c THEN [answered |-> ok, via |-> via] ELSE results[r][d]
  BY <1>0, <1>1 DEF Shapes
<1>3. [answered |-> ok, via |-> via] \in [answered : BOOLEAN, via : Configs \cup {None, "refused"}]
  OBVIOUS
<1>4. Shapes'
  <2>1. ASSUME NEW o \in Rounds
        PROVE  /\ DOMAIN results'[o] \subseteq Configs
               /\ \A d \in DOMAIN results'[o] :
                    results'[o][d] \in [answered : BOOLEAN, via : Configs \cup {None, "refused"}]
    <3>1. CASE o = r
      BY <1>0, <1>2, <1>3, <3>1 DEF Shapes
    <3>2. CASE o # r
      BY <1>0, <1>2, <3>2 DEF Shapes
    <3> QED
      BY <3>1, <3>2
  <2> QED
    BY <1>0, <1>2, <2>1 DEF Shapes
<1>5. OthersKept(r)
  BY <1>0, <1>2 DEF OthersKept
<1>6. RoundInv(r)'
  BY <1>0, <1>2 DEF RoundInv, Kept
<1> QED
  BY <1>4, <1>5, <1>6, OneRound

LEMMA EndInv ==
  ASSUME IInv, NEW r \in Rounds, Terminate(r) \/ Publish(r) \/ Return(r) \/ Raise(r)
  PROVE  IInv'
<1>0. Shapes /\ RoundInv(r) /\ UNCHANGED <<malformed, items, results>>
  BY DEF IInv, Terminate, Publish, Return, Raise
<1>1. CASE Terminate(r)
  <2>1. /\ at[r] = "measure" /\ at' = [at EXCEPT ![r] = "publish"]
        /\ proc' = [proc EXCEPT ![r] = "none"] /\ UNCHANGED <<todo, batches>>
        /\ Chunk(r)' = Chunk(r)
    BY <1>1 DEF Terminate, Chunk
  <2>2. Shapes' /\ OthersKept(r) /\ at'[r] = "publish" /\ proc'[r] = "none"
    BY <1>0, <2>1 DEF Shapes, OthersKept
  <2>3. RoundInv(r)'
    BY <1>0, <2>1, <2>2 DEF RoundInv
  <2> QED
    BY <2>2, <2>3, OneRound
<1>2. CASE Publish(r)
  <2> DEFINE n == Len(Chunk(r))
             left == SubSeq(todo[r], n + 1, Len(todo[r]))
  <2>1. /\ at[r] = "publish" /\ at' = [at EXCEPT ![r] = "chunk"]
        /\ todo' = [todo EXCEPT ![r] = left] /\ UNCHANGED <<batches, proc>>
    BY <1>0, <1>2 DEF Publish, Shapes
  <2>2. n + 1 \in 1..(Len(todo[r]) + 1) /\ Len(todo[r]) \in 0..Len(todo[r])
        /\ todo[r] \in Seq(Configs) /\ IsInjective(todo[r])
    <3>1. Chunk(r) \in Seq(Configs) /\ n <= Len(todo[r]) /\ todo[r] \in Seq(Configs)
          /\ IsInjective(todo[r])
      BY RoundFacts
    <3>2. n \in Nat /\ Len(todo[r]) \in Nat
      BY <3>1
    <3> HIDE DEF n
    <3> QED
      BY <3>1, <3>2
  <2>3. left \in Seq(Configs) /\ IsInjective(left)
    <3> HIDE DEF n
    <3> QED
      BY <2>2, SliceFacts
  <2> HIDE DEF left
  <2>4. Shapes' /\ OthersKept(r) /\ at'[r] = "chunk" /\ proc'[r] = "none"
    BY <1>0, <2>1, <2>3 DEF Shapes, OthersKept, RoundInv
  <2>5. RoundInv(r)'
    BY <2>4 DEF RoundInv
  <2> QED
    BY <2>4, <2>5, OneRound
<1>3. CASE Return(r)
  <2>1. /\ at[r] = "chunk" /\ at' = [at EXCEPT ![r] = "idle"]
        /\ UNCHANGED <<todo, batches, proc>>
    BY <1>3 DEF Return
  <2>2. Shapes' /\ OthersKept(r) /\ at'[r] = "idle" /\ proc'[r] = "none"
    BY <1>0, <2>1 DEF Shapes, OthersKept, RoundInv
  <2>3. RoundInv(r)'
    BY <2>2 DEF RoundInv
  <2> QED
    BY <2>2, <2>3, OneRound
<1>4. CASE Raise(r)
  <2>1. /\ at' = [at EXCEPT ![r] = "idle"] /\ proc' = [proc EXCEPT ![r] = "none"]
        /\ batches' = [batches EXCEPT ![r] = <<>>] /\ UNCHANGED todo
    BY <1>4 DEF Raise
  <2>2. Shapes' /\ OthersKept(r) /\ at'[r] = "idle" /\ proc'[r] = "none"
    BY <1>0, <2>1, NoBatches DEF Shapes, OthersKept
  <2>3. RoundInv(r)'
    BY <2>2 DEF RoundInv
  <2> QED
    BY <2>2, <2>3, OneRound
<1> QED
  BY <1>1, <1>2, <1>3, <1>4

-----------------------------------------------------------------------------

LEMMA InitInv == Init => IInv
<1> SUFFICES ASSUME Init PROVE IInv
  OBVIOUS
<1>1. <<>> \in Seq(Configs) /\ Len(<<>>) <= ChunkSize /\ IsInjective(<<>>)
  BY ChunkAssumption DEF IsInjective
<1>2. Shapes
  BY <1>1, NoBatches DEF Init, Shapes
<1>3. \A r \in Rounds : RoundInv(r)
  BY DEF Init, RoundInv
<1> QED
  BY <1>2, <1>3 DEF IInv

LEMMA NextInv == IInv /\ [Next]_vars => IInv'
<1> SUFFICES ASSUME IInv, [Next]_vars PROVE IInv'
  OBVIOUS
<1>1. ASSUME NEW r \in Rounds, Begin(r) PROVE IInv'
  BY <1>1, BeginInv
<1>2. ASSUME NEW r \in Rounds, TakeChunk(r) PROVE IInv'
  BY <1>2, TakeChunkInv
<1>3. ASSUME NEW r \in Rounds, FindValidItems(r) PROVE IInv'
  BY <1>3, FindValidItemsInv
<1>4. ASSUME NEW r \in Rounds, Bisected(r) PROVE IInv'
  BY <1>4, BisectedInv
<1>5. ASSUME NEW r \in Rounds, Bind(r) \/ PortsWaited(r) PROVE IInv'
  BY <1>5, WaitInv
<1>6. ASSUME NEW r \in Rounds, Measure(r) PROVE IInv'
  BY <1>6, MeasureInv
<1>7. ASSUME NEW r \in Rounds, Terminate(r) \/ Publish(r) \/ Return(r) \/ Raise(r) PROVE IInv'
  BY <1>7, EndInv
<1>8. CASE UNCHANGED vars
  BY <1>8 DEF vars, IInv, Shapes, RoundInv, Bisecting, Kept, Chunk
<1> QED
  BY <1>1, <1>2, <1>3, <1>4, <1>5, <1>6, <1>7, <1>8 DEF Next

\* The inductive invariant behind the theorems below: half-way through a
\* bisection what was kept and what is still to check make up the chunk.
THEOREM Inductive == Spec => []IInv
<1>1. IInv /\ [Next]_vars => IInv'
  BY NextInv
<1> QED
  BY InitInv, <1>1, PTL DEF Spec

\* A test process never has more than chunk_size listeners, and every result
\* is of its type.
THEOREM TypeCorrect == Spec => []TypeOK
<1>1. IInv => TypeOK
  BY DEF IInv, Shapes, TypeOK
<1> QED
  BY Inductive, <1>1, PTL

\* Bisection keeps every config that sing-box accepts and no other, each once,
\* for batches of any length with any of them malformed.
THEOREM BisectionExact == Spec => []BisectionKeepsValid
<1>1. IInv => BisectionKeepsValid
  BY DEF IInv, RoundInv, Kept, BisectionKeepsValid
<1> QED
  BY Inductive, <1>1, PTL

\* Every chunk is published with a result for each of its configs.
THEOREM ChunksInFull == Spec => []PublishedInFull
<1>1. IInv => PublishedInFull
  BY DEF IInv, RoundInv, PublishedInFull
<1> QED
  BY Inductive, <1>1, PTL

-----------------------------------------------------------------------------
(* One round at a time.                                                     *)

Alone == \A r, o \in Rounds : r = o

LEMMA AloneMeasures ==
  ASSUME Alone, IInv, MeasuredThroughItself, NEW r \in Rounds, Measure(r)
  PROVE  MeasuredThroughItself'
<1>0. Shapes
  BY DEF IInv
<1>1. PICK c \in DOMAIN results[r], ok \in BOOLEAN, via \in Configs \cup {"refused"} :
        /\ PortOf(r, c) \in 1..Len(items[r]) /\ items[r][PortOf(r, c)] = c
        /\ via \in {Reaches(PortOf(r, c)), "refused"}
        /\ results' = [results EXCEPT ![r][c] = [answered |-> ok, via |-> via]]
  BY MeasureFacts
<1> DEFINE port == PortOf(r, c)
<1>2. port \in Nat \ {0}
  <2>1. items[r] \in Seq(Configs)
    BY <1>0 DEF Shapes
  <2> QED
    BY <1>1, <2>1
<1>3. Reaches(port) \in {None, c}
  <2>1. \/ Reaches(port) = None
        \/ \E o \in Rounds : Reaches(port) = items[o][port]
    <3> HIDE DEF port
    <3> QED
      BY <1>0, <1>2, ReachesFacts
  <2> QED
    BY <1>1, <2>1 DEF Alone
<1>4. via \in {c, None, "refused"}
  BY <1>1, <1>3
<1>5. \A d \in DOMAIN results[r] :
        results'[r][d] = IF d = c THEN [answered |-> ok, via |-> via] ELSE results[r][d]
  BY <1>0, <1>1 DEF Shapes
<1>6. DOMAIN results'[r] = DOMAIN results[r]
  BY <1>0, <1>1 DEF Shapes
<1>7. \A d \in DOMAIN results'[r] : results'[r][d].via \in {d, None, "refused"}
  BY <1>4, <1>5, <1>6 DEF MeasuredThroughItself
<1> QED
  BY <1>7 DEF Alone, MeasuredThroughItself

\* While no other round tests, a result never comes through the outbound of
\* another config, however the batch was bisected.
THEOREM AloneMeasuredThroughItself == Alone => (Spec => []MeasuredThroughItself)
<1> SUFFICES ASSUME Alone PROVE Spec => []MeasuredThroughItself
  OBVIOUS
<1>1. Init => MeasuredThroughItself
  BY DEF Init, MeasuredThroughItself
<1>2. IInv /\ MeasuredThroughItself /\ [Next]_vars => MeasuredThroughItself'
  <2> SUFFICES ASSUME IInv, MeasuredThroughItself, [Next]_vars
               PROVE  MeasuredThroughItself'
    OBVIOUS
  <2>1. ASSUME NEW r \in Rounds, Measure(r) PROVE MeasuredThroughItself'
    BY <2>1, AloneMeasures
  <2>2. ASSUME NEW r \in Rounds, TakeChunk(r) PROVE MeasuredThroughItself'
    <3>1. DOMAIN results = Rounds /\ results' = [results EXCEPT ![r] = InitialResults(r)]
      BY <2>2 DEF IInv, Shapes, TakeChunk
    <3>2. \A c \in DOMAIN InitialResults(r) : InitialResults(r)[c].via = None
      BY DEF InitialResults, Unmeasured
    <3>3. results'[r] = InitialResults(r)
      BY <3>1
    <3> QED
      BY <3>2, <3>3 DEF MeasuredThroughItself, Alone
  <2>3. UNCHANGED results => MeasuredThroughItself'
    BY DEF MeasuredThroughItself
  <2> QED
    BY <2>1, <2>2, <2>3 DEF Next, vars, Begin, FindValidItems, Bisected, Bind, PortsWaited,
       Terminate, Publish, Return, Raise
<1> QED
  BY Inductive, <1>1, <1>2, PTL DEF Spec
==============================================================================
