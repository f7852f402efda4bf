----------------------------- MODULE UpdatesProofs -----------------------------
(***************************************************************************)
(* The safety properties of Updates, proved for all sets of subscriptions  *)
(* and rule sets and any number of mirrors and attempts.                   *)
(***************************************************************************)
EXTENDS Updates, FiniteSetTheorems, TLAPS

Items == Subs \cup RuleSets

Marking == {"enter", "inside", "mirror", "write", "replace", "leave"}
Resolving == {"inside", "mirror", "write", "replace", "leave", "left"}
RulesAt == {"bypass", "left", "due", "apply"} \cup Marking
SubsAt == {"list", "raise", "bypass", "enter", "inside", "leave", "left", "proxy",
           "store", "error", "release"}

ThreadType ==
  [job : {"none", "subscriptions", "rules"}, at : {"rest"} \cup RulesAt \cup SubsAt,
   todo : SUBSET Items, item : Items \cup {None}, tries : Nat,
   text : BOOLEAN, overlapped : BOOLEAN, ok : Nat, failed : Nat]

\* What a thread at rest, in an update of the rule sets and in one of the
\* subscriptions looks like.
Resting(th) == th.at = "rest" /\ th.tries = 0
InRules(t, th) ==
  /\ t \in {"boot", "rules"}
  /\ th.at \in RulesAt
  /\ th.at = "due" => t = "boot"
  /\ th.todo \subseteq RuleSets
  /\ IF th.at \in {"mirror", "write", "replace"}
     THEN th.item \in RuleSets /\ th.tries < Mirrors ELSE th.tries = 0
InSubs(th) ==
  /\ th.at \in SubsAt
  /\ th.todo \subseteq Subs
  /\ th.item \notin th.todo
  /\ th.at = "list" => th.item = None
  /\ th.at \notin {"list", "raise", "release"} => th.item \in Subs
  /\ th.at \in {"list", "bypass", "enter"} => th.tries = 0
  /\ th.at \in {"inside", "proxy"} => th.tries < Attempts
  /\ th.tries <= Attempts

Shape(t, th) ==
  /\ th.job = "none" => Resting(th)
  /\ th.job = "rules" => InRules(t, th)
  /\ th.job = "subscriptions" => InSubs(th)

ThreadsInv ==
  /\ thread \in [Threads -> ThreadType]
  /\ \A t \in Threads : Shape(t, thread[t])

\* The rest of the type invariant.
SharedInv ==
  /\ sockets \in {"real", "marked"} /\ resolver \in {"real", "patched"}
  /\ lock \in Threads \cup {None}
  /\ status \in [{"subscriptions", "rules"} ->
                  {"none", "running", "skipped", "idle", "failed"}]
  /\ told \in [Subs -> {"none", "ok", "error"}]
  /\ tmp \in [RuleSets -> {"none", "part", "whole"}]
  /\ dest \in [RuleSets -> {"none", "part", "whole"}]

\* One thread at a time updates the subscriptions, the holder of the lock, and
\* one the rule sets, without a lock.
OneEach ==
  /\ \A t \in Threads : lock = t <=> thread[t].job = "subscriptions"
  /\ ~(thread["boot"].job = "rules" /\ thread["rules"].job = "rules")

StatusInv ==
  /\ status["subscriptions"] = "running" =>
       \E t \in Threads : thread[t].job = "subscriptions" /\ thread[t].at # "release"
  /\ status["rules"] = "running" => thread["rules"].job = "rules"

\* Each half of the patch has a thread that will undo it ...
PatchInv ==
  /\ sockets = "marked" => \E t \in Threads : thread[t].at \in Marking
  /\ resolver = "patched" => \E t \in Threads : thread[t].at \in Resolving

\* ... and is there for each thread that made it, unless another undid it.
BypassInv ==
  \A t \in Threads :
    /\ thread[t].at \in Marking => sockets = "marked" \/ thread[t].overlapped
    /\ thread[t].at \in Marking \cap Resolving =>
         resolver = "patched" \/ thread[t].overlapped

\* What is about to replace a rule set is complete.
FilesInv == \A t \in Threads : thread[t].at = "replace" => tmp[thread[t].item] = "whole"

\* The summary counts what the table says of those already dealt with.
Dealt(th) == Subs \ (th.todo \cup {th.item})
Summary(th) ==
  /\ th.ok = Cardinality({s \in Dealt(th) : told[s] = "ok"})
  /\ th.failed = Cardinality({s \in Dealt(th) : told[s] # "ok"})
SummaryInv ==
  \A t \in Threads :
    IF thread[t].job = "subscriptions" THEN Summary(thread[t])
    ELSE thread[t].ok = 0 /\ thread[t].failed = 0

IInv ==
  /\ ThreadsInv /\ SharedInv /\ OneEach /\ StatusInv
  /\ PatchInv /\ BypassInv /\ FilesInv /\ SummaryInv

-----------------------------------------------------------------------------
(* What a step does to the threads.                                         *)

USE UpdatesAssumption DEF At, Goes, process, jobs, files, Items

\* A step of a thread leaves the others alone, or tells them that a bypass ended.
LEMMA OthersKept ==
  ASSUME ThreadsInv, NEW t \in Threads, Begin(t) \/ Step(t)
  PROVE  /\ DOMAIN thread' = Threads
         /\ \A u \in Threads \ {t} :
              thread'[u] = thread[u] \/ thread'[u] = [thread[u] EXCEPT !.overlapped = TRUE]
         /\ At(t, "leave") \/ At(t, "left") \/ thread' = [thread EXCEPT ![t] = thread'[t]]
<1> USE DEF ThreadsInv
<1>1. CASE LeaveBypass(t) \/ Left(t)
  BY <1>1 DEF LeaveBypass, Left, Overlapped
<1>2. CASE Begin(t)
  BY <1>2 DEF Begin, SkipSubs, BeginSubs, BeginRules
<1>3. CASE EnterBypass(t) \/ Entered(t) \/ NextSub(t) \/ Direct(t) \/ Proxied(t) \/ Store(t)
           \/ StatusError(t) \/ FinishSubs(t) \/ Release(t)
  BY <1>3 DEF EnterBypass, Entered, NextSub, Direct, Proxied, Tries, Store, StatusError,
     FinishSubs, Release
<1>4. CASE NextRule(t) \/ Download(t) \/ Write(t) \/ Replace(t) \/ FinishRules(t)
  BY <1>4 DEF NextRule, Download, Write, Replace, FinishRules, Missed, RuleDone
<1> QED
  BY <1>1, <1>2, <1>3, <1>4 DEF Step

\* A thread without a job.
LEMMA IdleShape ==
  /\ Idle \in ThreadType
  /\ Idle.job = "none" /\ Idle.at = "rest" /\ Idle.tries = 0
  /\ Idle.ok = 0 /\ Idle.failed = 0
  /\ \A t : Shape(t, Idle)
<1>1. Idle \in ThreadType
  BY DEF Idle, ThreadType
<1>2. /\ Idle.job = "none" /\ Idle.at = "rest" /\ Idle.tries = 0
      /\ Idle.ok = 0 /\ Idle.failed = 0
  BY DEF Idle
<1> QED
  BY <1>1, <1>2 DEF Shape, Resting

\* Where a thread is tells which job it is in.
LEMMA JobOf ==
  ASSUME ThreadsInv, NEW t \in Threads
  PROVE  /\ thread[t].at \in {"list", "raise", "proxy", "store", "error", "release"} =>
              thread[t].job = "subscriptions"
         /\ thread[t].at \in {"mirror", "write", "replace", "due", "apply"} =>
              thread[t].job = "rules"
         /\ thread[t].at \in Marking \cup Resolving => thread[t].job # "none"
BY DEF ThreadsInv, ThreadType, Shape, Resting, InRules, InSubs, RulesAt, SubsAt, Marking, Resolving

\* A thread that goes on to the next subscription.
LEMMA ToldShape ==
  ASSUME ThreadsInv, NEW t \in Threads, thread[t].job = "subscriptions"
  PROVE  /\ Told(t) \in ThreadType
         /\ Shape(t, Told(t)) /\ Told(t).job = "subscriptions" /\ Told(t).at = "list"
         /\ Told(t).todo = thread[t].todo /\ Told(t).item = None
         /\ Told(t).ok = thread[t].ok /\ Told(t).failed = thread[t].failed
         /\ thread[t].ok \in Nat /\ thread[t].failed \in Nat
<1>1. thread[t] \in ThreadType /\ InSubs(thread[t])
  BY DEF ThreadsInv, Shape
<1>2. Told(t) \in ThreadType
  <2> DEFINE at == [thread[t] EXCEPT !.at = "list"]
             item == [at EXCEPT !.item = None]
             tries == [item EXCEPT !.tries = 0]
  <2>1. at \in ThreadType
    BY <1>1 DEF ThreadType, SubsAt
  <2>2. item \in ThreadType
    BY <2>1 DEF ThreadType
  <2>3. tries \in ThreadType
    BY <2>2 DEF ThreadType
  <2>4. [tries EXCEPT !.text = FALSE] \in ThreadType
    BY <2>3 DEF ThreadType
  <2> QED
    BY <2>4 DEF Told
<1>3. /\ Told(t).job = "subscriptions" /\ Told(t).at = "list"
      /\ Told(t).todo = thread[t].todo /\ Told(t).item = None
      /\ Told(t).ok = thread[t].ok /\ Told(t).failed = thread[t].failed
      /\ Told(t).tries = 0
  BY <1>1 DEF Told, ThreadType
<1>4. thread[t].ok \in Nat /\ thread[t].failed \in Nat /\ thread[t].todo \subseteq Subs
  BY <1>1 DEF ThreadType, InSubs
<1> QED
  BY <1>2, <1>3, <1>4 DEF Shape, InSubs, SubsAt

\* The next rule set of an update, or none.
LEMMA NextRuleEffect ==
  ASSUME ThreadsInv, NEW t \in Threads, NextRule(t)
  PROVE  /\ thread[t].job = "rules" /\ thread'[t].job = "rules"
         /\ thread[t].at = "inside" /\ thread'[t].at \in {"mirror", "leave"}
         /\ thread'[t].overlapped = thread[t].overlapped
         /\ thread'[t].ok = thread[t].ok /\ thread'[t].failed = thread[t].failed
<1>1. \/ \E r : thread'[t] = [thread[t] EXCEPT !.at = "mirror", !.todo = @ \ {r}, !.item = r]
      \/ thread'[t] = [thread[t] EXCEPT !.at = "leave"]
  BY DEF NextRule, ThreadsInv
<1>2. thread[t] \in ThreadType /\ thread[t].job = "rules" /\ thread[t].at = "inside"
  BY DEF ThreadsInv, NextRule
<1> QED
  BY ONLY <1>1, <1>2 DEF ThreadType

\* Where the thread itself gets.
LEMMA ShapeKept ==
  ASSUME ThreadsInv, NEW t \in Threads, Begin(t) \/ Step(t)
  PROVE  thread'[t] \in ThreadType /\ Shape(t, thread'[t])
<1> USE DEF ThreadsInv, Shape, ThreadType, Resting, InRules, InSubs, RulesAt, SubsAt, Marking
<1>1. CASE SkipSubs(t)
  <2>1. thread'[t] = Idle
    BY <1>1 DEF SkipSubs
  <2> HIDE DEF ThreadType, Shape
  <2> QED
    BY ONLY <2>1, IdleShape
<1>2. CASE BeginSubs(t)
  <2>1. PICK at \in {"list", "raise"} : thread'[t] = [StartsSubs EXCEPT !.at = at]
    BY <1>2 DEF BeginSubs
  <2>2. thread'[t] = [job |-> "subscriptions", at |-> at, todo |-> Subs, item |-> None,
                      tries |-> 0, text |-> FALSE, overlapped |-> FALSE, ok |-> 0, failed |-> 0]
    BY <2>1 DEF StartsSubs, Idle
  <2>3. thread'[t] \in ThreadType
    BY ONLY <2>2 DEF ThreadType, SubsAt
  <2> QED
    BY ONLY <2>2, <2>3, UpdatesAssumption DEF Shape, InSubs, SubsAt
<1>3. CASE BeginRules(t)
  BY <1>3 DEF BeginRules, StartsRules, Idle
<1>4. CASE EnterBypass(t)
  BY <1>4 DEF EnterBypass
<1>5. CASE Entered(t)
  BY <1>5 DEF Entered
<1>6. CASE LeaveBypass(t)
  BY <1>6 DEF LeaveBypass, Overlapped
<1>7. CASE Left(t)
  BY <1>7 DEF Left, Overlapped
<1>8. CASE NextSub(t)
  BY <1>8 DEF NextSub
<1>9. CASE Direct(t)
  BY <1>9 DEF Direct, Tries
<1>10. CASE Proxied(t)
  BY <1>10 DEF Proxied, Tries
<1>11. CASE Store(t)
  <2>1. thread[t].job = "subscriptions"
    BY <1>11, JobOf DEF Store
  <2>2. CASE thread' = [thread EXCEPT ![t] = Told(t), ![t].ok = @ + 1]
    <3>1. thread'[t] = [Told(t) EXCEPT !.ok = thread[t].ok + 1]
      BY <2>2
    <3>2. /\ Told(t) \in ThreadType /\ Shape(t, Told(t)) /\ Told(t).job = "subscriptions"
          /\ thread[t].ok \in Nat /\ thread[t].failed \in Nat
      BY <2>1, ToldShape
    <3> QED
      BY ONLY <3>1, <3>2 DEF ThreadType, Shape, InSubs, SubsAt
  <2>3. CASE thread' = [thread EXCEPT ![t].at = "error"]
    BY <1>11, <2>1, <2>3 DEF Store
  <2> QED
    BY <1>11, <2>2, <2>3 DEF Store
<1>12. CASE StatusError(t)
  <2>1. thread[t].job = "subscriptions"
    BY <1>12, JobOf DEF StatusError
  <2>2. CASE thread' = [thread EXCEPT ![t] = Told(t), ![t].failed = @ + 1]
    <3>1. thread'[t] = [Told(t) EXCEPT !.failed = thread[t].failed + 1]
      BY <2>2
    <3>2. /\ Told(t) \in ThreadType /\ Shape(t, Told(t)) /\ Told(t).job = "subscriptions"
          /\ thread[t].ok \in Nat /\ thread[t].failed \in Nat
      BY <2>1, ToldShape
    <3> QED
      BY ONLY <3>1, <3>2 DEF ThreadType, Shape, InSubs, SubsAt
  <2>3. CASE thread' = [thread EXCEPT ![t].at = "raise"]
    BY <1>12, <2>1, <2>3 DEF StatusError
  <2> QED
    BY <1>12, <2>2, <2>3 DEF StatusError
<1>13. CASE FinishSubs(t)
  BY <1>13 DEF FinishSubs
<1>14. CASE Release(t)
  <2>1. thread'[t] = Idle
    BY <1>14 DEF Release
  <2> HIDE DEF ThreadType, Shape
  <2> QED
    BY ONLY <2>1, IdleShape
<1>15. CASE NextRule(t)
  <2>0. /\ thread[t] \in ThreadType /\ InRules(t, thread[t])
        /\ thread[t].job = "rules" /\ thread[t].at = "inside"
    BY <1>15 DEF NextRule
  <2>1. ASSUME NEW r \in thread[t].todo,
               thread'[t] = [thread[t] EXCEPT !.at = "mirror", !.todo = @ \ {r}, !.item = r]
        PROVE  thread'[t] \in ThreadType /\ Shape(t, thread'[t])
    <3>1. r \in RuleSets /\ thread[t].todo \subseteq RuleSets /\ thread[t].tries = 0
      BY <2>0, <2>1
    <3>2. thread'[t] \in ThreadType
      BY ONLY <2>0, <2>1, <3>1 DEF ThreadType, RulesAt, Marking, Items
    <3>3. Shape(t, thread'[t])
      BY ONLY <2>0, <2>1, <3>1, UpdatesAssumption DEF ThreadType, Shape, InRules, RulesAt, Marking
    <3> QED
      BY <3>2, <3>3
  <2>2. ASSUME thread'[t] = [thread[t] EXCEPT !.at = "leave"]
        PROVE  thread'[t] \in ThreadType /\ Shape(t, thread'[t])
    BY ONLY <2>0, <2>2 DEF ThreadType, Shape, InRules, RulesAt, Marking
  <2>3. \/ \E r \in thread[t].todo :
             thread'[t] = [thread[t] EXCEPT !.at = "mirror", !.todo = @ \ {r}, !.item = r]
        \/ thread'[t] = [thread[t] EXCEPT !.at = "leave"]
    BY <1>15 DEF NextRule
  <2> QED
    BY <2>1, <2>2, <2>3
<1>16. CASE Download(t)
  BY <1>16 DEF Download, Missed, RuleDone
<1>17. CASE Write(t)
  BY <1>17 DEF Write, Missed, RuleDone
<1>18. CASE Replace(t)
  BY <1>18 DEF Replace, Missed, RuleDone
<1>19. CASE FinishRules(t)
  BY <1>19 DEF FinishRules, Idle
<1> QED
  BY <1>1, <1>2, <1>3, <1>4, <1>5, <1>6, <1>7, <1>8, <1>9, <1>10, <1>11, <1>12, <1>13,
     <1>14, <1>15, <1>16, <1>17, <1>18, <1>19 DEF Begin, Step

\* What the other threads can see of the step: nothing but that history flag.
Same(old, new) ==
  /\ new.job = old.job /\ new.at = old.at /\ new.todo = old.todo /\ new.item = old.item
  /\ new.tries = old.tries /\ new.ok = old.ok /\ new.failed = old.failed
  /\ old.overlapped => new.overlapped

LEMMA SameShape ==
  ASSUME NEW t, NEW old \in ThreadType, NEW new,
         new = old \/ new = [old EXCEPT !.overlapped = TRUE]
  PROVE  new \in ThreadType /\ Same(old, new) /\ (Shape(t, old) => Shape(t, new))
<1>1. new \in ThreadType
  BY DEF ThreadType
<1>2. Same(old, new)
  <2>1. /\ new.job = old.job /\ new.at = old.at /\ new.todo = old.todo /\ new.item = old.item
        /\ new.tries = old.tries /\ new.ok = old.ok /\ new.failed = old.failed
    BY DEF ThreadType
  <2>2. old.overlapped => new.overlapped
    BY DEF ThreadType
  <2> QED
    BY <2>1, <2>2 DEF Same
<1>3. Shape(t, old) => Shape(t, new)
  BY <1>2 DEF Same, Shape, Resting, InRules, InSubs
<1> QED
  BY <1>1, <1>2, <1>3

LEMMA ThreadsInvKept ==
  ASSUME ThreadsInv, NEW t \in Threads, Begin(t) \/ Step(t)
  PROVE  /\ ThreadsInv'
         /\ \A u \in Threads \ {t} : Same(thread[u], thread'[u])
<1>1. ASSUME NEW u \in Threads
      PROVE  /\ thread'[u] \in ThreadType /\ Shape(u, thread'[u])
             /\ u # t => Same(thread[u], thread'[u])
  <2>1. CASE u = t
    BY <2>1, ShapeKept
  <2>2. CASE u # t
    <3>1. thread[u] \in ThreadType /\ Shape(u, thread[u])
      BY DEF ThreadsInv
    <3>2. thread'[u] = thread[u] \/ thread'[u] = [thread[u] EXCEPT !.overlapped = TRUE]
      BY <2>2, OthersKept
    <3> QED
      BY <3>1, <3>2, SameShape
  <2> QED
    BY <2>1, <2>2
<1>2. thread' = [u \in Threads |-> thread'[u]]
  <2>1. DOMAIN thread' = Threads
    BY OthersKept
  <2>2. \/ At(t, "leave") \/ At(t, "left")
        \/ thread' = [thread EXCEPT ![t] = thread'[t]]
    BY OthersKept
  <2>3. CASE thread' = [thread EXCEPT ![t] = thread'[t]]
    BY <2>3 DEF ThreadsInv
  <2>4. CASE At(t, "leave") \/ At(t, "left")
    <3>1. LeaveBypass(t) \/ Left(t)
      BY <2>4, JobOf DEF ThreadsInv, Begin, Step, SkipSubs, BeginSubs, SubsDue, BeginRules,
         EnterBypass, Entered, NextSub, Direct, Proxied, Store, StatusError, FinishSubs,
         Release, NextRule, Download, Write, Replace, FinishRules
    <3> QED
      BY <3>1 DEF LeaveBypass, Left, Overlapped, ThreadsInv
  <2> QED
    BY <2>2, <2>3, <2>4
<1> QED
  BY <1>1, <1>2 DEF ThreadsInv

-----------------------------------------------------------------------------
(* What a step does to the variables the threads share.                     *)

LEMMA SharedInvKept ==
  ASSUME ThreadsInv, SharedInv, NEW t \in Threads, Begin(t) \/ Step(t)
  PROVE  SharedInv'
<1> USE DEF SharedInv, ThreadsInv, Shape
<1>1. CASE SkipSubs(t) \/ BeginSubs(t) \/ BeginRules(t)
  BY <1>1 DEF SkipSubs, BeginSubs, BeginRules
<1>2. CASE EnterBypass(t) \/ Entered(t) \/ LeaveBypass(t) \/ Left(t) \/ NextSub(t)
           \/ Direct(t) \/ Proxied(t) \/ NextRule(t)
  BY <1>2 DEF EnterBypass, Entered, LeaveBypass, Left, NextSub, Direct, Proxied, NextRule
<1>3. CASE Store(t) \/ StatusError(t) \/ FinishSubs(t) \/ Release(t) \/ FinishRules(t)
  BY <1>3 DEF Store, StatusError, FinishSubs, Release, FinishRules
<1>4. CASE Download(t) \/ Write(t) \/ Replace(t)
  <2>1. thread[t].item \in RuleSets
    BY <1>4, JobOf DEF Download, Write, Replace, InRules
  <2>2. \/ UNCHANGED <<tmp, dest>>
        \/ \E state \in {"none", "part", "whole"} :
             tmp' = [tmp EXCEPT ![thread[t].item] = state] /\ UNCHANGED dest
        \/ /\ tmp' = [tmp EXCEPT ![thread[t].item] = "none"]
           /\ dest' = [dest EXCEPT ![thread[t].item] = tmp[thread[t].item]]
    BY <1>4 DEF Download, Write, Replace, files
  <2>3. UNCHANGED <<sockets, resolver, lock, status, told>>
    BY <1>4 DEF Download, Write, Replace
  <2> QED
    BY <2>1, <2>2, <2>3
<1> QED
  BY <1>1, <1>2, <1>3, <1>4 DEF Begin, Step

\* When a job begins, ends, or goes on.
LEMMA JobChanges ==
  ASSUME ThreadsInv, NEW t \in Threads, Begin(t) \/ Step(t)
  PROVE  \/ thread'[t].job = thread[t].job /\ UNCHANGED lock
         \/ SkipSubs(t) /\ thread[t].job # "subscriptions" /\ thread'[t].job = "none"
            /\ UNCHANGED lock
         \/ BeginSubs(t) /\ thread'[t].job = "subscriptions"
         \/ Release(t) /\ thread[t].job = "subscriptions" /\ thread'[t].job = "none"
         \/ BeginRules(t) /\ thread'[t].job = "rules" /\ UNCHANGED lock
         \/ FinishRules(t) /\ thread'[t].job = "none" /\ UNCHANGED lock
<1> USE DEF ThreadsInv, ThreadType
<1>1. CASE SkipSubs(t)
  BY <1>1, IdleShape DEF SkipSubs, SubsDue, Shape, InSubs, SubsAt
<1>2. CASE BeginSubs(t)
  <2>1. PICK at : thread'[t] = [StartsSubs EXCEPT !.at = at]
    BY <1>2 DEF BeginSubs
  <2> QED
    BY ONLY <1>2, <2>1 DEF StartsSubs, Idle
<1>3. CASE BeginRules(t)
  BY <1>3 DEF BeginRules, StartsRules, Idle
<1>4. CASE EnterBypass(t) \/ Entered(t) \/ FinishSubs(t)
  BY <1>4 DEF EnterBypass, Entered, FinishSubs
<1>5. CASE LeaveBypass(t) \/ Left(t)
  BY <1>5 DEF LeaveBypass, Left, Overlapped
<1>6. CASE NextSub(t)
  BY <1>6 DEF NextSub
<1>7. CASE Direct(t)
  BY <1>7 DEF Direct, Tries
<1>8. CASE Proxied(t)
  BY <1>8 DEF Proxied, Tries
<1>9. CASE Store(t)
  BY <1>9, JobOf, ToldShape DEF Store
<1>10. CASE StatusError(t)
  BY <1>10, JobOf, ToldShape DEF StatusError
<1>11. CASE Release(t)
  BY <1>11, JobOf, IdleShape DEF Release
<1>12. CASE NextRule(t)
  BY <1>12, NextRuleEffect DEF NextRule
<1>13. CASE Download(t)
  BY <1>13 DEF Download, Missed, RuleDone
<1>14. CASE Write(t)
  BY <1>14 DEF Write, Missed, RuleDone
<1>15. CASE Replace(t)
  BY <1>15 DEF Replace, Missed, RuleDone
<1>16. CASE FinishRules(t)
  BY <1>16, IdleShape DEF FinishRules
<1> QED
  BY <1>1, <1>2, <1>3, <1>4, <1>5, <1>6, <1>7, <1>8, <1>9, <1>10, <1>11, <1>12, <1>13,
     <1>14, <1>15, <1>16 DEF Begin, Step

LEMMA OneEachKept ==
  ASSUME ThreadsInv, SharedInv, OneEach, NEW t \in Threads, Begin(t) \/ Step(t)
  PROVE  OneEach'
<1>1. \A u \in Threads \ {t} : thread'[u].job = thread[u].job
  BY ThreadsInvKept DEF Same
<1> USE <1>1 DEF OneEach, Threads
<1>2. CASE thread'[t].job = thread[t].job /\ UNCHANGED lock
  BY <1>2
<1>3. CASE /\ SkipSubs(t) \/ FinishRules(t)
           /\ thread[t].job # "subscriptions" /\ thread'[t].job = "none" /\ UNCHANGED lock
  BY <1>3
<1>4. CASE BeginSubs(t) /\ thread'[t].job = "subscriptions"
  BY <1>4 DEF BeginSubs
<1>5. CASE Release(t) /\ thread[t].job = "subscriptions" /\ thread'[t].job = "none"
  BY <1>5 DEF Release
<1>6. CASE BeginRules(t) /\ thread'[t].job = "rules" /\ UNCHANGED lock
  BY <1>6 DEF BeginRules, ThreadsInv, ThreadType, Shape, InSubs, SubsAt
<1> QED
  BY <1>2, <1>3, <1>4, <1>5, <1>6, JobChanges DEF FinishRules

\* Without an update of a kind its status does not say "running".
LEMMA StatusInvKept ==
  ASSUME ThreadsInv, SharedInv, OneEach, StatusInv, NEW t \in Threads, Begin(t) \/ Step(t)
  PROVE  StatusInv'
<1>0. \A u \in Threads \ {t} : thread'[u].job = thread[u].job /\ thread'[u].at = thread[u].at
  BY ThreadsInvKept DEF Same
<1>1. CASE SkipSubs(t)
  <2>1. status'["subscriptions"] = "skipped" /\ status'["rules"] = status["rules"]
    BY <1>1 DEF SkipSubs, SharedInv
  <2>2. t # "rules"
    BY <1>1, JobOf DEF SkipSubs, SubsDue, ThreadsInv, Shape, InRules
  <2> QED
    BY <1>0, <2>1, <2>2 DEF StatusInv, Threads
<1>2. CASE BeginSubs(t)
  <2>1. thread'[t].job = "subscriptions" /\ thread'[t].at # "release"
    <3>1. PICK at \in {"list", "raise"} : thread'[t] = [StartsSubs EXCEPT !.at = at]
      BY <1>2 DEF BeginSubs, ThreadsInv
    <3> QED
      BY ONLY <3>1 DEF StartsSubs, Idle
  <2>2. t # "rules"
    BY <1>2, JobOf DEF BeginSubs, SubsDue, ThreadsInv, Shape, InRules
  <2>3. status'["rules"] = status["rules"]
    BY <1>2 DEF BeginSubs, SharedInv
  <2> QED
    BY <1>0, <2>1, <2>2, <2>3 DEF StatusInv, Threads
<1>3. CASE BeginRules(t)
  <2>1. /\ t = "rules" /\ thread'[t].job = "rules"
        /\ status'["subscriptions"] = status["subscriptions"]
    BY <1>3 DEF BeginRules, ThreadsInv, SharedInv, StartsRules, Idle
  <2>2. thread[t].job # "subscriptions"
    BY <1>3 DEF BeginRules, ThreadsInv, Shape, InSubs, SubsAt
  <2> QED
    BY <1>0, <2>1, <2>2 DEF StatusInv
<1>4. CASE FinishSubs(t)
  <2>1. status'["subscriptions"] # "running" /\ status'["rules"] = status["rules"]
    BY <1>4 DEF FinishSubs, SharedInv
  <2>2. thread'[t].job = thread[t].job
    BY <1>4 DEF FinishSubs, ThreadsInv, ThreadType
  <2> QED
    BY <1>0, <2>1, <2>2 DEF StatusInv, Threads
<1>5. CASE FinishRules(t)
  <2>1. status'["rules"] # "running" /\ status'["subscriptions"] = status["subscriptions"]
    BY <1>5 DEF FinishRules, SharedInv
  <2>2. thread[t].job # "subscriptions"
    BY <1>5 DEF FinishRules
  <2> QED
    BY <1>0, <2>1, <2>2 DEF StatusInv
<1>6. CASE Release(t)
  <2>1. thread[t].at = "release" /\ thread[t].job = "subscriptions" /\ UNCHANGED status
    BY <1>6, JobOf DEF Release
  <2>2. status["subscriptions"] # "running"
    BY <2>1 DEF StatusInv, OneEach
  <2>3. t # "rules" \/ thread[t].job # "rules"
    BY <2>1
  <2> QED
    BY <1>0, <2>1, <2>2, <2>3 DEF StatusInv, Threads
<1>7. ASSUME ~SkipSubs(t), ~BeginSubs(t), ~BeginRules(t), ~FinishSubs(t), ~FinishRules(t),
             ~Release(t)
      PROVE  StatusInv'
  <2>1. thread'[t].job = thread[t].job
    BY <1>7, JobChanges
  <2>2. UNCHANGED status
    BY <1>7 DEF Begin, Step, EnterBypass, Entered, LeaveBypass, Left, NextSub, Direct, Proxied,
       Store, StatusError, NextRule, Download, Write, Replace
  <2>3. thread'[t].at = "release" => thread[t].at = "release"
    <3> USE DEF ThreadsInv, ThreadType
    <3>1. CASE EnterBypass(t) \/ Entered(t)
      BY <3>1 DEF EnterBypass, Entered
    <3>2. CASE LeaveBypass(t) \/ Left(t)
      BY <3>2 DEF LeaveBypass, Left, Overlapped
    <3>3. CASE NextSub(t)
      BY <3>3 DEF NextSub
    <3>4. CASE Direct(t)
      BY <3>4 DEF Direct, Tries
    <3>5. CASE Proxied(t)
      BY <3>5 DEF Proxied, Tries
    <3>6. CASE Store(t)
      BY <3>6, JobOf, ToldShape DEF Store
    <3>7. CASE StatusError(t)
      BY <3>7, JobOf, ToldShape DEF StatusError
    <3>8. CASE NextRule(t)
      BY <3>8 DEF NextRule
    <3>9. CASE Download(t)
      BY <3>9 DEF Download, Missed, RuleDone
    <3>10. CASE Write(t)
      BY <3>10 DEF Write, Missed, RuleDone
    <3>11. CASE Replace(t)
      BY <3>11 DEF Replace, Missed, RuleDone
    <3> QED
      BY <1>7, <3>1, <3>2, <3>3, <3>4, <3>5, <3>6, <3>7, <3>8, <3>9, <3>10, <3>11
         DEF Begin, Step
  <2> QED
    BY <1>0, <2>1, <2>2, <2>3 DEF StatusInv, Threads
<1> QED
  BY <1>1, <1>2, <1>3, <1>4, <1>5, <1>6, <1>7

-----------------------------------------------------------------------------
(* The patch of sockets and names.                                          *)

InPatch == {"inside", "mirror", "write", "replace", "leave"}

\* Apart from entering and leaving, a step neither patches the process nor
\* takes the thread in or out.
LEMMA PatchUntouched ==
  ASSUME ThreadsInv, NEW t \in Threads, Begin(t) \/ Step(t),
         ~EnterBypass(t), ~Entered(t), ~LeaveBypass(t), ~Left(t)
  PROVE  /\ UNCHANGED <<sockets, resolver>>
         /\ thread[t].at \in InPatch <=> thread'[t].at \in InPatch
         /\ thread[t].at \notin {"enter", "left"} /\ thread'[t].at \notin {"enter", "left"}
         /\ thread[t].at \in InPatch => thread'[t].overlapped = thread[t].overlapped
<1>0. UNCHANGED <<sockets, resolver>>
  BY DEF Begin, Step, SkipSubs, BeginSubs, BeginRules, NextSub, Direct, Proxied, Store,
     StatusError, FinishSubs, Release, NextRule, Download, Write, Replace, FinishRules
<1> USE <1>0 DEF ThreadsInv, ThreadType, InPatch
<1>1. CASE SkipSubs(t)
  BY <1>1, IdleShape DEF SkipSubs, SubsDue
<1>2. CASE BeginSubs(t)
  <2>1. PICK at \in {"list", "raise"} : thread'[t] = [StartsSubs EXCEPT !.at = at]
    BY <1>2 DEF BeginSubs
  <2>2. thread'[t].at = at
    BY ONLY <2>1 DEF StartsSubs, Idle
  <2> QED
    BY <1>2, <2>2 DEF BeginSubs, SubsDue
<1>3. CASE BeginRules(t)
  BY <1>3 DEF BeginRules, StartsRules, Idle
<1>4. CASE NextSub(t)
  BY <1>4 DEF NextSub
<1>5. CASE Direct(t)
  BY <1>5 DEF Direct, Tries
<1>6. CASE Proxied(t)
  BY <1>6 DEF Proxied, Tries
<1>7. CASE Store(t)
  BY <1>7, JobOf, ToldShape DEF Store
<1>8. CASE StatusError(t)
  BY <1>8, JobOf, ToldShape DEF StatusError
<1>9. CASE FinishSubs(t)
  BY <1>9 DEF FinishSubs
<1>10. CASE Release(t)
  BY <1>10, IdleShape DEF Release
<1>11. CASE NextRule(t)
  BY <1>11, NextRuleEffect DEF NextRule
<1>12. CASE Download(t)
  BY <1>12 DEF Download, Missed, RuleDone
<1>13. CASE Write(t)
  BY <1>13 DEF Write, Missed, RuleDone
<1>14. CASE Replace(t)
  BY <1>14 DEF Replace, Missed, RuleDone
<1>15. CASE FinishRules(t)
  BY <1>15, IdleShape DEF FinishRules
<1> QED
  BY <1>1, <1>2, <1>3, <1>4, <1>5, <1>6, <1>7, <1>8, <1>9, <1>10, <1>11, <1>12, <1>13,
     <1>14, <1>15 DEF Begin, Step

LEMMA PatchKept ==
  ASSUME ThreadsInv, PatchInv, BypassInv, NEW t \in Threads, Begin(t) \/ Step(t)
  PROVE  PatchInv' /\ BypassInv'
<1>0. \A u \in Threads \ {t} : Same(thread[u], thread'[u])
  BY ThreadsInvKept
<1> USE DEF PatchInv, BypassInv, Marking, Resolving, InPatch, Same
<1>1. CASE EnterBypass(t)
  <2>1. thread'[t].at = "enter" /\ thread[t].at = "bypass" /\ sockets' = "marked" /\ UNCHANGED resolver
    BY <1>1 DEF EnterBypass, ThreadsInv, ThreadType
  <2> QED
    BY <1>0, <2>1
<1>2. CASE Entered(t)
  <2>1. /\ thread'[t].at = "inside" /\ thread[t].at = "enter"
        /\ thread'[t].overlapped = thread[t].overlapped
        /\ resolver' = "patched" /\ UNCHANGED sockets
    BY <1>2 DEF Entered, ThreadsInv, ThreadType
  <2> QED
    BY <1>0, <2>1
<1>3. CASE LeaveBypass(t)
  <2>1. /\ thread[t].at = "leave" /\ thread'[t].at = "left"
        /\ sockets' = "real" /\ UNCHANGED resolver
    BY <1>3 DEF LeaveBypass, Overlapped, ThreadsInv, ThreadType
  <2>2. \A u \in Threads \ {t} : InBypass(u) => thread'[u].overlapped
    BY <1>3 DEF LeaveBypass, Overlapped, ThreadsInv, ThreadType
  <2> QED
    BY <1>0, <2>1, <2>2 DEF InBypass
<1>4. CASE Left(t)
  <2>1. /\ thread[t].at = "left" /\ thread'[t].at \in {"due", "apply", "store", "proxy"}
        /\ resolver' = "real" /\ UNCHANGED sockets
    BY <1>4 DEF Left, Overlapped, ThreadsInv, ThreadType
  <2>2. \A u \in Threads \ {t} : InBypass(u) => thread'[u].overlapped
    BY <1>4 DEF Left, Overlapped, ThreadsInv, ThreadType
  <2> QED
    BY <1>0, <2>1, <2>2 DEF InBypass
<1>5. CASE ~EnterBypass(t) /\ ~Entered(t) /\ ~LeaveBypass(t) /\ ~Left(t)
  <2>1. /\ UNCHANGED <<sockets, resolver>>
        /\ thread[t].at \in InPatch <=> thread'[t].at \in InPatch
        /\ thread[t].at \notin {"enter", "left"} /\ thread'[t].at \notin {"enter", "left"}
        /\ thread[t].at \in InPatch => thread'[t].overlapped = thread[t].overlapped
    BY <1>5, PatchUntouched
  <2> QED
    BY <1>0, <2>1
<1> QED
  BY <1>1, <1>2, <1>3, <1>4, <1>5

-----------------------------------------------------------------------------
(* The files of the rule sets.                                              *)

\* Only a complete write brings a thread to the point where it replaces.
LEMMA ReplaceFromWrite ==
  ASSUME ThreadsInv, NEW t \in Threads, Begin(t) \/ Step(t), ~Write(t)
  PROVE  thread'[t].at # "replace"
<1> USE DEF ThreadsInv, ThreadType
<1>1. CASE EnterBypass(t) \/ Entered(t) \/ FinishSubs(t)
  BY <1>1 DEF EnterBypass, Entered, FinishSubs
<1>2. CASE LeaveBypass(t) \/ Left(t)
  BY <1>2 DEF LeaveBypass, Left, Overlapped
<1>3. CASE BeginRules(t)
  BY <1>3 DEF BeginRules, StartsRules, Idle
<1>4. CASE SkipSubs(t) \/ Release(t) \/ FinishRules(t)
  BY <1>4, IdleShape DEF SkipSubs, Release, FinishRules
<1>5. CASE BeginSubs(t)
  <2>1. PICK at \in {"list", "raise"} : thread'[t] = [StartsSubs EXCEPT !.at = at]
    BY <1>5 DEF BeginSubs
  <2> QED
    BY ONLY <2>1 DEF StartsSubs, Idle
<1>6. CASE NextSub(t)
  BY <1>6 DEF NextSub
<1>7. CASE Direct(t)
  BY <1>7 DEF Direct, Tries
<1>8. CASE Proxied(t)
  BY <1>8 DEF Proxied, Tries
<1>9. CASE Store(t)
  BY <1>9, JobOf, ToldShape DEF Store
<1>10. CASE StatusError(t)
  BY <1>10, JobOf, ToldShape DEF StatusError
<1>11. CASE NextRule(t)
  BY <1>11, NextRuleEffect
<1>12. CASE Download(t)
  BY <1>12 DEF Download, Missed, RuleDone
<1>13. CASE Replace(t)
  BY <1>13 DEF Replace, Missed, RuleDone
<1> QED
  BY <1>1, <1>2, <1>3, <1>4, <1>5, <1>6, <1>7, <1>8, <1>9, <1>10, <1>11, <1>12, <1>13
     DEF Begin, Step

LEMMA FilesKept ==
  ASSUME ThreadsInv, SharedInv, OneEach, FilesInv, NEW t \in Threads, Begin(t) \/ Step(t)
  PROVE  /\ FilesInv'
         /\ \A r \in RuleSets : dest'[r] # dest[r] => dest'[r] = "whole"
<1>1. \A u \in Threads \ {t} : Same(thread[u], thread'[u])
  BY ThreadsInvKept
<1>2. CASE ~Download(t) /\ ~Write(t) /\ ~Replace(t)
  <2>1. UNCHANGED <<tmp, dest>>
    BY <1>2 DEF Begin, Step, SkipSubs, BeginSubs, BeginRules, EnterBypass, Entered, LeaveBypass,
       Left, NextSub, Direct, Proxied, Store, StatusError, FinishSubs, Release, NextRule,
       FinishRules
  <2>2. thread'[t].at # "replace"
    BY <1>2, ReplaceFromWrite
  <2> QED
    BY <1>1, <2>1, <2>2 DEF FilesInv, Same
<1>3. CASE Download(t) \/ Write(t) \/ Replace(t)
  <2>1. thread[t].job = "rules" /\ thread[t].item \in RuleSets /\ t \in {"boot", "rules"}
    BY <1>3, JobOf DEF Download, Write, Replace, ThreadsInv, Shape, InRules
  <2>2. \A u \in Threads \ {t} : thread'[u].at # "replace"
    BY <1>1, <2>1, JobOf DEF Same, ThreadsInv, Shape, InRules, OneEach, Threads
  <2>3. thread'[t].at = "replace" => tmp'[thread'[t].item] = "whole"
    <3>1. CASE Write(t)
      BY <3>1, <2>1 DEF Write, Missed, RuleDone, ThreadsInv, ThreadType, SharedInv
    <3> QED
      BY <1>3, <3>1, ReplaceFromWrite
  <2>4. \A r \in RuleSets : dest'[r] # dest[r] => dest'[r] = "whole"
    <3>1. CASE Replace(t)
      BY <3>1, <2>1 DEF Replace, FilesInv, SharedInv, files
    <3> QED
      BY <1>3, <3>1 DEF Download, Write
  <2> QED
    BY <2>2, <2>3, <2>4 DEF FilesInv
<1> QED
  BY <1>2, <1>3

-----------------------------------------------------------------------------
(* The summary of an update.                                                *)

\* After a subscription's outcome is in the table, it is dealt with.
LEMMA SummaryAfter ==
  ASSUME SharedInv, NEW th, NEW new, NEW outcome \in {"ok", "error"},
         Summary(th), th.todo \subseteq Subs, th.item \in Subs \ th.todo,
         new.todo = th.todo, new.item = None,
         told' = [told EXCEPT ![th.item] = outcome],
         new.ok = th.ok + (IF outcome = "ok" THEN 1 ELSE 0),
         new.failed = th.failed + (IF outcome = "ok" THEN 0 ELSE 1)
  PROVE  /\ new.ok = Cardinality({s \in Dealt(new) : told'[s] = "ok"})
         /\ new.failed = Cardinality({s \in Dealt(new) : told'[s] # "ok"})
<1> DEFINE D == Dealt(th)
           s == th.item
           good == {x \in D : told[x] = "ok"}
           bad == {x \in D : told[x] # "ok"}
<1>1. D \subseteq Subs /\ s \in Subs \ D /\ Dealt(new) = D \cup {s}
  BY DEF Dealt
<1>2. told'[s] = outcome /\ \A x \in D : told'[x] = told[x]
  BY <1>1 DEF SharedInv
<1>3. th.ok = Cardinality(good) /\ th.failed = Cardinality(bad)
  BY DEF Summary
<1>4. /\ IsFiniteSet(good) /\ Cardinality(good) \in Nat /\ s \notin good
      /\ IsFiniteSet(bad) /\ Cardinality(bad) \in Nat /\ s \notin bad
  <2>1. good \subseteq Subs /\ bad \subseteq Subs
    BY <1>1
  <2> HIDE DEF good, bad
  <2>2. IsFiniteSet(good) /\ IsFiniteSet(bad)
    BY <2>1, FS_Subset
  <2> QED
    BY <1>1, <2>2, FS_CardinalityType DEF good, bad
<1>5. CASE outcome = "ok"
  <2>1. /\ {x \in Dealt(new) : told'[x] = "ok"} = good \cup {s}
        /\ {x \in Dealt(new) : told'[x] # "ok"} = bad
    BY <1>1, <1>2, <1>5
  <2>2. Cardinality(good \cup {s}) = Cardinality(good) + 1
    BY <1>4, FS_AddElement
  <2> HIDE DEF good, bad
  <2> QED
    BY <1>3, <1>4, <1>5, <2>1, <2>2
<1>6. CASE outcome = "error"
  <2>1. /\ {x \in Dealt(new) : told'[x] = "ok"} = good
        /\ {x \in Dealt(new) : told'[x] # "ok"} = bad \cup {s}
    BY <1>1, <1>2, <1>6
  <2>2. Cardinality(bad \cup {s}) = Cardinality(bad) + 1
    BY <1>4, FS_AddElement
  <2>3. new.ok = Cardinality(good)
    BY <1>3, <1>4, <1>6
  <2>4. new.failed = Cardinality(bad) + 1
    BY <1>3, <1>6
  <2> QED
    BY <2>1, <2>2, <2>3, <2>4
<1> QED
  BY <1>5, <1>6

\* A step between two outcomes keeps the summary.
LEMMA TaskKept ==
  ASSUME ThreadsInv, NEW t \in Threads,
         \/ EnterBypass(t) \/ Entered(t) \/ LeaveBypass(t) \/ Left(t)
         \/ Direct(t) \/ Proxied(t) \/ FinishSubs(t)
  PROVE  /\ thread'[t].job = thread[t].job /\ thread'[t].todo = thread[t].todo
         /\ thread'[t].item = thread[t].item
         /\ thread'[t].ok = thread[t].ok /\ thread'[t].failed = thread[t].failed
         /\ UNCHANGED told
<1> USE DEF ThreadsInv, ThreadType
<1>1. CASE EnterBypass(t) \/ Entered(t) \/ FinishSubs(t)
  BY <1>1 DEF EnterBypass, Entered, FinishSubs
<1>2. CASE LeaveBypass(t) \/ Left(t)
  BY <1>2 DEF LeaveBypass, Left, Overlapped
<1>3. CASE Direct(t)
  BY <1>3 DEF Direct, Tries
<1>4. CASE Proxied(t)
  BY <1>4 DEF Proxied, Tries
<1> QED
  BY <1>1, <1>2, <1>3, <1>4

\* An update of the rule sets, and a thread that begins or ends one, counts
\* nothing.
LEMMA RulesCountNothing ==
  ASSUME ThreadsInv, SummaryInv, NEW t \in Threads,
         \/ SkipSubs(t) \/ BeginRules(t) \/ Release(t) \/ FinishRules(t)
         \/ NextRule(t) \/ Download(t) \/ Write(t) \/ Replace(t)
  PROVE  /\ thread'[t].job # "subscriptions"
         /\ thread'[t].ok = 0 /\ thread'[t].failed = 0
         /\ UNCHANGED told
<1> USE DEF ThreadsInv, ThreadType
<1>1. CASE SkipSubs(t) \/ Release(t) \/ FinishRules(t)
  BY <1>1, IdleShape DEF SkipSubs, Release, FinishRules
<1>2. CASE BeginRules(t)
  BY <1>2 DEF BeginRules, StartsRules, Idle
<1>3. CASE NextRule(t)
  BY <1>3, NextRuleEffect DEF NextRule, SummaryInv
<1>4. CASE Download(t) \/ Write(t) \/ Replace(t)
  <2>1. thread[t].job = "rules"
    BY <1>4, JobOf DEF Download, Write, Replace
  <2>2. thread[t].ok = 0 /\ thread[t].failed = 0
    BY <2>1 DEF SummaryInv
  <2>3. CASE Download(t)
    BY <2>1, <2>2, <2>3 DEF Download, Missed, RuleDone
  <2>4. CASE Write(t)
    BY <2>1, <2>2, <2>4 DEF Write, Missed, RuleDone
  <2>5. CASE Replace(t)
    BY <2>1, <2>2, <2>5 DEF Replace, Missed, RuleDone
  <2> QED
    BY <1>4, <2>3, <2>4, <2>5
<1> QED
  BY <1>1, <1>2, <1>3, <1>4

LEMMA SummaryKept ==
  ASSUME ThreadsInv, SharedInv, OneEach, SummaryInv, NEW t \in Threads, Begin(t) \/ Step(t)
  PROVE  SummaryInv'
<1>1. \A u \in Threads \ {t} : Same(thread[u], thread'[u])
  BY ThreadsInvKept
<1>2. UNCHANGED told \/ thread[t].job = "subscriptions"
  BY JobOf DEF Begin, Step, SkipSubs, BeginSubs, BeginRules, EnterBypass, Entered, LeaveBypass,
     Left, NextSub, Direct, Proxied, Store, StatusError, FinishSubs, Release, NextRule,
     Download, Write, Replace, FinishRules
<1>3. ASSUME NEW u \in Threads \ {t}
      PROVE  IF thread'[u].job = "subscriptions" THEN Summary(thread[u])'
             ELSE thread'[u].ok = 0 /\ thread'[u].failed = 0
  <2>1. CASE thread[u].job = "subscriptions"
    <3>1. UNCHANGED told
      BY <1>2, <2>1 DEF OneEach
    <3>2. Summary(thread[u])
      BY <2>1 DEF SummaryInv
    <3> QED
      BY <1>1, <2>1, <3>1, <3>2 DEF Summary, Dealt, Same
  <2>2. CASE thread[u].job # "subscriptions"
    BY <1>1, <2>2 DEF SummaryInv, Same
  <2> QED
    BY <2>1, <2>2
<1>4. IF thread'[t].job = "subscriptions" THEN Summary(thread[t])'
      ELSE thread'[t].ok = 0 /\ thread'[t].failed = 0
  <2>1. CASE \/ EnterBypass(t) \/ Entered(t) \/ LeaveBypass(t) \/ Left(t)
             \/ Direct(t) \/ Proxied(t) \/ FinishSubs(t)
    BY <2>1, TaskKept DEF SummaryInv, Summary, Dealt
  <2>2. CASE \/ SkipSubs(t) \/ BeginRules(t) \/ Release(t) \/ FinishRules(t)
             \/ NextRule(t) \/ Download(t) \/ Write(t) \/ Replace(t)
    BY <2>2, RulesCountNothing
  <2>3. CASE BeginSubs(t)
    <3>1. PICK at : thread'[t] = [StartsSubs EXCEPT !.at = at]
      BY <2>3 DEF BeginSubs, ThreadsInv
    <3>2. /\ thread'[t].job = "subscriptions" /\ thread'[t].todo = Subs
          /\ thread'[t].ok = 0 /\ thread'[t].failed = 0
      BY ONLY <3>1 DEF StartsSubs, Idle
    <3>3. Dealt(thread'[t]) = {}
      BY <3>2 DEF Dealt
    <3> QED
      BY <3>2, <3>3, FS_EmptySet DEF Summary, Dealt
  <2>4. CASE NextSub(t)
    <3>0. thread[t].job = "subscriptions" /\ thread[t].item = None /\ thread[t].todo \subseteq Subs
      BY <2>4, JobOf DEF NextSub, ThreadsInv, Shape, InSubs
    <3>1. PICK s \in thread[t].todo :
            thread' = [thread EXCEPT ![t].at = "bypass", ![t].todo = @ \ {s}, ![t].item = s]
      BY <2>4 DEF NextSub
    <3>2. /\ thread'[t].job = "subscriptions"
          /\ thread'[t].todo = thread[t].todo \ {s} /\ thread'[t].item = s
          /\ thread'[t].ok = thread[t].ok /\ thread'[t].failed = thread[t].failed
      BY <3>0, <3>1 DEF ThreadsInv, ThreadType
    <3>3. Dealt(thread'[t]) = Dealt(thread[t])
      BY <3>0, <3>2 DEF Dealt
    <3>4. Summary(thread[t]) /\ UNCHANGED told
      BY <2>4, <3>0 DEF SummaryInv, NextSub
    <3> QED
      BY <3>2, <3>3, <3>4 DEF Summary, Dealt
  <2>5. CASE Store(t) \/ StatusError(t)
    <3>0. /\ thread[t].job = "subscriptions" /\ thread[t].todo \subseteq Subs
          /\ thread[t].item \in Subs \ thread[t].todo /\ Summary(thread[t])
      BY <2>5, JobOf DEF Store, StatusError, ThreadsInv, Shape, InSubs, SummaryInv
    <3>1. CASE (Goes(t, "error") \/ Goes(t, "raise")) /\ UNCHANGED told
      <4>1. PICK at : thread'[t] = [thread[t] EXCEPT !.at = at]
        BY <3>1 DEF ThreadsInv
      <4>2. /\ thread'[t].job = thread[t].job /\ thread'[t].todo = thread[t].todo
            /\ thread'[t].item = thread[t].item
            /\ thread'[t].ok = thread[t].ok /\ thread'[t].failed = thread[t].failed
        BY <4>1 DEF ThreadsInv, ThreadType
      <4> QED
        BY <3>0, <3>1, <4>2 DEF Summary, Dealt
    <3>2. CASE /\ told' = [told EXCEPT ![thread[t].item] = "ok"]
               /\ thread' = [thread EXCEPT ![t] = Told(t), ![t].ok = @ + 1]
      <4>1. thread'[t] = [Told(t) EXCEPT !.ok = thread[t].ok + 1]
        BY <3>2 DEF ThreadsInv
      <4>2. /\ thread'[t].job = "subscriptions" /\ thread'[t].todo = thread[t].todo
            /\ thread'[t].item = None
            /\ thread'[t].ok = thread[t].ok + 1 /\ thread'[t].failed = thread[t].failed + 0
        BY <3>0, <4>1, ToldShape DEF ThreadType
      <4> QED
        BY <3>0, <3>2, <4>2, SummaryAfter DEF Summary, Dealt
    <3>3. CASE /\ told' = [told EXCEPT ![thread[t].item] = "error"]
               /\ thread' = [thread EXCEPT ![t] = Told(t), ![t].failed = @ + 1]
      <4>1. thread'[t] = [Told(t) EXCEPT !.failed = thread[t].failed + 1]
        BY <3>3 DEF ThreadsInv
      <4>2. /\ thread'[t].job = "subscriptions" /\ thread'[t].todo = thread[t].todo
            /\ thread'[t].item = None
            /\ thread'[t].ok = thread[t].ok + 0 /\ thread'[t].failed = thread[t].failed + 1
        BY <3>0, <4>1, ToldShape DEF ThreadType
      <4> QED
        BY <3>0, <3>3, <4>2, SummaryAfter DEF Summary, Dealt
    <3> QED
      BY <2>5, <3>1, <3>2, <3>3 DEF Store, StatusError
  <2> QED
    BY <2>1, <2>2, <2>3, <2>4, <2>5 DEF Begin, Step
<1> QED
  BY <1>3, <1>4 DEF SummaryInv

-----------------------------------------------------------------------------
(* The invariant.                                                           *)

\* A thread that begins an update of the rule sets.
LEMMA StartsShape ==
  /\ StartsRules \in ThreadType /\ Shape("boot", StartsRules)
  /\ StartsRules.job = "rules" /\ StartsRules.at = "bypass"
  /\ StartsRules.ok = 0 /\ StartsRules.failed = 0
<1> DEFINE job == [Idle EXCEPT !.job = "rules"]
           at == [job EXCEPT !.at = "bypass"]
<1>1. job \in ThreadType
  BY IdleShape DEF ThreadType
<1>2. at \in ThreadType
  BY <1>1 DEF ThreadType, RulesAt
<1>3. StartsRules \in ThreadType
  BY <1>2 DEF ThreadType, StartsRules
<1>4. /\ StartsRules.job = "rules" /\ StartsRules.at = "bypass"
      /\ StartsRules.todo = RuleSets /\ StartsRules.tries = 0
      /\ StartsRules.ok = 0 /\ StartsRules.failed = 0
  BY DEF StartsRules, Idle
<1> QED
  BY <1>3, <1>4 DEF Shape, InRules, RulesAt, Marking

LEMMA InitIInv == Init => IInv
<1> SUFFICES ASSUME Init PROVE IInv
  OBVIOUS
<1>4. \A t \in Threads : thread[t] = IF t = "boot" THEN StartsRules ELSE Idle
  BY DEF Init
<1>5. ThreadsInv
  BY StartsShape, IdleShape DEF Init, ThreadsInv
<1>6. SharedInv /\ StatusInv
  BY DEF Init, SharedInv, StatusInv
<1>7. OneEach
  BY <1>4, StartsShape, IdleShape DEF Init, OneEach, Threads
<1>8. PatchInv /\ BypassInv /\ FilesInv
  BY <1>4, StartsShape, IdleShape DEF Init, PatchInv, BypassInv, FilesInv, Marking
<1>9. SummaryInv
  BY <1>4, StartsShape, IdleShape DEF SummaryInv
<1> QED
  BY <1>5, <1>6, <1>7, <1>8, <1>9 DEF IInv

\* A daemon that starts again is where the first one started, but for what it
\* finds on disk.
LEMMA RestartKeeps == ASSUME IInv, Restart PROVE IInv'
<1>4. \A t \in Threads : thread'[t] = IF t = "boot" THEN StartsRules ELSE Idle
  BY DEF Restart
<1>5. ThreadsInv'
  BY StartsShape, IdleShape DEF Restart, ThreadsInv
<1>6. SharedInv' /\ StatusInv'
  <2>1. status' \in [{"subscriptions", "rules"} ->
                       {"none", "skipped", "idle", "failed"}]
    BY DEF Restart, IInv, SharedInv
  <2> QED
    BY <2>1 DEF Restart, IInv, SharedInv, StatusInv
<1>7. OneEach'
  BY <1>4, StartsShape, IdleShape DEF Restart, OneEach, Threads
<1>8. PatchInv' /\ BypassInv' /\ FilesInv'
  BY <1>4, StartsShape, IdleShape DEF Restart, PatchInv, BypassInv, FilesInv, Marking
<1>9. SummaryInv'
  BY <1>4, StartsShape, IdleShape DEF SummaryInv
<1> QED
  BY <1>5, <1>6, <1>7, <1>8, <1>9 DEF IInv

LEMMA NextIInv == IInv /\ [Next]_vars => IInv'
<1> SUFFICES ASSUME IInv, [Next]_vars PROVE IInv'
  OBVIOUS
<1>1. CASE Restart
  BY <1>1, RestartKeeps
<1>2. ASSUME NEW t \in Threads, Begin(t) \/ Step(t) PROVE IInv'
  BY <1>2, ThreadsInvKept, SharedInvKept, OneEachKept, StatusInvKept, PatchKept, FilesKept,
     SummaryKept DEF IInv
<1>3. CASE UNCHANGED vars
  <2> USE <1>3 DEF vars
  <2>1. ThreadsInv' /\ SharedInv' /\ OneEach'
    BY DEF IInv, ThreadsInv, SharedInv, OneEach
  <2>2. StatusInv' /\ PatchInv'
    BY DEF IInv, StatusInv, PatchInv
  <2>3. BypassInv'
    BY DEF IInv, BypassInv
  <2>4. FilesInv' /\ SummaryInv'
    BY DEF IInv, FilesInv, SummaryInv, Summary, Dealt
  <2> QED
    BY <2>1, <2>2, <2>3, <2>4 DEF IInv
<1> QED
  BY <1>1, <1>2, <1>3 DEF Next

LEMMA Inductive == Spec => []IInv
BY InitIInv, NextIInv, PTL DEF Spec

-----------------------------------------------------------------------------
(* What follows from it.                                                    *)

\* Those already dealt with are some of the subscriptions, and the summary
\* counts them.
LEMMA SummaryCounts ==
  ASSUME ThreadsInv, SharedInv, NEW t \in Threads, Summary(thread[t])
  PROVE  /\ IsFiniteSet(Dealt(thread[t]))
         /\ thread[t].ok + thread[t].failed = Cardinality(Dealt(thread[t]))
<1> DEFINE D == Dealt(thread[t])
           good == {s \in D : told[s] = "ok"}
           bad == {s \in D : told[s] # "ok"}
<1>1. D \subseteq Subs /\ D = good \cup bad /\ good \cap bad = {}
  BY DEF Dealt
<1>2. thread[t].ok = Cardinality(good) /\ thread[t].failed = Cardinality(bad)
  BY DEF Summary
<1> HIDE DEF good, bad, D
<1>3. IsFiniteSet(D) /\ IsFiniteSet(good) /\ IsFiniteSet(bad)
  BY <1>1, FS_Subset
<1>4. Cardinality(good \cap bad) = 0
  BY <1>1, FS_EmptySet
<1>5. Cardinality(D) = Cardinality(good) + Cardinality(bad) - 0
  BY <1>1, <1>3, <1>4, FS_Union
<1>6. Cardinality(good) \in Nat /\ Cardinality(bad) \in Nat
  BY <1>3, FS_CardinalityType
<1> QED
  BY <1>2, <1>3, <1>5, <1>6 DEF D

\* Type correctness.
THEOREM TypeCorrect == Spec => []TypeOK
<1>1. IInv => TypeOK
  <2> SUFFICES ASSUME IInv PROVE TypeOK
    OBVIOUS
  <2>1. ASSUME NEW t \in Threads
        PROVE  /\ thread[t].todo \subseteq Subs \cup RuleSets
               /\ thread[t].item \in Subs \cup RuleSets \cup {None}
               /\ thread[t].tries \in 0..Attempts \cup 0..Mirrors
               /\ thread[t].ok + thread[t].failed <= Cardinality(Subs)
    <3>1. thread[t] \in ThreadType /\ Shape(t, thread[t])
      BY DEF IInv, ThreadsInv
    <3>2. thread[t].tries \in 0..Attempts \cup 0..Mirrors
      BY <3>1 DEF ThreadType, Shape, Resting, InRules, InSubs
    <3>3. Cardinality(Subs) \in Nat
      BY FS_CardinalityType
    <3>4. CASE thread[t].job = "subscriptions"
      <4>1. /\ IsFiniteSet(Dealt(thread[t]))
            /\ thread[t].ok + thread[t].failed = Cardinality(Dealt(thread[t]))
        BY <3>4, SummaryCounts DEF IInv, SummaryInv
      <4>2. Cardinality(Dealt(thread[t])) <= Cardinality(Subs)
        BY FS_Subset DEF Dealt
      <4> QED
        BY <3>1, <3>2, <4>1, <4>2 DEF ThreadType
    <3>5. CASE thread[t].job # "subscriptions"
      BY <3>1, <3>2, <3>3, <3>5 DEF IInv, SummaryInv, ThreadType
    <3> QED
      BY <3>4, <3>5
  <2> QED
    BY <2>1 DEF IInv, SharedInv, TypeOK
<1> QED
  BY <1>1, Inductive, PTL

\* Once nobody is inside, the sockets and names are the real ones, however
\* many bypasses overlapped and in whatever order they ended.
THEOREM PatchAlwaysUndone == Spec => []PatchUndone
<1>1. IInv => PatchUndone
  BY DEF IInv, SharedInv, PatchInv, PatchUndone, InBypass, Marking, Resolving
<1> QED
  BY <1>1, Inductive, PTL

\* A fetch has the patched sockets and resolver throughout, for any number of
\* subscriptions, rule sets, mirrors and attempts, unless another bypass ended
\* during its own (net.py:151-157).  It is about the process's functions; the
\* way a packet takes may still be another (see the head of Updates).
THEOREM PatchHeldInside == Spec => []PatchedUnlessOverlapped
<1>1. IInv => PatchedUnlessOverlapped
  BY DEF IInv, BypassInv, PatchedUnlessOverlapped, Marking, Resolving
<1> QED
  BY <1>1, Inductive, PTL

\* A status says "running" only while a thread runs the job.
THEOREM StatusHasThread == Spec => []RunningHasThread
<1>1. IInv => RunningHasThread
  BY DEF IInv, StatusInv, SharedInv, RunningHasThread, Threads
<1> QED
  BY <1>1, Inductive, PTL

\* The summary of an update that returns accounts for every subscription and
\* agrees with the table, for any number of them.
THEOREM SummaryCorrect == Spec => []SummaryAgrees
<1>1. IInv => SummaryAgrees
  <2> SUFFICES ASSUME IInv, NEW t \in Threads, At(t, "list"), thread[t].todo = {}
               PROVE  /\ thread[t].ok + thread[t].failed = Cardinality(Subs)
                      /\ thread[t].ok = Cardinality({s \in Subs : told[s] = "ok"})
    BY DEF SummaryAgrees
  <2>1. thread[t].job = "subscriptions" /\ thread[t].item = None
    BY JobOf DEF IInv, ThreadsInv, Shape, InSubs
  <2>2. Summary(thread[t])
    BY <2>1 DEF IInv, SummaryInv
  <2>3. Dealt(thread[t]) = Subs
    BY <2>1 DEF Dealt
  <2> QED
    BY <2>2, <2>3, SummaryCounts DEF IInv, Summary
<1> QED
  BY <1>1, Inductive, PTL

\* A complete rule set is never replaced by anything but a complete one.
THEOREM RuleSetsAlwaysKept == Spec => RuleSetsKept
<1>1. IInv /\ [Next]_vars => [\A r \in RuleSets : dest'[r] # dest[r] => dest'[r] = "whole"]_vars
  <2> SUFFICES ASSUME IInv, Next, NEW r \in RuleSets, dest'[r] # dest[r]
               PROVE  dest'[r] = "whole"
    OBVIOUS
  <2>1. CASE Restart
    BY <2>1 DEF Restart
  <2> QED
    BY <2>1, FilesKept DEF Next, IInv
<1> QED
  BY <1>1, Inductive, PTL DEF Spec, RuleSetsKept

==============================================================================
