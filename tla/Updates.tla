------------------------------- MODULE Updates -------------------------------
(***************************************************************************)
(* The jobs that bring subscriptions and rule sets up to date              *)
(* (job_update_subs, job_update_rules and bootstrap of                     *)
(* totalray/scheduler.py; subfetch.py, rulesets.py), and what they share:  *)
(* net.bypass_tun, which swaps socket.socket and socket.getaddrinfo for    *)
(* the whole process while a thread fetches, to get past the tunnel.       *)
(*                                                                         *)
(* Which functions the process has is modelled, and not the way a packet   *)
(* takes: a socket of the patched class whose mark is refused goes through *)
(* the tunnel (net.py:136-139), so does a name whose direct query fails    *)
(* (net.py:144-149), and so may a request on a connection that the shared  *)
(* session kept from an unpatched one (http_client.py:104-110).            *)
(* A fetch yields a text or not; what a text holds, and the rows it adds,  *)
(* are PoolRounds!Import.  The command line's own update-subs and          *)
(* update-rules, which run in a process of their own, are left out.        *)
(***************************************************************************)
EXTENDS Naturals, FiniteSets

CONSTANTS
  Subs,       \* rows of subscriptions
  RuleSets,   \* needed_rulesets
  Mirrors,    \* how many mirrors a rule set has
  Attempts,   \* attempts of fetch_subscription on each route
  None

\* Threads: bootstrap's and the scheduler's two, one per job (max_instances=1).
Threads == {"boot", "subs", "rules"}

ASSUME UpdatesAssumption ==
  /\ IsFiniteSet(Subs) /\ None \notin Subs \cup RuleSets \cup Threads
  /\ Mirrors \in Nat \ {0} /\ Attempts \in Nat \ {0}

VARIABLES
  thread,    \* thread -> where it is, what it has to do, its summary
  sockets,   \* "marked" while socket.socket is _MarkedSocket
  resolver,  \* "patched" while socket.getaddrinfo is patched_getaddrinfo
  lock,      \* _subscription_lock: its holder
  status,    \* round_status.json's state of the two jobs
  told,      \* subscriptions.last_status
  tmp, dest  \* rule set -> its .srs.tmp and .srs: "none", "part" or "whole"

vars == <<thread, sockets, resolver, lock, status, told, tmp, dest>>
files == <<tmp, dest>>
process == <<sockets, resolver>>
jobs == <<lock, status>>

Idle == [job |-> "none", at |-> "rest", todo |-> {}, item |-> None, tries |-> 0,
         text |-> FALSE, overlapped |-> FALSE, ok |-> 0, failed |-> 0]
StartsRules == [Idle EXCEPT !.job = "rules", !.at = "bypass", !.todo = RuleSets]
StartsSubs == [Idle EXCEPT !.job = "subscriptions", !.at = "list", !.todo = Subs]

Init ==
  /\ thread = [t \in Threads |-> IF t = "boot" THEN StartsRules ELSE Idle]
  /\ sockets = "real" /\ resolver = "real"
  /\ lock = None
  /\ status = [j \in {"subscriptions", "rules"} |-> "none"]
  /\ told = [s \in Subs |-> "none"]
  /\ tmp = [r \in RuleSets |-> "none"]
  /\ dest = [r \in RuleSets |-> "none"]

At(t, at) == thread[t].at = at
Goes(t, at) == thread' = [thread EXCEPT ![t].at = at]

-----------------------------------------------------------------------------
(* net.bypass_tun: entered and left in two assignments each.                *)

InBypass(t) == thread[t].at \in {"enter", "inside", "mirror", "write", "replace", "leave", "left"}

\* History: those inside when another leaves.
Overlapped(t) ==
  [u \in Threads |->
     IF u # t /\ InBypass(u) THEN [thread[u] EXCEPT !.overlapped = TRUE] ELSE thread[u]]

EnterBypass(t) ==
  /\ At(t, "bypass")
  /\ sockets' = "marked"
  /\ thread' = [thread EXCEPT ![t].at = "enter"]
  /\ UNCHANGED <<resolver, jobs, told, files>>

\* Mutant: the resolver is not patched.
EnteredWithoutNames(t) ==
  /\ At(t, "enter")
  /\ Goes(t, "inside")
  /\ UNCHANGED <<process, jobs, told, files>>

Entered(t) ==
  /\ At(t, "enter")
  /\ resolver' = "patched"
  /\ Goes(t, "inside")
  /\ UNCHANGED <<sockets, jobs, told, files>>

\* Mutant: without "finally", a fetch that returns its text leaves the patch.
LeaveBypassUnlessReturning(t) ==
  /\ At(t, "leave")
  /\ sockets' = IF thread[t].text THEN sockets ELSE "real"
  /\ thread' = [Overlapped(t) EXCEPT ![t].at = "left"]
  /\ UNCHANGED <<resolver, jobs, told, files>>

LeaveBypass(t) ==
  /\ At(t, "leave")
  /\ sockets' = "real"
  /\ thread' = [Overlapped(t) EXCEPT ![t].at = "left"]
  /\ UNCHANGED <<resolver, jobs, told, files>>

\* Where update_rulesets or fetch_subscription goes on.
Left(t) ==
  /\ At(t, "left")
  /\ resolver' = "real"
  /\ thread' = [Overlapped(t) EXCEPT ![t].tries = 0, ![t].overlapped = FALSE, ![t].at =
       IF thread[t].job = "rules" THEN IF t = "boot" THEN "due" ELSE "apply"
       ELSE IF thread[t].text THEN "store" ELSE "proxy"]
  /\ UNCHANGED <<sockets, jobs, told, files>>

-----------------------------------------------------------------------------
(* Subscriptions.                                                           *)

SubsDue(t) == (At(t, "rest") /\ t = "subs") \/ At(t, "due")

\* job_update_subs: skipped while another update holds the lock.
SkipSubs(t) ==
  /\ SubsDue(t) /\ lock # None
  /\ status' = [status EXCEPT !["subscriptions"] = "skipped"]
  /\ thread' = [thread EXCEPT ![t] = Idle]
  /\ UNCHANGED <<process, lock, told, files>>

\* And update_all, when adding and listing the subscriptions does not raise.
BeginSubs(t) ==
  /\ SubsDue(t) /\ lock = None
  /\ lock' = t
  /\ status' = [status EXCEPT !["subscriptions"] = "running"]
  /\ \E at \in {"list", "raise"} :
       thread' = [thread EXCEPT ![t] = [StartsSubs EXCEPT !.at = at]]
  /\ UNCHANGED <<process, told, files>>

\* Mutant: the loop does not advance.
NextSubAgain(t) ==
  /\ At(t, "list")
  /\ \E s \in thread[t].todo :
       thread' = [thread EXCEPT ![t].at = "bypass", ![t].item = s]
  /\ UNCHANGED <<process, jobs, told, files>>

NextSub(t) ==
  /\ At(t, "list")
  /\ \E s \in thread[t].todo :
       thread' = [thread EXCEPT ![t].at = "bypass", ![t].todo = @ \ {s}, ![t].item = s]
  /\ UNCHANGED <<process, jobs, told, files>>

\* Mutant: after the last attempt the first one follows.
TriesOn(t, gives, givesUp) ==
  \/ thread' = [thread EXCEPT ![t].text = TRUE, ![t].at = gives, ![t].tries = 0]
  \/ thread' = [thread EXCEPT ![t].tries = (@ + 1) % Attempts]

\* fetch_subscription: an attempt past the tunnel, or through local_proxy.
Tries(t, gives, givesUp) ==
  \/ thread' = [thread EXCEPT ![t].text = TRUE, ![t].at = gives, ![t].tries = 0]
  \/ thread' = [thread EXCEPT ![t].tries = @ + 1,
                              ![t].at = IF thread[t].tries + 1 < Attempts THEN @ ELSE givesUp]

Direct(t) ==
  /\ At(t, "inside") /\ thread[t].job = "subscriptions"
  /\ Tries(t, "leave", "leave")
  /\ UNCHANGED <<process, jobs, told, files>>

Proxied(t) ==
  /\ At(t, "proxy")
  /\ Tries(t, "store", "error")
  /\ UNCHANGED <<process, jobs, told, files>>

Told(t) == [thread[t] EXCEPT !.at = "list", !.item = None, !.tries = 0, !.text = FALSE]

\* sync_configs and set_sub_status "ok"; either may raise.
Store(t) ==
  /\ At(t, "store")
  /\ \/ /\ told' = [told EXCEPT ![thread[t].item] = "ok"]
        /\ thread' = [thread EXCEPT ![t] = Told(t), ![t].ok = @ + 1]
     \/ Goes(t, "error") /\ UNCHANGED told
  /\ UNCHANGED <<process, jobs, files>>

\* Mutant: the first failure ends the update.
StatusErrorReturns(t) ==
  /\ At(t, "error")
  /\ told' = [told EXCEPT ![thread[t].item] = "error"]
  /\ thread' = [thread EXCEPT ![t] = Told(t), ![t].failed = @ + 1, ![t].todo = {}]
  /\ UNCHANGED <<process, jobs, files>>

\* The handler around each subscription; set_sub_status may raise out of it.
StatusError(t) ==
  /\ At(t, "error")
  /\ \/ /\ told' = [told EXCEPT ![thread[t].item] = "error"]
        /\ thread' = [thread EXCEPT ![t] = Told(t), ![t].failed = @ + 1]
     \/ Goes(t, "raise") /\ UNCHANGED told
  /\ UNCHANGED <<process, jobs, files>>

\* Mutant: an exception is logged and not reported.
FinishSubsUnreported(t) ==
  /\ \/ /\ At(t, "list") /\ thread[t].todo = {}
        /\ status' = [status EXCEPT !["subscriptions"] = "idle"]
     \/ At(t, "raise") /\ UNCHANGED status
  /\ Goes(t, "release")
  /\ UNCHANGED <<process, lock, told, files>>

\* job_update_subs: finish, and release in "finally".
FinishSubs(t) ==
  /\ \/ /\ At(t, "list") /\ thread[t].todo = {}
        /\ status' = [status EXCEPT !["subscriptions"] = "idle"]
     \/ /\ At(t, "raise")
        /\ status' = [status EXCEPT !["subscriptions"] = "failed"]
  /\ Goes(t, "release")
  /\ UNCHANGED <<process, lock, told, files>>

Release(t) ==
  /\ At(t, "release")
  /\ lock' = None
  /\ thread' = [thread EXCEPT ![t] = Idle]
  /\ UNCHANGED <<process, status, told, files>>

-----------------------------------------------------------------------------
(* Rule sets.                                                               *)

\* job_update_rules.  Its lock is never busy: bootstrap, which does not take
\* it, is done with the rules hours before the job's first interval is over.
BeginRules(t) ==
  /\ t = "rules" /\ At(t, "rest")
  /\ thread["boot"].job # "rules"
  /\ status' = [status EXCEPT !["rules"] = "running"]
  /\ thread' = [thread EXCEPT ![t] = StartsRules]
  /\ UNCHANGED <<process, lock, told, files>>

NextRule(t) ==
  /\ At(t, "inside") /\ thread[t].job = "rules"
  /\ \/ \E r \in thread[t].todo :
          thread' = [thread EXCEPT ![t].at = "mirror", ![t].todo = @ \ {r},
                                   ![t].item = r]
     \/ thread[t].todo = {} /\ Goes(t, "leave")
  /\ UNCHANGED <<process, jobs, told, files>>

RuleDone(t) ==
  thread' = [thread EXCEPT ![t].at = "inside", ![t].item = None, ![t].tries = 0]

\* The next mirror, or the next rule set: the file there is stays.
Missed(t) ==
  IF thread[t].tries + 1 < Mirrors
  THEN thread' = [thread EXCEPT ![t].tries = @ + 1, ![t].at = "mirror"]
  ELSE RuleDone(t)

\* Mutant: the file itself is opened for writing.
DownloadInPlace(t) ==
  /\ At(t, "mirror")
  /\ \/ dest' = [dest EXCEPT ![thread[t].item] = "part"] /\ Goes(t, "write")
     \/ Missed(t) /\ UNCHANGED dest
  /\ UNCHANGED <<process, jobs, told, tmp>>

\* A good answer opens <name>.srs.tmp for writing.
Download(t) ==
  /\ At(t, "mirror")
  /\ \/ tmp' = [tmp EXCEPT ![thread[t].item] = "part"] /\ Goes(t, "write")
     \/ Missed(t) /\ UNCHANGED tmp
  /\ UNCHANGED <<process, jobs, told, dest>>

\* A full disk, say, leaves it part.
Write(t) ==
  /\ At(t, "write")
  /\ \/ tmp' = [tmp EXCEPT ![thread[t].item] = "whole"] /\ Goes(t, "replace")
     \/ Missed(t) /\ UNCHANGED tmp
  /\ UNCHANGED <<process, jobs, told, dest>>

Replace(t) ==
  /\ At(t, "replace")
  /\ \/ /\ dest' = [dest EXCEPT ![thread[t].item] = tmp[thread[t].item]]
        /\ tmp' = [tmp EXCEPT ![thread[t].item] = "none"]
        /\ RuleDone(t)
     \/ Missed(t) /\ UNCHANGED files
  /\ UNCHANGED <<process, jobs, told>>

\* The forced apply, whatever was downloaded; its failure, or an exception
\* before, fails the job.
FinishRules(t) ==
  /\ t = "rules" /\ thread[t].job = "rules"
  /\ \/ At(t, "apply") /\ status' = [status EXCEPT !["rules"] = "idle"]
     \/ thread[t].at \in {"bypass", "apply"} /\ status' = [status EXCEPT !["rules"] = "failed"]
  /\ thread' = [thread EXCEPT ![t] = Idle]
  /\ UNCHANGED <<process, lock, told, files>>

-----------------------------------------------------------------------------
\* The daemon dies, of bootstrap's exception too, and starts again; recover
\* closes what was running.
Restart ==
  /\ thread' = [t \in Threads |-> IF t = "boot" THEN StartsRules ELSE Idle]
  /\ sockets' = "real" /\ resolver' = "real" /\ lock' = None
  /\ status' = [j \in DOMAIN status |->
                  IF status[j] = "running" THEN "failed" ELSE status[j]]
  /\ UNCHANGED <<told, files>>

Begin(t) == SkipSubs(t) \/ BeginSubs(t) \/ BeginRules(t)

Step(t) ==
  \/ EnterBypass(t) \/ Entered(t) \/ LeaveBypass(t) \/ Left(t)
  \/ NextSub(t) \/ Direct(t) \/ Proxied(t) \/ Store(t) \/ StatusError(t)
  \/ FinishSubs(t) \/ Release(t)
  \/ NextRule(t) \/ Download(t) \/ Write(t) \/ Replace(t) \/ FinishRules(t)

Next == Restart \/ \E t \in Threads : Begin(t) \/ Step(t)

\* A thread goes on: each of its requests and transactions has a timeout.
Spec == Init /\ [][Next]_vars /\ \A t \in Threads : WF_vars(Step(t))

-----------------------------------------------------------------------------
(* Properties.                                                              *)

\* The type invariant.
TypeOK ==
  /\ \A t \in Threads :
       /\ thread[t].todo \subseteq Subs \cup RuleSets
       /\ thread[t].item \in Subs \cup RuleSets \cup {None}
       /\ thread[t].tries \in 0..Attempts \cup 0..Mirrors
       /\ thread[t].ok + thread[t].failed <= Cardinality(Subs)
  /\ sockets \in {"real", "marked"} /\ resolver \in {"real", "patched"}
  /\ lock \in Threads \cup {None}
  /\ status \in [{"subscriptions", "rules"} ->
                  {"none", "running", "skipped", "idle", "failed"}]
  /\ told \in [Subs -> {"none", "ok", "error"}]
  /\ tmp \in [RuleSets -> {"none", "part", "whole"}]
  /\ dest \in [RuleSets -> {"none", "part", "whole"}]

\* The patch does not outlive its users: however the bypasses of bootstrap
\* and the jobs overlap, once nobody is inside, the process's sockets and
\* names are the real ones (net.py:155-157).
PatchUndone ==
  (\A t \in Threads : ~InBypass(t)) => sockets = "real" /\ resolver = "real"

\* A fetch has the patched functions from its first request to its last,
\* however the bypasses overlap, but for the one whose bypass another ends:
\* the exit of any bypass puts the real functions back under all of them
\* (net.py:151-157), against "this box own traffic must never depend on the
\* tunnel it is itself building" (rulesets.py:42-43).
PatchedUnlessOverlapped ==
  \A t \in Threads : thread[t].at \in {"inside", "mirror"} =>
    \/ sockets = "marked" /\ resolver = "patched"
    \/ thread[t].overlapped

\* One dead subscription does not hide the others: an update that returns
\* has told the outcome of every subscription, and its summary agrees with
\* the subscriptions table, although any fetch, import or status write may
\* fail and the job may have been skipped or the daemon restarted before
\* (subfetch.py:135-178).
SummaryAgrees ==
  \A t \in Threads : At(t, "list") /\ thread[t].todo = {} =>
    /\ thread[t].ok + thread[t].failed = Cardinality(Subs)
    /\ thread[t].ok = Cardinality({s \in Subs : told[s] = "ok"})

\* The status of a job says "running" only while a thread runs it
\* (round_state.py:125-140, scheduler.py:91-107 and 158-174).
RunningHasThread ==
  \A j \in DOMAIN status : status[j] = "running" => \E t \in Threads : thread[t].job = j

\* A complete rule set is never lost and never replaced by a part of one,
\* whichever step of its update fails or is cut off by a restart
\* (rulesets.py:48-61).
RuleSetsKept ==
  [][\A r \in RuleSets : dest'[r] # dest[r] => dest'[r] = "whole"]_vars

\* An update ends and gives the lock back, whatever fails
\* (scheduler.py:106-107): later updates are not skipped for ever.
UpdatesEnd == lock # None ~> lock = None
==============================================================================
