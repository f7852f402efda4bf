------------------------------ MODULE LiveApply ------------------------------
(***************************************************************************)
(* Applying pool B to the running singbox-core: rebuild_and_apply and      *)
(* refill_live_pool of totalray/builder.py, StandbyPool.reconcile of       *)
(* totalray/standby_pool.py, over the control socket and the Clash API.    *)
(*                                                                         *)
(* Four things must agree: what the core serves, config.json (what the     *)
(* core serves after its next start), live_config.json (what the next      *)
(* reconcile believes the core serves) and last_group_tags.json (what the  *)
(* fast path believes).  They are written at different steps, and the      *)
(* core, the daemon and any request may fail in between.                   *)
(*                                                                         *)
(* ApplyCoordinator's lock makes applies exclusive; only LiveMonitor       *)
(* selects a member without it.  Pool B may be ranked anew at any time, so *)
(* an apply starts from any ranking.  A built config is determined by its  *)
(* group of verified servers, best first, and stands for it here; an       *)
(* outbound is its tag.  The core is external: its actions are what the    *)
(* code relies on (SINGBOX_CORE_EMBED_PLAN.md:100-112, 203-210).           *)
(***************************************************************************)
EXTENDS Naturals, Sequences, FiniteSets, SequencesExt

CONSTANTS
  Tags,          \* outbound tags of verified configs
  GroupSize,     \* proxy_group.standby_count
  Disturbances,  \* what may go wrong, a subset of AllDisturbances
  None           \* a missing file, an unknown tag

AllDisturbances ==
  {"check",    \* sing-box check rejects the config
   "clash",    \* a Clash API request fails
   "control",  \* a control request fails, or times out after it took effect
   "start",    \* the core does not start, or systemctl does not see it start
   "bounce",   \* the core dies and systemd starts it again
   "crash",    \* the TotalRay daemon dies
   "monitor"}  \* LiveMonitor switches and refills (shadow_mode off)

ASSUME GroupAssumption == GroupSize \in Nat \ {0} /\ IsFiniteSet(Tags)
ASSUME DisturbanceAssumption == Disturbances \subseteq AllDisturbances
ASSUME NamesAssumption ==
  None \notin Tags \cup {"direct", "ok", "refill"} /\ Tags \cap {"direct", "auto", "select"} = {}

VARIABLES
  disk,      \* sing_box_config: config.json
  live,      \* live_config.json
  lastTags,  \* last_group_tags.json
  core,      \* the Box
  job,       \* the apply under the coordinator's lock
  degraded   \* the member LiveMonitor left and has yet to replace

vars == <<disk, live, lastTags, core, job, degraded>>

May(d) == d \in Disturbances

\* The rows of pool B, best delay first.
Rankings == UNION {SetToSeqs(S) : S \in SUBSET Tags}
FirstOfOneMore(s) == SubSeq(s, 1, IF Len(s) <= GroupSize THEN Len(s) ELSE GroupSize + 1) \* a mutant
FirstOf(s) == SubSeq(s, 1, IF Len(s) < GroupSize THEN Len(s) ELSE GroupSize)
Groups == {FirstOf(s) : s \in Rankings}
ASSUME NoneAssumption == None \notin Groups

Leaves(g) == IF g = None THEN {} ELSE Range(g)

\* build_config: "auto" lists the group, or direct when there is none; its
\* default is the first member.
Members(g) == IF g = <<>> THEN {"direct"} ELSE Leaves(g)
Best(g) == IF g = <<>> THEN "direct" ELSE g[1]

-----------------------------------------------------------------------------
(* The core.  A group's members are fixed when it is added; the cache file  *)
(* may bring back the member selected last.                                 *)

Down == [up |-> FALSE, leaves |-> {}, auto |-> None, select |-> FALSE, now |-> None]

StartedFrom(g) ==
  {[up |-> TRUE, leaves |-> Leaves(g), auto |-> g, select |-> TRUE, now |-> t] :
     t \in Members(g)}

\* set_active_config: the core after it succeeded, and after it failed, its
\* last request refused or unanswered.
Selectable(t) == core.up /\ core.auto # None /\ t \in Members(core.auto)
Chosen(t) == IF Selectable(t) THEN {[core EXCEPT !.now = t]} ELSE {}
NotChosen(t) ==
  IF ~Selectable(t) THEN {core}
  ELSE IF May("clash") THEN Chosen(t) \cup {core} ELSE {}

\* One request of a reconcile: its effect on the core, {} when it is refused.
\* A removal is refused for an unknown tag and while a group depends on it.
Effects(req) ==
  CASE req.op = "add" /\ req.tag = "auto" ->
         IF Leaves(req.group) \subseteq core.leaves
         THEN {[core EXCEPT !.auto = req.group, !.now = t] : t \in Members(req.group)}
         ELSE {}
    [] req.op = "add" /\ req.tag = "select" ->
         IF core.auto # None THEN {[core EXCEPT !.select = TRUE]} ELSE {}
    [] req.op = "add" /\ req.tag \in Tags ->
         {[core EXCEPT !.leaves = @ \cup {req.tag}]}
    [] req.op = "remove" /\ req.tag = "select" ->
         IF core.select THEN {[core EXCEPT !.select = FALSE]} ELSE {}
    [] req.op = "remove" /\ req.tag = "auto" ->
         IF core.auto # None /\ ~core.select
         THEN {[core EXCEPT !.auto = None]} ELSE {}
    [] req.op = "remove" /\ req.tag \in Tags ->
         IF req.tag \in core.leaves
            /\ (core.auto = None \/ req.tag \notin Members(core.auto))
         THEN {[core EXCEPT !.leaves = @ \ {req.tag}]} ELSE {}

-----------------------------------------------------------------------------
(* Requests of StandbyPool.reconcile, in its order.                         *)

AddReq(tag, g) == [op |-> "add", tag |-> tag, group |-> g]
RemoveReq(tag) == [op |-> "remove", tag |-> tag, group |-> None]

AddReqs(S) == LET s == SetToSeq(S) IN [i \in 1..Len(s) |-> AddReq(s[i], None)]
RemoveReqs(S) == LET s == SetToSeq(S) IN [i \in 1..Len(s) |-> RemoveReq(s[i])]

\* The selector pair is replaced when its definition changes: select depends
\* on auto, so it goes first and comes back last.
RegroupAutoFirst(wanted, old) ==   \* a mutant
  IF wanted = old THEN <<>>
  ELSE (IF old = None THEN <<>> ELSE <<RemoveReq("auto"), RemoveReq("select")>>)
       \o <<AddReq("auto", wanted), AddReq("select", wanted)>>

RegroupAutoOnly(wanted, old) ==    \* a mutant
  IF wanted = old THEN <<>>
  ELSE (IF old = None THEN <<>> ELSE <<RemoveReq("select"), RemoveReq("auto")>>)
       \o <<AddReq("auto", wanted)>>

Regroup(wanted, old) ==
  IF wanted = old THEN <<>>
  ELSE (IF old = None THEN <<>> ELSE <<RemoveReq("select"), RemoveReq("auto")>>)
       \o <<AddReq("auto", wanted), AddReq("select", wanted)>>

PlanRemovingFirst(wanted, old) ==  \* a mutant
  AddReqs(Leaves(wanted) \ Leaves(old)) \o RemoveReqs(Leaves(old) \ Leaves(wanted))
    \o Regroup(wanted, old)

PlanKeepingLeaves(wanted, old) ==  \* a mutant
  AddReqs(Leaves(wanted) \ Leaves(old)) \o Regroup(wanted, old)

Plan(wanted, old) ==
  AddReqs(Leaves(wanted) \ Leaves(old)) \o Regroup(wanted, old)
    \o RemoveReqs(Leaves(old) \ Leaves(wanted))

-----------------------------------------------------------------------------
Idle == [pc |-> "idle", kind |-> None, group |-> <<>>, old |-> None,
         plan |-> <<>>, via |-> None, synced |-> FALSE]

At(pc) == job.pc = pc
Goto(pc) == job' = [job EXCEPT !.pc = pc]

\* Everything agrees on one group.
Synced ==
  /\ live # None /\ disk = live /\ lastTags = Leaves(live)
  /\ core.up /\ core.select /\ core.auto = live /\ core.leaves = Leaves(live)

Serves(g) ==
  core.up /\ core.select /\ core.auto # None /\ Members(core.auto) = Members(g)

Init ==
  /\ disk = None /\ live = None /\ lastTags = None
  /\ core = Down
  /\ job = Idle
  /\ degraded = None

\* The coordinator hands over to the builder; "synced" is history.
Begin(kind, group, pc) ==
  /\ At("idle")
  /\ job' = [Idle EXCEPT !.pc = pc, !.kind = kind, !.group = group, !.synced = Synced]
  /\ UNCHANGED <<disk, live, lastTags, core>>

\* rebuild_and_apply; force (after a rule-set update) skips the fast path.
BeginApply ==
  /\ \E ranking \in Rankings :
       LET group == FirstOf(ranking)
       IN Begin("apply", group, IF lastTags = Leaves(group) THEN "switch" ELSE "build")
  /\ UNCHANGED degraded

BeginForced ==
  /\ \E ranking \in Rankings : Begin("forced", FirstOf(ranking), "build")
  /\ UNCHANGED degraded

\* refill_live_pool, from LiveMonitor's failover callback: pool B without the
\* member it left.
BeginRefill ==
  /\ degraded # None
  /\ \E ranking \in Rankings :
       degraded \notin Range(ranking) /\ Begin("refill", FirstOf(ranking), "build")
  /\ degraded' = None

\* A job that failed has no effect left to make.
Return(ok) == job' = [Idle EXCEPT !.via = IF ok THEN "ok" ELSE "failed",
                                  !.kind = job.kind]

\* A live apply that fails falls back to a restart, except in a refill.
FallBack == IF job.kind = "refill" THEN Return(FALSE) ELSE Goto("restart")

\* The fast path: the tag set is the one the core is believed to serve.
Switch ==
  /\ At("switch")
  /\ \/ core' \in Chosen(Best(job.group)) /\ Return(TRUE)
     \/ core' \in NotChosen(Best(job.group)) /\ Goto("build")
  /\ UNCHANGED <<disk, live, lastTags, degraded>>

\* build_config, _load_live_config and write_and_check.
Build ==
  /\ At("build")
  /\ \/ /\ disk' = job.group
        /\ job' = [job EXCEPT !.old = IF live = None THEN disk ELSE live,
                              !.pc = IF job.kind = "forced" THEN "restart" ELSE "park"]
     \/ May("check") /\ Return(FALSE) /\ UNCHANGED disk
  /\ UNCHANGED <<live, lastTags, core, degraded>>

\* What _clash_active_tag comes back with.
ActiveTags ==
  {IF core.up /\ core.auto # None THEN core.now ELSE None}
    \cup (IF May("clash") THEN {None} ELSE {})

Retiring(active) ==
  job.old # None /\ active \in Members(job.old) \ Members(job.group)

\* _apply_live_config up to reconcile's first request: an active member that
\* is about to go is left for a surviving one; when none survives it is
\* retired together with its group.
Park ==
  /\ At("park")
  /\ \/ /\ core.up
        /\ \E active \in ActiveTags :
             LET safe == Members(job.old) \cap Members(job.group)
                 go == job' = [job EXCEPT !.pc = "reconcile",
                                          !.plan = Plan(job.group, job.old)]
             IN IF Retiring(active) /\ safe # {}
                THEN \E t \in safe :
                       \/ core' \in Chosen(t) /\ go
                       \/ core' \in NotChosen(t) /\ FallBack
                ELSE go /\ UNCHANGED core
     \/ /\ ~core.up \/ May("control")
        /\ FallBack
        /\ UNCHANGED core
  /\ UNCHANGED <<disk, live, lastTags, degraded>>

\* One request of the plan.
Request ==
  /\ At("reconcile") /\ job.plan # <<>>
  /\ LET effects == IF core.up THEN Effects(Head(job.plan)) ELSE {}
     IN \/ /\ core' \in effects
           /\ job' = [job EXCEPT !.plan = Tail(@)]
        \/ effects = {} /\ FallBack /\ UNCHANGED core
        \/ May("control") /\ FallBack /\ core' \in effects \cup {core}
  /\ UNCHANGED <<disk, live, lastTags, degraded>>

Reconciled ==
  /\ At("reconcile") /\ job.plan = <<>>
  /\ job' = [job EXCEPT !.pc = "save_live", !.via = "live"]
  /\ UNCHANGED <<disk, live, lastTags, core, degraded>>

\* restart_singbox: the core comes back from config.json, or not.  The unit is
\* Type=simple, so systemctl may report success for a core that is not up, and
\* failure, on a timeout, for one that is.
RestartCore ==
  /\ At("restart")
  /\ \/ /\ core' \in StartedFrom(disk) \cup (IF May("start") THEN {Down} ELSE {})
        /\ job' = [job EXCEPT !.pc = "save_tags", !.via = "restart"]
     \/ /\ May("start")
        /\ core' \in StartedFrom(disk) \cup {Down, core}
        /\ Return(FALSE)
  /\ UNCHANGED <<disk, live, lastTags, degraded>>

\* The live path saves live_config.json first, the restart path last.
SaveLive ==
  /\ At("save_live")
  /\ live' = job.group
  /\ Goto(IF job.via = "live" THEN "save_tags" ELSE "select")
  /\ UNCHANGED <<disk, lastTags, core, degraded>>

SaveTags ==
  /\ At("save_tags")
  /\ lastTags' = Leaves(job.group)
  /\ IF job.kind = "refill" THEN Return(TRUE)
     ELSE Goto(IF job.via = "live" THEN "select" ELSE "save_live")
  /\ UNCHANGED <<disk, live, core, degraded>>

\* The final selection, whose failure is only logged; after a restart the
\* coordinator has the last word with its health check.
Select ==
  /\ At("select")
  /\ core' \in Chosen(Best(job.group)) \cup NotChosen(Best(job.group))
  /\ \/ (job.via = "live" \/ core.up) /\ Return(TRUE)
     \/ job.via = "restart" /\ (~core.up \/ May("clash")) /\ Return(FALSE)
  /\ UNCHANGED <<disk, live, lastTags, degraded>>

-----------------------------------------------------------------------------
(* Around the apply.                                                        *)

\* What happens outside the apply ends what it began in.
Disturbed == job' = [job EXCEPT !.synced = FALSE]

\* LiveMonitor._do_failover, outside the coordinator's lock, on the thread
\* that then waits for its refill.
Failover ==
  /\ May("monitor") /\ degraded = None
  /\ At("idle") \/ job.kind # "refill"
  /\ \E old, t \in Tags :
       old # t /\ core' \in Chosen(t) /\ degraded' = old
  /\ UNCHANGED <<disk, live, lastTags, job>>

CoreBounces ==
  /\ May("bounce") /\ disk # None
  /\ core' \in StartedFrom(disk)
  /\ IF At("idle") THEN UNCHANGED job ELSE Disturbed
  /\ UNCHANGED <<disk, live, lastTags, degraded>>

\* The daemon may die between stopping and starting the core, and while
\* last_group_tags.json is being written in place.
DaemonCrashes ==
  /\ May("crash") /\ (~At("idle") \/ degraded # None)
  /\ job' = Idle /\ degraded' = None
  /\ core' \in IF At("restart") THEN {core, Down} ELSE {core}
  /\ lastTags' \in IF At("save_tags") THEN {lastTags, None} ELSE {lastTags}
  /\ UNCHANGED <<disk, live>>

Next ==
  \/ BeginApply \/ BeginForced \/ BeginRefill
  \/ Switch \/ Build \/ Park \/ Request \/ Reconciled
  \/ RestartCore \/ SaveLive \/ SaveTags \/ Select
  \/ Failover \/ CoreBounces \/ DaemonCrashes

Spec == Init /\ [][Next]_vars

-----------------------------------------------------------------------------
(* Properties.                                                              *)

Requests ==
  [op : {"add", "remove"}, tag : Tags \cup {"auto", "select"}, group : Groups \cup {None}]

Cores ==
  [up : BOOLEAN, leaves : SUBSET Tags, auto : Groups \cup {None}, select : BOOLEAN,
   now : Tags \cup {"direct", None}]

Jobs ==
  [pc : {"idle", "switch", "build", "park", "reconcile", "restart", "save_live",
         "save_tags", "select"},
   kind : {"apply", "forced", "refill", None}, group : Groups, old : Groups \cup {None},
   plan : Seq(Requests), via : {"live", "restart", "ok", "failed", None},
   synced : BOOLEAN]

\* Every config built has at most standby_count servers, no server twice
\* (builder.py:641-645, 692-695), wherever it is kept.
TypeOK ==
  /\ \A g \in {disk, live} : g = None \/ (g \in Groups /\ Len(g) <= GroupSize)
  /\ lastTags = None \/ lastTags \in SUBSET Tags
  /\ core \in Cores
  /\ job \in Jobs /\ Len(job.group) <= GroupSize
  /\ degraded \in Tags \cup {None}

\* A leaf is removed only once no group lists it, whatever failed, bounced or
\* was switched before (standby_pool.py:14-17): the core never refuses a
\* removal for a dependency, nor leaves "auto" with a member that is gone.
RemovesNoDependency ==
  At("reconcile") /\ job.plan # <<>> /\ core.up /\ core.auto # None =>
    LET req == Head(job.plan)
    IN req.op = "remove" /\ req.tag \in Tags => req.tag \notin Members(core.auto)

\* An apply or refill that begins with the core and the three files in
\* agreement, and reports success with no crash of either process on the way,
\* ends with them in agreement, by whichever path it went (fast path,
\* reconcile, restart after a failed reconcile).
SuccessKeepsSync ==
  [][job.synced /\ ~At("idle") /\ job'.pc = "idle" /\ job'.via = "ok" => Synced']_vars

\* Routine churn restarts nothing: an unforced apply that begins in agreement
\* never falls back to a restart while the core and its two APIs answer
\* (SINGBOX_CORE_EMBED_PLAN.md:224-225).
ChurnRestartsNothing == At("restart") => job.kind = "forced" \/ ~job.synced

\* Outside of a reconcile a running core has its selector pair, and so a
\* member to select (SINGBOX_CORE_EMBED_PLAN.md:222-223).
StandbyStaysSelectable ==
  core.up /\ ~At("reconcile") => core.auto # None /\ core.select

\* After an apply that reported success the running core has something to
\* select: the "safety net" of rebuild_and_apply (builder.py:657).
SuccessRestoresStandby ==
  At("idle") /\ job.kind = "apply" /\ job.via = "ok" /\ core.up => core.auto # None
==============================================================================
