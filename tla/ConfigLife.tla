------------------------------ MODULE ConfigLife ------------------------------
(***************************************************************************)
(* What the pools promise of one server configuration, with no rounds,     *)
(* snapshots, generations or chunks: a life cycle driven by strikes, the   *)
(* failed tests since the last pass.                                       *)
(*                                                                         *)
(*    new -> candidate <-> verified                                        *)
(*               \            /                                            *)
(*                -> removed -> gone                                       *)
(*                                                                         *)
(* A pass verifies and clears the strikes.  A failure is a strike: at      *)
(* Grace strikes a verified config is a candidate again, at Limit strikes  *)
(* any config is removed, for good.                                        *)
(***************************************************************************)
EXTENDS Naturals

CONSTANTS Configs, Grace, Limit

VARIABLES stage, strikes

lifeVars == <<stage, strikes>>

Tested == {"candidate", "verified"}

Init ==
  /\ stage = [c \in Configs |-> "new"]
  /\ strikes = [c \in Configs |-> 0]

Import ==
  /\ \E S \in SUBSET {c \in Configs : stage[c] = "new"} :
       stage' = [c \in Configs |-> IF c \in S THEN "candidate" ELSE stage[c]]
  /\ UNCHANGED strikes

\* Where one more strike leaves a config.
Struck(c) ==
  IF strikes[c] + 1 >= Limit THEN "removed"
  ELSE IF stage[c] = "verified" /\ strikes[c] + 1 < Grace THEN "verified"
  ELSE "candidate"

\* Some configs of one stage are judged, all on tests of that stage.
Judge(s) ==
  \E passed, failed \in SUBSET {c \in Configs : stage[c] = s} :
    /\ stage' = [c \in Configs |-> IF c \in passed THEN "verified"
                                   ELSE IF c \in failed THEN Struck(c)
                                   ELSE stage[c]]
    /\ strikes' = [c \in Configs |-> IF c \in passed THEN 0
                                     ELSE IF c \in failed THEN strikes[c] + 1
                                     ELSE strikes[c]]

Forget ==
  /\ \E c \in Configs : stage[c] = "removed" /\ stage' = [stage EXCEPT ![c] = "gone"]
  /\ UNCHANGED strikes

Next == Import \/ (\E s \in Tested : Judge(s)) \/ Forget

Spec == Init /\ [][Next]_lifeVars
==============================================================================
