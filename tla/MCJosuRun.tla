----------------------------- MODULE MCJosuRun -----------------------------
(* Instances of JosuRun for the model checker. *)
EXTENDS JosuRun, TLC

Symmetry == Permutations(Runs) \cup Permutations(Paths) \cup Permutations(Contents)

(***************************************************************************)
(* Some steps commute with those of the others, as nobody else reads what  *)
(* they write or writes what they read: that a run begins, that its agent  *)
(* returns and that its record is saved; of a cleanup, everything but      *)
(* git's list of the worktrees, a removal and the unlinking of a marker.   *)
(* So it is enough to look at behaviours in which the others rest while a  *)
(* run or a cleanup stands before or after such a step.                    *)
(***************************************************************************)
RunGoesOn(r) == run[r].stage \in {"stash", "checks", "save"}

CleanupGoesOn ==
  \/ cleanup.stage \in {"list", "mark"}
  \/ cleanup.stage = "remove" /\ cleanup.names = {}

MCNext ==
  /\ Next
  /\ \A r \in Runs : RunGoesOn(r) => run'[r] # run[r]
  /\ CleanupGoesOn => cleanup' # cleanup

MCSafeSpec == Init /\ [][MCNext]_vars
MCSpec == MCSafeSpec /\ Fairness
=============================================================================
