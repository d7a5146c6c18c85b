---------------------------- MODULE MCBudgetedRun ----------------------------
(* The run's worktree, an older one, and two processes that scan for them. *)
EXTENDS BudgetedRun

CONSTANTS own, old, s1, s2, w1, w2

(***************************************************************************)
(* A scan sees of the run only whether its worktree is listed, and the log *)
(* only its record; neither sees the clock.  So their steps commute with   *)
(* the others of the run, and it is enough to look at behaviours in which  *)
(* the clock rests while a scan or `josu log` is under way, one of these   *)
(* rests while the other is, and scans run only before the worktree is     *)
(* listed, before it is removed, and when the run is over.                 *)
(***************************************************************************)
ScanRests == \A s \in Scanners : scan[s] = Scan!NoScan

MCNext ==
  /\ Next
  /\ scan' # scan => stage \in {"add", "review", "ended", "killed"} /\ now = 0 /\ log = NoLog
  /\ log' # log => now = 0 /\ ScanRests
  /\ now' > 0 => ScanRests /\ log = NoLog

MCSpec == Init /\ [][MCNext]_vars /\ Fairness
=============================================================================
