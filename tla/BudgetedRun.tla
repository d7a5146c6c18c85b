----------------------------- MODULE BudgetedRun -----------------------------
(***************************************************************************)
(* One `josu run` by the clock (orchestrator/run.py), and what it leaves   *)
(* for others to read: its worktree, which the scans of MarkerScan find,   *)
(* and its RunRecord, which `josu log` shows.                              *)
(*                                                                         *)
(* run_under_circuit_breaker is called twice with one breaker: for the     *)
(* preparation, whose git commands get the timeout that was left when it   *)
(* began, each of them anew; and for the agent.  What the agent and the    *)
(* merge do to files is JosuRun's.                                         *)
(***************************************************************************)
EXTENDS CircuitBreaker

CONSTANTS
  FileTime,      \* the longest that work on files without a timeout takes: writing the
                 \* manifest, and reading it and josu.toml again before the agent
  Worktrees, Scanners, MaxKills,
  Own            \* the worktree of this run

ASSUME OwnAssumption == Own \in Worktrees
ASSUME FileAssumption == FileTime \in Nat
ASSUME KillsAssumption == MaxKills \in Nat

VARIABLES
  stage,         \* where run_task stands
  since,         \* when the current subprocess began
  limit,         \* its timeout
  seeded,        \* `git stash create` printed a stash
  outcome,       \* of the RunRecord
  record,        \* the file of the RunRecord
  log,           \* `josu log`
  listed, marker, scan, kills, cut                          \* of MarkerScan

local == <<stage, since, limit, seeded, outcome>>
vars == <<breaker, local, record, log, listed, marker, scan, kills, cut>>

Scan == INSTANCE MarkerScan

Git == {"stash", "add", "apply", "snapshot"}
Timed == Git \cup {"agent"}                    \* subprocesses with a timeout
Files == {"manifest", "load"}
Bounded == Timed \cup Files \cup {"checks"}    \* within the try of the breaker
Stages == Bounded \cup {"idle", "review", "saving", "writing", "ended", "killed"}
Outcomes == {"error", "circuit_breaker_timeout", "merged", "rejected", "diverged"}

NoLog == [at |-> "idle", what |-> "older", after |-> FALSE]

TypeOK ==
  /\ BreakerTypeOK
  /\ stage \in Stages
  /\ since \in Nat /\ limit \in 0..Timeout
  /\ seeded \in BOOLEAN
  /\ outcome \in Outcomes
  /\ record \in {"absent", "empty", "whole"}
  /\ log \in [at : {"idle", "chosen", "shown", "failed"}, what : {"run", "older"},
              after : BOOLEAN]
  /\ Scan!TypeOK
  /\ stage \notin Bounded => begun = None

Init ==
  /\ BreakerInit
  /\ stage = "idle" /\ since = 0 /\ limit = 0 /\ seeded = FALSE /\ outcome = "error"
  /\ record = "absent"
  /\ log = NoLog
  /\ Scan!Init /\ Own \notin listed

Others == UNCHANGED <<record, log, marker, scan, kills, cut>>

(***************************************************************************)
(* Under the breaker                                                       *)
(***************************************************************************)
Enter(next) == stage' = next /\ since' = now /\ limit' = Remaining

(* Out of the try: the breaker has served. *)
LeaveFor(next) == Discard /\ stage' = next /\ since' = 0 /\ limit' = 0 /\ seeded' = FALSE

(* Mutant: a stopped run saves no record. *)
StopUnsaved == LeaveFor("ended") /\ outcome' = "circuit_breaker_timeout"

(* CircuitBreakerTimeoutError: the worktree is left in place. *)
Stop == LeaveFor("saving") /\ outcome' = "circuit_breaker_timeout"

Begin ==
  /\ stage = "idle"
  /\ Start
  /\ Enter("stash")
  /\ UNCHANGED <<seeded, outcome, listed>> /\ Others

GoOn(from, to) ==
  /\ stage = from
  /\ stage' = to /\ since' = now
  /\ UNCHANGED <<breaker, limit, outcome>> /\ Others

StashCreated == seeded' \in BOOLEAN /\ GoOn("stash", "add") /\ UNCHANGED listed

WorktreeAdded ==
  /\ listed' = listed \cup {Own}
  /\ GoOn("add", IF seeded THEN "apply" ELSE "snapshot")
  /\ UNCHANGED seeded

StashApplied == GoOn("apply", "snapshot") /\ UNCHANGED <<seeded, listed>>

SnapshotTaken == GoOn("snapshot", "manifest") /\ UNCHANGED <<seeded, listed>>

(* Mutant: the agent gets the whole budget again. *)
ManifestWrittenAfresh ==
  /\ stage = "manifest"
  /\ IF Tripped
     THEN Stop
     ELSE /\ Start
          /\ stage' = "load" /\ since' = now /\ limit' = Timeout /\ UNCHANGED <<seeded, outcome>>
  /\ UNCHANGED listed /\ Others

(* The second call under the breaker: check(), and the agent's timeout is   *)
(* read ...                                                                *)
ManifestWritten ==
  /\ stage = "manifest"
  /\ IF Tripped
     THEN Stop
     ELSE Start /\ Enter("load") /\ UNCHANGED <<seeded, outcome>>
  /\ UNCHANGED listed /\ Others

(* ... which begins when the manifest and josu.toml have been read again. *)
Loaded == GoOn("load", "agent") /\ UNCHANGED <<seeded, listed>>

(* The agent is done; the adapter's checks of what it did have no timeout. *)
AgentReturns == GoOn("agent", "checks") /\ UNCHANGED <<seeded, listed>>

Waits ==
  /\ stage = "agent"
  /\ \E w \in Waiters : Pause(w) \/ Resume(w)
  /\ UNCHANGED <<local, listed>> /\ Others

(* Time passes until a timeout is due. *)
TimePasses ==
  /\ \/ stage \in Timed /\ now - since < limit
     \/ stage \in Files /\ now - since < FileTime
  /\ Tick
  /\ UNCHANGED <<local, listed>> /\ Others

(* Mutant: the deadline is counted from the start of the run. *)
ExpiredSinceStart == stage \in Timed /\ now - begun >= limit

(* subprocess.TimeoutExpired *)
Expired == stage \in Timed /\ now - since >= limit

(* `git worktree add` may have registered the worktree before it is killed. *)
Expire ==
  /\ Expired
  /\ Stop
  /\ listed' \in {listed, IF stage = "add" THEN listed \cup {Own} ELSE listed}
  /\ Others

(* A git command fails, the manifest or josu.toml is not valid, or a check *)
(* of the adapter raises.                                                  *)
Fail ==
  /\ stage \in Bounded
  /\ LeaveFor("saving")
  /\ outcome' = "error"
  /\ UNCHANGED listed /\ Others

ChecksPass ==
  /\ stage = "checks"
  /\ LeaveFor("review")
  /\ UNCHANGED <<outcome, listed>> /\ Others

(***************************************************************************)
(* After the breaker                                                       *)
(***************************************************************************)

(* The developer decides; the worktree of a merged or rejected run goes,   *)
(* which fails if `josu cleanup` has taken it.                             *)
Decide ==
  /\ stage = "review"
  /\ stage' = "saving"
  /\ \/ Own \in listed /\ outcome' \in {"merged", "rejected"} /\ listed' = listed \ {Own}
     \/ outcome' \in {"diverged", "error"} /\ UNCHANGED listed
  /\ UNCHANGED <<breaker, since, limit, seeded>> /\ Others

(* save_run: the file is truncated, ... *)
OpenRecord ==
  /\ stage = "saving"
  /\ stage' = "writing"
  /\ record' = "empty"
  /\ UNCHANGED <<breaker, since, limit, seeded, outcome, log, listed, marker, scan, kills, cut>>

(* ... and written. *)
WriteRecord ==
  /\ stage = "writing"
  /\ stage' = "ended"
  /\ record' = "whole"
  /\ UNCHANGED <<breaker, since, limit, seeded, outcome, log, listed, marker, scan, kills, cut>>

KillRun ==
  /\ stage \notin {"idle", "ended", "killed"}
  /\ kills > 0
  /\ kills' = kills - 1
  /\ LeaveFor("killed")
  /\ UNCHANGED <<outcome, record, log, listed, marker, scan, cut>>

(***************************************************************************)
(* `josu log`, with the record of an older run beside this one's           *)
(***************************************************************************)

(* The newest file is chosen ... *)
LogBegins ==
  /\ log.at = "idle"
  /\ log' = [at |-> "chosen", what |-> IF record = "absent" THEN "older" ELSE "run",
             after |-> stage = "ended"]
  /\ UNCHANGED <<breaker, local, record, listed, marker, scan, kills, cut>>

(* ... and read; json.loads raises on an empty one. *)
LogReads ==
  /\ log.at = "chosen"
  /\ log' = [log EXCEPT !.at = IF log.what = "run" /\ record = "empty" THEN "failed" ELSE "shown"]
  /\ UNCHANGED <<breaker, local, record, listed, marker, scan, kills, cut>>

LogEnds ==
  /\ log.at \in {"shown", "failed"}
  /\ log' = NoLog
  /\ UNCHANGED <<breaker, local, record, listed, marker, scan, kills, cut>>

(***************************************************************************)
(* The specification                                                       *)
(***************************************************************************)
Prepare == Begin \/ StashCreated \/ WorktreeAdded \/ StashApplied \/ SnapshotTaken
Finish == Decide \/ OpenRecord \/ WriteRecord
RunStep ==
  \/ Prepare \/ ManifestWritten \/ Loaded \/ AgentReturns \/ Waits \/ TimePasses \/ Expire \/ Fail
  \/ ChecksPass \/ Finish \/ KillRun
LogStep == LogBegins \/ LogReads \/ LogEnds
ScanStep == Scan!Next /\ UNCHANGED <<breaker, local, record, log>>

Next == RunStep \/ LogStep \/ ScanStep

(* Somebody runs `josu cleanup`, or starts the daemon, again and again. *)
Fairness ==
  \A s \in Scanners : WF_vars(Scan!ScanStep(s) /\ UNCHANGED <<breaker, local, record, log>>)

Spec == Init /\ [][Next]_vars /\ Fairness

(***************************************************************************)
(* Properties                                                              *)
(***************************************************************************)

(* "One continuous wall-clock budget" (run.py:239-252): however long the    *)
(* preparation was, no agent is at work when Timeout has passed since the  *)
(* run began, but for the time that the manifest and josu.toml took to be  *)
(* read between the clock and the agent; and the preparation, whose four   *)
(* git commands may each take all of it, ends within four of them.         *)
BudgetHolds ==
  /\ stage \in {"load", "agent"} => now - begun <= Timeout + FileTime
  /\ stage \in Git => now - begun <= 4 * Timeout
  /\ stage = "manifest" => now - begun <= 4 * Timeout + FileTime

(* The breaker stops a run only when its budget has passed on the clock. *)
StoppedOnlyWhenSpent ==
  [][outcome # "circuit_breaker_timeout" /\ outcome' = "circuit_breaker_timeout"
       => now - begun >= Timeout]_vars

(* `josu log`, begun after a run has ended in whichever way, shows that run *)
(* (latest_run, run.py's finally).                                         *)
LogTellsOfTheRun ==
  log.after => log.what = "run" /\ log.at # "failed"

(* Of the scans of `josu cleanup` and `josu daemon start`, see MarkerScan. *)
ScansAreReliable == Scan!ScansAreReliable

(* The worktree of a run that the breaker has stopped is left for `josu    *)
(* cleanup` to surface (run.py:311-314): a scan reports it, unless a       *)
(* process was killed while it wrote a marker.                             *)
StoppedRunIsSurfaced ==
  stage = "ended" /\ outcome = "circuit_breaker_timeout" /\ Own \in listed
    ~> \/ \E s \in Scanners : scan[s].at = "done" /\ Own \in scan[s].found
       \/ Own \notin listed
       \/ cut
=============================================================================
