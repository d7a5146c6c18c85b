-------------------------- MODULE BudgetedRunProofs --------------------------
(***************************************************************************)
(* The stopwatch, the budget and the scans of BudgetedRun, for any timeout *)
(* and any number of waiters, worktrees and processes.                     *)
(***************************************************************************)
EXTENDS BudgetedRun, TLAPS

(***************************************************************************)
(* The stopwatch                                                           *)
(***************************************************************************)

(* Two waits that overlap leave the breaker running while one of them goes *)
(* on, so what it counts is then only bounded.                             *)
Counting ==
  /\ begun \in Nat /\ begun <= now
  /\ paused <=> segment = None
  /\ segment # None => begun <= segment /\ segment <= now /\ accumulated <= segment - begun
  /\ segment = None => accumulated <= now - begun
  /\ ~ overlapped =>
       /\ paused <=> waiting # {}
       /\ \A v, w \in waiting : v = w
       /\ active = accumulated + (IF segment = None THEN 0 ELSE now - segment)

BreakerInv ==
  /\ BreakerTypeOK
  /\ begun # None => Counting

(* A breaker that is new has counted nothing. *)
LEMMA BreakerBegins == BreakerInit => BreakerInv
<1> SUFFICES ASSUME BreakerInit PROVE BreakerInv
  OBVIOUS
<1>1. now \in Nat /\ accumulated \in Nat /\ active \in Nat
  BY DEF BreakerInit
<1>2. segment \in Nat \cup {None}
  BY DEF BreakerInit
<1>3. paused \in BOOLEAN /\ overlapped \in BOOLEAN
  BY DEF BreakerInit
<1>4. begun \in Nat \cup {None} /\ begun = None
  BY DEF BreakerInit
<1>5. waiting \subseteq Waiters
  BY DEF BreakerInit
<1> QED
  BY <1>1, <1>2, <1>3, <1>4, <1>5 DEF BreakerInv, BreakerTypeOK

(* Nor has one that is dropped. *)
LEMMA BreakerEnds == Discard => BreakerInv'
<1> SUFFICES ASSUME Discard PROVE BreakerInv'
  OBVIOUS
<1>1. now' \in Nat /\ accumulated' \in Nat /\ active' \in Nat
  BY DEF Discard
<1>2. segment' \in Nat \cup {None}
  BY DEF Discard
<1>3. paused' \in BOOLEAN /\ overlapped' \in BOOLEAN
  BY DEF Discard
<1>4. begun' \in Nat \cup {None} /\ begun' = None
  BY DEF Discard
<1>5. waiting' \subseteq Waiters
  BY DEF Discard
<1> QED
  BY <1>1, <1>2, <1>3, <1>4, <1>5 DEF BreakerInv, BreakerTypeOK

(* start() opens a segment, or changes nothing. *)
LEMMA BreakerStarts ==
  BreakerInv /\ Start /\ (begun = None => segment = None /\ ~ paused /\ accumulated = 0
                             /\ active = 0 /\ waiting = {} /\ ~ overlapped)
    => BreakerInv' /\ begun' # None
  BY SMTT(30) DEF Start, BreakerInv, BreakerTypeOK, None, Counting

(* pause() moves what the running segment has to the accumulated time. *)
LEMMA BreakerPauses ==
  ASSUME BreakerInv, begun # None, NEW w \in Waiters, Pause(w)
  PROVE  BreakerInv'
  BY SMTT(30) DEF Pause, BreakerInv, BreakerTypeOK, None, Counting, Running

(* resume() opens a new segment, too early if somebody else still waits. *)
LEMMA BreakerResumes ==
  ASSUME BreakerInv, begun # None, NEW w \in Waiters, Resume(w)
  PROVE  BreakerInv'
<1>1. BreakerTypeOK'
  <2>1. now' \in Nat /\ accumulated' \in Nat /\ active' \in Nat /\ segment' \in Nat \cup {None}
    BY DEF Resume, BreakerInv, BreakerTypeOK
  <2>2. paused' \in BOOLEAN /\ overlapped' \in BOOLEAN /\ begun' \in Nat \cup {None}
    BY DEF Resume, BreakerInv, BreakerTypeOK
  <2>3. waiting' \subseteq Waiters
    BY DEF Resume, BreakerInv, BreakerTypeOK
  <2> QED
    BY <2>1, <2>2, <2>3 DEF BreakerTypeOK
<1>2. waiting' = waiting \ {w} /\ w \in waiting
  BY DEF Resume
<1>3. ~ overlapped => segment = None /\ waiting' = {}
  BY <1>2 DEF BreakerInv, Counting
<1>4. Counting'
  BY <1>3, SMTT(30) DEF Resume, BreakerInv, BreakerTypeOK, None, Counting
<1> QED
  BY <1>1, <1>4 DEF BreakerInv

(* Time passes for the clock and, if nobody waits, for the running         *)
(* segment.                                                                *)
LEMMA BreakerTicks == BreakerInv /\ Tick => BreakerInv'
  BY SMTT(30) DEF Tick, BreakerInv, BreakerTypeOK, None, Counting

(* What the invariant of the stopwatch is for. *)
LEMMA BreakerCounts == BreakerInv => ElapsedIsActive
  BY DEF BreakerInv, BreakerTypeOK, None, Counting, ElapsedIsActive, Elapsed, Running

(***************************************************************************)
(* The budget                                                              *)
(***************************************************************************)
Preparing == Git \cup {"manifest"}

RunTypes ==
  /\ stage \in Stages
  /\ since \in Nat /\ limit \in 0..Timeout
  /\ seeded \in BOOLEAN
  /\ outcome \in Outcomes

(* How late each step of the preparation may begin. *)
BeginsInTime ==
  /\ stage = "stash" => since = begun
  /\ stage = "add" => since <= begun + Timeout
  /\ stage = "apply" => since <= begun + 2 * Timeout
  /\ stage = "snapshot" => since <= begun + 3 * Timeout
  /\ stage = "manifest" => since <= begun + 4 * Timeout

(* Nobody waits while the run is prepared, so the breaker then counts all  *)
(* of the time, and the agent's timeout ends with the budget, later only by *)
(* what the files took that were read after the clock.                     *)
Clock ==
  /\ stage \in Bounded => begun # None /\ begun <= since /\ since <= now
  /\ stage \in Preparing => segment = begun /\ accumulated = 0 /\ waiting = {} /\ ~ paused
  /\ stage \in Git => limit = Timeout /\ now <= since + Timeout
  /\ stage \in Files => now <= since + FileTime
  /\ stage = "load" => since + limit = begun + Timeout
  /\ stage = "agent" => /\ begun + Timeout <= since + limit
                        /\ since + limit <= begun + Timeout + FileTime
                        /\ now <= since + limit

RunInv ==
  /\ RunTypes
  /\ stage \notin Bounded => BreakerInit
  /\ BeginsInTime
  /\ Clock

BudgetInv == BreakerInv /\ RunInv

(* The run has not begun. *)
LEMMA BudgetBegins == Init => BudgetInv
<1> SUFFICES ASSUME Init PROVE BudgetInv
  OBVIOUS
<1>1. BreakerInit /\ BreakerInv
  BY BreakerBegins DEF Init
<1>2. RunTypes
  <2>1. stage \in Stages /\ outcome \in Outcomes
    BY DEF Init, Stages, Outcomes
  <2>2. since \in Nat /\ limit \in 0..Timeout
    BY TimeoutAssumption DEF Init
  <2>3. seeded \in BOOLEAN
    BY DEF Init
  <2> QED
    BY <2>1, <2>2, <2>3 DEF RunTypes
<1>3. stage = "idle"
  BY DEF Init
<1> QED
  BY <1>1, <1>2, <1>3
  DEF BudgetInv, RunInv, BeginsInTime, Clock, Bounded, Timed, Git, Files, Preparing

(* Out of the try, with an outcome. *)
LEMMA LeavesTheBudget ==
  ASSUME NEW next \in Stages \ Bounded, LeaveFor(next), outcome' \in Outcomes
  PROVE  BudgetInv'
<1>1. BreakerInv'
  BY BreakerEnds DEF LeaveFor
<1>2. BreakerInit'
  BY DEF LeaveFor, Discard, BreakerInit
<1>3. RunTypes'
  <2>1. stage' \in Stages /\ outcome' \in Outcomes
    BY DEF LeaveFor
  <2>2. since' \in Nat /\ limit' \in 0..Timeout
    BY TimeoutAssumption DEF LeaveFor
  <2>3. seeded' \in BOOLEAN
    BY DEF LeaveFor
  <2> QED
    BY <2>1, <2>2, <2>3 DEF RunTypes
<1>4. stage' \notin Bounded
  BY DEF LeaveFor
<1>5. stage' \notin Preparing /\ stage' \notin {"stash", "add", "apply", "snapshot", "manifest", "load",
                                             "agent"}
  BY <1>4 DEF Bounded, Timed, Git, Files, Preparing
<1> QED
  BY <1>1, <1>2, <1>3, <1>4, <1>5 DEF BudgetInv, RunInv, BeginsInTime, Clock, Git, Files

(* The except block drops the breaker. *)
LEMMA StopKeepsBudget == Stop => BudgetInv'
<1>1. "saving" \in Stages \ Bounded
  BY DEF Stages, Bounded, Timed, Git, Files
<1>2. "circuit_breaker_timeout" \in Outcomes
  BY DEF Outcomes
<1> QED
  BY <1>1, <1>2, LeavesTheBudget DEF Stop

(* The first command begins with the breaker, and with the whole budget. *)
LEMMA BeginKeepsBudget ==
  ASSUME BudgetInv, Begin PROVE BudgetInv'
<1>1. BreakerInit
  BY DEF BudgetInv, RunInv, Begin, Bounded, Timed, Git, Files
<1>2. BreakerInv' /\ begun' # None
  BY <1>1, BreakerStarts DEF BudgetInv, Begin, BreakerInit, None
<1>3. Elapsed = 0 /\ Remaining = Timeout
  BY <1>1, TimeoutAssumption DEF Elapsed, Remaining, Running, BreakerInit, None
<1>4. stage' = "stash" /\ since' = 0 /\ limit' = Timeout /\ now' = 0 /\ begun' = 0
      /\ segment' = 0 /\ accumulated' = 0 /\ waiting' = {} /\ ~ paused'
  BY <1>1, <1>3 DEF Begin, Start, Enter, BreakerInit, None
<1>5. RunTypes'
  <2>1. stage' \in Stages
    BY <1>4 DEF Stages, Bounded, Timed, Git, Files
  <2>2. since' \in Nat /\ limit' \in 0..Timeout
    BY <1>4, TimeoutAssumption
  <2>3. seeded' \in BOOLEAN /\ outcome' \in Outcomes
    BY DEF Begin, BudgetInv, RunInv, RunTypes
  <2> QED
    BY <2>1, <2>2, <2>3 DEF RunTypes
<1>6. BeginsInTime' /\ Clock'
  BY <1>4, <1>2, TimeoutAssumption, SMT
  DEF BeginsInTime, Clock, Bounded, Timed, Git, Files, Preparing
<1> QED
  BY <1>2, <1>4, <1>5, <1>6 DEF BudgetInv, RunInv, Bounded, Timed, Git, Files

(* The next step begins when the last one has ended in time. *)
LEMMA GoOnKeepsBudget ==
  ASSUME BudgetInv, NEW from \in Timed \cup {"load"}, NEW to \in Bounded,
         GoOn(from, to), seeded' \in BOOLEAN,
         \/ from = "stash" /\ to = "add"
         \/ from = "add" /\ to \in {"apply", "snapshot"}
         \/ from = "apply" /\ to = "snapshot"
         \/ from = "snapshot" /\ to = "manifest"
         \/ from = "load" /\ to = "agent"
         \/ from = "agent" /\ to = "checks"
  PROVE  BudgetInv'
<1>1. BreakerInv'
  BY DEF BudgetInv, GoOn, breaker, BreakerInv, BreakerTypeOK, Counting
<1>2. UNCHANGED <<now, begun, segment, accumulated, waiting, paused, limit>>
      /\ stage = from /\ stage' = to /\ since' = now
  BY DEF GoOn, breaker
<1>3. now \in Nat /\ begun \in Nat
  BY <1>2 DEF BudgetInv, BreakerInv, BreakerTypeOK, RunInv, Clock, Bounded, Files
<1>4. RunTypes'
  BY <1>2, <1>3 DEF GoOn, BudgetInv, RunInv, RunTypes, Stages
<1>5. BeginsInTime'
  BY <1>2, <1>3, TimeoutAssumption, SMTT(30)
  DEF BudgetInv, RunInv, RunTypes, BeginsInTime, Clock, Bounded, Timed, Git, Files
<1>6. Clock'
  BY <1>2, <1>3, TimeoutAssumption, FileAssumption, SMTT(30)
  DEF BudgetInv, RunInv, RunTypes, Clock, Bounded, Timed, Git, Files, Preparing
<1> QED
  BY <1>1, <1>2, <1>4, <1>5, <1>6 DEF BudgetInv, RunInv

(* The agent gets what the breaker has left. *)
LEMMA ManifestKeepsBudget ==
  ASSUME BudgetInv, ManifestWritten PROVE BudgetInv'
<1>1. CASE Tripped
  BY <1>1, StopKeepsBudget DEF ManifestWritten
<1>2. CASE ~ Tripped
  <2>1. stage = "manifest" /\ stage \in Preparing /\ stage \in Bounded
    BY DEF ManifestWritten, Preparing, Bounded, Files
  <2>2. segment = begun /\ accumulated = 0 /\ waiting = {} /\ ~ paused
    BY <2>1 DEF BudgetInv, RunInv, Clock
  <2>3. begun \in Nat /\ now \in Nat /\ begun <= now /\ begun # None
    BY <2>1 DEF BudgetInv, BreakerInv, BreakerTypeOK, Counting, RunInv, Clock
  <2>4. Elapsed = now - begun
    BY <2>2, <2>3 DEF Elapsed, Running, None
  <2>5. Remaining = Timeout - (now - begun) /\ Remaining \in 0..Timeout
    BY <1>2, <2>3, <2>4, TimeoutAssumption DEF Remaining, Tripped
  <2>6. stage' = "load" /\ since' = now /\ limit' = Remaining
        /\ UNCHANGED <<now, begun, segment, accumulated, waiting, paused, seeded, outcome>>
    BY <1>2, <2>2, <2>3 DEF ManifestWritten, Enter, Start, None
  <2>7. BreakerInv'
    BY <1>2, <2>3, BreakerStarts DEF ManifestWritten, BudgetInv
  <2>8. RunTypes'
    <3>1. stage' \in Stages
      BY <2>6 DEF Stages, Bounded, Timed, Files
    <3>2. since' \in Nat /\ limit' \in 0..Timeout
      BY <2>3, <2>5, <2>6
    <3>3. seeded' \in BOOLEAN /\ outcome' \in Outcomes
      BY <2>6 DEF BudgetInv, RunInv, RunTypes
    <3> QED
      BY <3>1, <3>2, <3>3 DEF RunTypes
  <2>9. BeginsInTime' /\ Clock'
    BY <2>3, <2>5, <2>6, TimeoutAssumption, FileAssumption, SMT
    DEF BeginsInTime, Clock, Bounded, Timed, Git, Files, Preparing
  <2> QED
    BY <2>6, <2>7, <2>8, <2>9 DEF BudgetInv, RunInv, Bounded, Timed, Files
<1> QED
  BY <1>1, <1>2

(* Waits change what the breaker counts, and no timeout that is running. *)
LEMMA WaitsKeepBudget ==
  ASSUME BudgetInv, Waits PROVE BudgetInv'
<1>1. stage = "agent" /\ begun # None
  BY DEF Waits, BudgetInv, RunInv, Clock, Bounded, Timed, Files
<1>2. BreakerInv'
  BY <1>1, BreakerPauses, BreakerResumes DEF Waits, BudgetInv
<1>3. UNCHANGED <<now, begun, local>>
  BY DEF Waits, Pause, Resume
<1>4. RunTypes'
  BY <1>3 DEF local, BudgetInv, RunInv, RunTypes
<1>5. BeginsInTime' /\ Clock' /\ stage' \in Bounded
  BY <1>1, <1>3
  DEF local, BudgetInv, RunInv, BeginsInTime, Clock, Bounded, Timed, Git, Files, Preparing
<1> QED
  BY <1>2, <1>4, <1>5 DEF BudgetInv, RunInv

(* Time passes up to the timeout of what is running. *)
LEMMA TimeKeepsBudget ==
  ASSUME BudgetInv, TimePasses PROVE BudgetInv'
<1>1. BreakerInv'
  BY BreakerTicks DEF TimePasses, BudgetInv
<1>2. now' = now + 1 /\ UNCHANGED <<begun, segment, accumulated, waiting, paused, local>>
  BY DEF TimePasses, Tick
<1>3. now \in Nat /\ since \in Nat /\ limit \in Nat /\ stage \in Bounded
  BY TimeoutAssumption
  DEF TimePasses, BudgetInv, BreakerInv, BreakerTypeOK, RunInv, RunTypes, Bounded
<1>4. RunTypes'
  BY <1>2 DEF local, BudgetInv, RunInv, RunTypes
<1>5. BeginsInTime'
  BY <1>2 DEF local, BudgetInv, RunInv, BeginsInTime
<1>6. begun \in Nat /\ begun <= since /\ since <= now
  BY <1>3 DEF BudgetInv, BreakerInv, BreakerTypeOK, RunInv, Clock
<1>7. Clock'
  BY <1>2, <1>3, <1>6, TimeoutAssumption, FileAssumption, SMTT(30)
  DEF TimePasses, local, BudgetInv, RunInv, Clock, Bounded, Timed, Git, Files, Preparing
<1> QED
  BY <1>1, <1>2, <1>3, <1>4, <1>5, <1>7 DEF BudgetInv, RunInv, local

(* After the breaker there is no clock. *)
LEMMA FinishKeepsBudget ==
  ASSUME BudgetInv, Finish PROVE BudgetInv'
<1>1. UNCHANGED <<breaker, since, limit, seeded>>
  BY DEF Finish, Decide, OpenRecord, WriteRecord
<1>2. stage \in Stages \ Bounded /\ stage' \in Stages \ Bounded
  BY DEF Finish, Decide, OpenRecord, WriteRecord, Stages, Bounded, Timed, Git, Files
<1>3. outcome' \in Outcomes
  BY DEF Finish, Decide, OpenRecord, WriteRecord, Outcomes, BudgetInv, RunInv, RunTypes
<1>4. RunTypes'
  BY <1>1, <1>2, <1>3 DEF BudgetInv, RunInv, RunTypes
<1>5. BreakerInit'
  BY <1>1, <1>2 DEF breaker, BudgetInv, RunInv, BreakerInit
<1>6. BreakerInv'
  BY <1>1 DEF breaker, BudgetInv, BreakerInv, BreakerTypeOK, Counting
<1>7. BeginsInTime' /\ Clock'
  BY <1>2 DEF BeginsInTime, Clock, Bounded, Timed, Git, Files, Preparing
<1> QED
  BY <1>4, <1>5, <1>6, <1>7 DEF BudgetInv, RunInv

(* The steps of others. *)
LEMMA RestKeepsBudget ==
  ASSUME BudgetInv, UNCHANGED <<breaker, local>> PROVE BudgetInv'
  BY DEF breaker, local, BudgetInv, BreakerInv, BreakerTypeOK, Counting, RunInv, RunTypes,
         BreakerInit, BeginsInTime, Clock

(* All steps together. *)
LEMMA BudgetStep == BudgetInv /\ [Next]_vars => BudgetInv'
<1> SUFFICES ASSUME BudgetInv, [Next]_vars PROVE BudgetInv'
  OBVIOUS
<1>1. CASE Begin
  BY <1>1, BeginKeepsBudget
<1>2. CASE StashCreated
  BY <1>2, GoOnKeepsBudget DEF StashCreated, Bounded, Timed, Git, Files
<1>3. CASE WorktreeAdded
  <2>1. GoOn("add", "apply") \/ GoOn("add", "snapshot")
    BY <1>3 DEF WorktreeAdded
  <2>2. seeded' \in BOOLEAN
    BY <1>3 DEF WorktreeAdded, BudgetInv, RunInv, RunTypes
  <2> QED
    BY <2>1, <2>2, GoOnKeepsBudget DEF Bounded, Timed, Git, Files
<1>4. CASE StashApplied
  BY <1>4, GoOnKeepsBudget DEF StashApplied, Bounded, Timed, Git, Files, BudgetInv, RunInv, RunTypes
<1>5. CASE SnapshotTaken
  BY <1>5, GoOnKeepsBudget
  DEF SnapshotTaken, Bounded, Timed, Git, Files, BudgetInv, RunInv, RunTypes
<1>6. CASE ManifestWritten
  BY <1>6, ManifestKeepsBudget
<1>7. CASE Loaded \/ AgentReturns
  BY <1>7, GoOnKeepsBudget
  DEF Loaded, AgentReturns, Bounded, Timed, Git, Files, BudgetInv, RunInv, RunTypes
<1>8. CASE Waits
  BY <1>8, WaitsKeepBudget
<1>9. CASE TimePasses
  BY <1>9, TimeKeepsBudget
<1>10. CASE Expire
  BY <1>10, StopKeepsBudget DEF Expire
<1>11. CASE Fail
  BY <1>11, LeavesTheBudget DEF Fail, Stages, Bounded, Timed, Git, Files, Outcomes
<1>12. CASE ChecksPass
  BY <1>12, LeavesTheBudget
  DEF ChecksPass, Stages, Bounded, Timed, Git, Files, BudgetInv, RunInv, RunTypes
<1>13. CASE Finish
  BY <1>13, FinishKeepsBudget
<1>14. CASE KillRun
  BY <1>14, LeavesTheBudget
  DEF KillRun, Stages, Bounded, Timed, Git, Files, BudgetInv, RunInv, RunTypes
<1>15. CASE LogStep
  BY <1>15, RestKeepsBudget DEF LogStep, LogBegins, LogReads, LogEnds
<1>16. CASE ScanStep
  BY <1>16, RestKeepsBudget DEF ScanStep
<1>17. CASE UNCHANGED vars
  BY <1>17, RestKeepsBudget DEF vars
<1> QED
  BY <1>1, <1>2, <1>3, <1>4, <1>5, <1>6, <1>7, <1>8, <1>9, <1>10, <1>11, <1>12, <1>13,
     <1>14, <1>15, <1>16, <1>17
  DEF Next, RunStep, Prepare

(* Hence the invariant of the budget. *)
LEMMA BudgetKept == Spec => []BudgetInv
<1>1. Init => BudgetInv
  BY BudgetBegins
<1> QED
  BY <1>1, BudgetStep, PTL DEF Spec

(* Whatever the timeout and however many callers wait, the breaker counts  *)
(* the time in which nobody waited, unless two waits overlap.              *)
THEOREM BreakerIsExact == Spec => []ElapsedIsActive
<1>1. BudgetInv => ElapsedIsActive
  BY BreakerCounts DEF BudgetInv
<1> QED
  BY <1>1, BudgetKept, PTL

(* The agent never works beyond the budget of the run, and the preparation *)
(* never takes more than four of them.                                     *)
THEOREM BudgetIsKept == Spec => []BudgetHolds
<1>1. BudgetInv => BudgetHolds
  <2> SUFFICES ASSUME BudgetInv PROVE BudgetHolds
    OBVIOUS
  <2>1. CASE stage \notin Bounded
    BY <2>1 DEF BudgetHolds, Bounded, Timed, Git, Files
  <2>2. CASE stage \in Bounded
    <3>1. now \in Nat /\ begun \in Nat /\ since \in Nat /\ limit \in Nat
      BY <2>2, TimeoutAssumption
      DEF BudgetInv, BreakerInv, BreakerTypeOK, RunInv, RunTypes, Clock
    <3> QED
      BY <2>2, <3>1, TimeoutAssumption, FileAssumption, SMTT(30)
      DEF BudgetInv, RunInv, BeginsInTime, Clock, BudgetHolds, Git, Files, Timed
  <2> QED
    BY <2>1, <2>2
<1> QED
  BY <1>1, BudgetKept, PTL

(* And the breaker never stops a run before its budget has passed, by      *)
(* neither of its two mechanisms.                                          *)
THEOREM NoEarlyStop == Spec => StoppedOnlyWhenSpent
<1>1. ASSUME BudgetInv, Next, outcome # "circuit_breaker_timeout",
             outcome' = "circuit_breaker_timeout"
      PROVE  now - begun >= Timeout
  <2>1. Expire \/ (ManifestWritten /\ Tripped)
    BY <1>1
    DEF Next, RunStep, Prepare, Begin, StashCreated, WorktreeAdded, StashApplied, SnapshotTaken,
        GoOn, ManifestWritten, Loaded, AgentReturns, Waits, TimePasses, Fail, ChecksPass, Finish,
        Decide, OpenRecord, WriteRecord, KillRun, LogStep, LogBegins, LogReads, LogEnds, ScanStep,
        local
  <2>2. stage \in Bounded
    BY <2>1 DEF Expire, Expired, ManifestWritten, Bounded, Files
  <2>3. now \in Nat /\ begun \in Nat /\ since \in Nat /\ limit \in Nat /\ begun <= since
    BY <1>1, <2>2, TimeoutAssumption
    DEF BudgetInv, BreakerInv, BreakerTypeOK, RunInv, RunTypes, Clock
  <2>4. CASE Expire
    BY <1>1, <2>2, <2>3, <2>4, TimeoutAssumption, SMT
    DEF Expire, Expired, BudgetInv, RunInv, Clock, Timed
  <2>5. CASE ManifestWritten /\ Tripped
    <3>1. segment = begun /\ accumulated = 0
      BY <1>1, <2>5 DEF ManifestWritten, BudgetInv, RunInv, Clock, Preparing
    <3> QED
      BY <2>3, <2>5, <3>1, TimeoutAssumption DEF Tripped, Elapsed, Running
  <2> QED
    BY <2>1, <2>4, <2>5
<1>2. BudgetInv /\ [Next]_vars => [outcome # "circuit_breaker_timeout"
          /\ outcome' = "circuit_breaker_timeout" => now - begun >= Timeout]_vars
  BY <1>1
<1> QED
  BY <1>2, BudgetKept, PTL DEF Spec, StoppedOnlyWhenSpent

(***************************************************************************)
(* The scans                                                               *)
(***************************************************************************)
Marked == Scan!Marked
Busy(s) == Scan!Busy(s)

(* Git has not heard of the run's worktree, and nobody else has. *)
Fresh ==
  stage \in {"idle", "stash", "add"} =>
    /\ Own \notin listed
    /\ marker[Own] = "absent"
    /\ \A s \in Scanners : /\ Own \notin scan[s].found
                           /\ Own \notin scan[s].target
                           /\ Own \notin scan[s].owed
                           /\ Own \notin scan[s].todo

(* A half-written marker has a writer, or had one that was killed. *)
Half ==
  \A w \in Worktrees : marker[w] = "empty" =>
    cut \/ \E s \in Scanners : scan[s].at = "writing" /\ w \in scan[s].target

(* Nobody takes a marker from a process that is alone. *)
Alone(s) ==
  scan[s].alone =>
    /\ \A t \in Scanners \ {s} : ~ Busy(t)
    /\ scan[s].at \in {"reading", "rereading"} => scan[s].files \subseteq Marked
    /\ scan[s].at = "failed" => cut

(* What git reported is marked, or will be, and is then read. *)
Complete(s) ==
  /\ scan[s].at \in {"reading", "marking", "writing"} => scan[s].found \cap listed \subseteq Marked
  /\ scan[s].at \in {"marking", "writing"} => scan[s].owed \cap listed \subseteq scan[s].todo \cup Marked
  /\ scan[s].at = "rereading" => scan[s].owed \cap listed \subseteq scan[s].files \cup scan[s].found
  /\ scan[s].at \in {"done", "removing"} => scan[s].owed \cap listed \subseteq scan[s].found
  /\ scan[s].at = "removing" => scan[s].target \cap listed = {}

Faithful == \A s \in Scanners : Alone(s) /\ Complete(s)

ScanInv == Scan!TypeOK /\ Half /\ Faithful /\ Fresh

(* At first nobody scans, and nothing is marked. *)
LEMMA ScansBegin == Init => ScanInv
<1> SUFFICES ASSUME Init PROVE ScanInv
  OBVIOUS
<1>1. /\ scan = [s \in Scanners |-> Scan!NoScan]
      /\ marker = [w \in Worktrees |-> "absent"]
      /\ listed \subseteq Worktrees /\ Own \notin listed
      /\ kills = MaxKills /\ cut = FALSE
  BY DEF Init, Scan!Init
<1>2. Scan!NoScan \in Scan!Scans
  BY DEF Scan!NoScan, Scan!Scans, Scan!Steps
<1>3. Scan!TypeOK
  <2>1. scan \in [Scanners -> Scan!Scans]
    BY <1>1, <1>2
  <2>2. cut \in BOOLEAN
    BY <1>1
  <2>3. kills \in 0..MaxKills
    BY <1>1, KillsAssumption
  <2> QED
    BY <1>1, <2>1, <2>2, <2>3 DEF Scan!TypeOK
<1>4. \A s \in Scanners : scan[s] = Scan!NoScan
  BY <1>1
<1>5. Half
  BY <1>1 DEF Half
<1>6. Faithful
  BY <1>4 DEF Faithful, Alone, Complete, Scan!NoScan
<1>7. Fresh
  BY <1>1, <1>4, OwnAssumption DEF Fresh, Scan!NoScan
<1> QED
  BY <1>3, <1>5, <1>6, <1>7 DEF ScanInv

(* A process that does not move, while others do not start: what it knows  *)
(* stays true as long as no marker of a listed worktree goes.              *)
LEMMA Undisturbed ==
  ASSUME ScanInv, NEW s \in Scanners, scan'[s] = scan[s],
         \A t \in Scanners : Busy(t)' => Busy(t),
         listed' \subseteq listed, Marked \cap listed' \subseteq Marked',
         scan[s].alone => Marked \subseteq Marked',
         cut => cut'
  PROVE  (Alone(s) /\ Complete(s))'
<1>1. Alone(s) /\ Complete(s)
  BY DEF ScanInv, Faithful
<1>2. Alone(s)'
  BY <1>1 DEF Alone
<1>3. Complete(s)'
  BY <1>1 DEF Complete
<1> QED
  BY <1>2, <1>3

(* The run adds its worktree once, and otherwise only takes it away. *)
LEMMA RunKeepsScans ==
  ASSUME ScanInv, UNCHANGED <<marker, scan, cut>>, kills' \in 0..MaxKills,
         listed' \subseteq listed \cup {Own},
         stage \notin {"idle", "stash", "add"} => listed' \subseteq listed,
         stage' \in {"idle", "stash", "add"} => stage \in {"idle", "stash", "add"} /\ listed' = listed
  PROVE  ScanInv'
<1>1. Scan!TypeOK'
  BY OwnAssumption DEF ScanInv, Scan!TypeOK
<1>2. Half'
  BY DEF ScanInv, Half
<1>3. Marked' = Marked /\ \A s \in Scanners : Busy(s)' = Busy(s)
  BY DEF Marked, Scan!Marked, Busy, Scan!Busy
<1>4. ASSUME NEW s \in Scanners PROVE Alone(s)'
  BY <1>3 DEF ScanInv, Faithful, Alone
<1>5. ASSUME NEW s \in Scanners PROVE Complete(s)'
  <2>1. CASE listed' \subseteq listed
    BY <1>3, <2>1 DEF ScanInv, Faithful, Complete
  <2>2. CASE stage \in {"idle", "stash", "add"}
    <3>1. Own \notin scan[s].found /\ Own \notin scan[s].target /\ Own \notin scan[s].owed
      BY <2>2 DEF ScanInv, Fresh
    <3> QED
      BY <1>3, <3>1 DEF ScanInv, Faithful, Complete
  <2> QED
    BY <2>1, <2>2
<1>6. Fresh'
  BY DEF ScanInv, Fresh
<1> QED
  BY <1>1, <1>2, <1>4, <1>5, <1>6 DEF ScanInv, Faithful

(* A step of one process, after which its own part of the invariant holds. *)
LEMMA ScanMoves ==
  ASSUME ScanInv, NEW s \in Scanners, UNCHANGED stage,
         Scan!TypeOK', \A t \in Scanners \ {s} : scan'[t] = scan[t],
         listed' \subseteq listed, Marked \cap listed' \subseteq Marked', cut => cut',
         Busy(s)' => Busy(s), Busy(s) \/ UNCHANGED marker,
         (Alone(s) /\ Complete(s))', Half',
         stage \in {"idle", "stash", "add"} =>
           /\ marker'[Own] = "absent"
           /\ Own \notin scan'[s].found /\ Own \notin scan'[s].target
           /\ Own \notin scan'[s].owed /\ Own \notin scan'[s].todo
  PROVE  ScanInv'
<1>1. \A t \in Scanners : Busy(t)' => Busy(t)
  BY DEF Busy, Scan!Busy
<1>2. ASSUME NEW t \in Scanners PROVE (Alone(t) /\ Complete(t))'
  <2>1. CASE t = s
    BY <2>1
  <2>2. CASE t # s
    <3>1. scan[t].alone => Marked \subseteq Marked'
      BY <2>2 DEF ScanInv, Faithful, Alone, Marked, Scan!Marked
    <3> QED
      BY <2>2, <3>1, <1>1, Undisturbed
  <2> QED
    BY <2>1, <2>2
<1>3. Fresh'
  BY DEF ScanInv, Fresh
<1> QED
  BY <1>2, <1>3 DEF ScanInv, Faithful

(* The state that a step gives to a process, and to no other. *)
LEMMA Moved ==
  ASSUME Scan!TypeOK, NEW s \in Scanners, NEW state \in Scan!Scans, Scan!Becomes(s, state)
  PROVE  /\ scan' \in [Scanners -> Scan!Scans]
         /\ scan'[s] = state
         /\ \A t \in Scanners \ {s} : scan'[t] = scan[t]
  BY DEF Scan!TypeOK, Scan!Becomes

(* Whoever begins disturbs all that are under way. *)
LEMMA BeginKeepsScans ==
  ASSUME ScanInv, NEW s \in Scanners, Scan!Begin(s), UNCHANGED stage
  PROVE  ScanInv'
<1>1. UNCHANGED <<listed, marker, kills, cut>> /\ scan[s].at = "idle"
  BY DEF Scan!Begin
<1>2. Marked' = Marked
  BY <1>1 DEF Marked, Scan!Marked
<1>3. /\ scan'[s].at = "reading" /\ scan'[s].files = Marked /\ scan'[s].found = {}
      /\ scan'[s].todo = {} /\ scan'[s].target = {} /\ scan'[s].owed = {}
      /\ scan'[s].alone = \A u \in Scanners \ {s} : ~ Busy(u)
  BY DEF Scan!Begin, Scan!NoScan, Marked, Busy
<1>4. \A t \in Scanners \ {s} : scan'[t] = [scan[t] EXCEPT !.alone = FALSE]
  BY DEF Scan!Begin
<1>5. \A t \in Scanners \ {s} :
        /\ scan'[t].at = scan[t].at /\ scan'[t].files = scan[t].files
        /\ scan'[t].found = scan[t].found /\ scan'[t].todo = scan[t].todo
        /\ scan'[t].target = scan[t].target /\ scan'[t].owed = scan[t].owed
        /\ scan'[t].alone = FALSE
  <2> SUFFICES ASSUME NEW t \in Scanners \ {s}
               PROVE  /\ scan'[t].at = scan[t].at /\ scan'[t].files = scan[t].files
                      /\ scan'[t].found = scan[t].found /\ scan'[t].todo = scan[t].todo
                      /\ scan'[t].target = scan[t].target /\ scan'[t].owed = scan[t].owed
                      /\ scan'[t].alone = FALSE
    OBVIOUS
  <2>1. scan[t] \in Scan!Scans
    BY DEF ScanInv, Scan!TypeOK
  <2>2. scan'[t] = [scan[t] EXCEPT !.alone = FALSE]
    BY <1>4
  <2> QED
    BY <2>1, <2>2 DEF Scan!Scans
<1>6. Scan!TypeOK'
  <2>1. Marked \subseteq Worktrees
    BY DEF Marked, Scan!Marked
  <2>2. [Scan!NoScan EXCEPT !.at = "reading", !.files = Marked,
                            !.alone = \A u \in Scanners \ {s} : ~ Busy(u)] \in Scan!Scans
    BY <2>1 DEF Scan!NoScan, Scan!Scans, Scan!Steps
  <2>3. \A t \in Scanners : [scan[t] EXCEPT !.alone = FALSE] \in Scan!Scans
    BY DEF ScanInv, Scan!TypeOK, Scan!Scans
  <2>4. scan' \in [Scanners -> Scan!Scans]
    BY <2>2, <2>3 DEF Scan!Begin, Marked, Busy
  <2> QED
    BY <1>1, <2>4 DEF ScanInv, Scan!TypeOK
<1>7. \A t \in Scanners \ {s} : Busy(t)' = Busy(t)
  BY <1>5 DEF Busy, Scan!Busy
<1>8. Half'
  BY <1>1, <1>5 DEF ScanInv, Half
<1>9. ASSUME NEW t \in Scanners PROVE (Alone(t) /\ Complete(t))'
  <2>1. CASE t = s
    BY <2>1, <1>2, <1>3, <1>7 DEF Alone, Complete
  <2>2. CASE t # s
    BY <2>2, <1>1, <1>2, <1>5 DEF ScanInv, Faithful, Alone, Complete
  <2> QED
    BY <2>1, <2>2
<1>10. Fresh'
  BY <1>1, <1>3, <1>5 DEF ScanInv, Fresh
<1> QED
  BY <1>6, <1>8, <1>9, <1>10 DEF ScanInv, Faithful

(* A record read is one of a worktree that is marked; a failure is that of *)
(* a torn or lost marker.                                                  *)
LEMMA ReadKeepsScans ==
  ASSUME ScanInv, NEW s \in Scanners, NEW w \in Worktrees, Scan!Read(s, w), UNCHANGED stage
  PROVE  ScanInv'
<1>1. /\ UNCHANGED <<listed, marker, kills, cut>> /\ Scan!TypeOK /\ scan[s] \in Scan!Scans
      /\ scan[s].at \in {"reading", "rereading"} /\ w \in scan[s].files
  BY DEF Scan!Read, ScanInv, Scan!TypeOK
<1>2. Marked' = Marked
  BY <1>1 DEF Marked, Scan!Marked
<1>3. Busy(s)
  BY <1>1 DEF Busy, Scan!Busy
<1>5. CASE marker[w] = "whole"
  <2> DEFINE state == [scan[s] EXCEPT !.files = @ \ {w}, !.found = @ \cup {w}]
  <2>1. state \in Scan!Scans
    BY <1>1 DEF Scan!Scans
  <2>2. Scan!Becomes(s, state)
    BY <1>5 DEF Scan!Read
  <2>3. /\ state.at = scan[s].at /\ state.files = scan[s].files \ {w}
        /\ state.found = scan[s].found \cup {w}
        /\ state.todo = scan[s].todo /\ state.target = scan[s].target
        /\ state.owed = scan[s].owed /\ state.alone = scan[s].alone
    BY <1>1 DEF Scan!Scans
  <2> HIDE DEF state
  <2>4. /\ scan' \in [Scanners -> Scan!Scans] /\ scan'[s] = state
        /\ \A t \in Scanners \ {s} : scan'[t] = scan[t]
    BY <1>1, <2>1, <2>2, Moved
  <2>5. Scan!TypeOK'
    BY <1>1, <2>4 DEF Scan!TypeOK
  <2>6. w \in Marked
    BY <1>5 DEF Marked, Scan!Marked
  <2>7. Alone(s)'
    BY <1>1, <1>2, <2>3, <2>4 DEF ScanInv, Faithful, Alone, Busy, Scan!Busy
  <2>8. Complete(s)'
    BY <1>1, <1>2, <2>3, <2>4, <2>6 DEF ScanInv, Faithful, Complete
  <2>9. Half'
    BY <1>1, <2>3, <2>4 DEF ScanInv, Half
  <2>10. stage \in {"idle", "stash", "add"} => w # Own
    BY <1>5 DEF ScanInv, Fresh
  <2> QED
    BY <1>1, <1>2, <1>3, <2>3, <2>4, <2>5, <2>7, <2>8, <2>9, <2>10, ScanMoves DEF ScanInv, Fresh
<1>6. CASE marker[w] # "whole"
  <2> DEFINE state == [scan[s] EXCEPT !.at = "failed"]
  <2>1. state \in Scan!Scans
    BY <1>1 DEF Scan!Scans, Scan!Steps
  <2>2. Scan!Becomes(s, state)
    BY <1>6 DEF Scan!Read
  <2>3. /\ state.at = "failed" /\ state.found = scan[s].found
        /\ state.todo = scan[s].todo /\ state.target = scan[s].target
        /\ state.owed = scan[s].owed /\ state.alone = scan[s].alone
    BY <1>1 DEF Scan!Scans
  <2> HIDE DEF state
  <2>4. /\ scan' \in [Scanners -> Scan!Scans] /\ scan'[s] = state
        /\ \A t \in Scanners \ {s} : scan'[t] = scan[t]
    BY <1>1, <2>1, <2>2, Moved
  <2>5. Scan!TypeOK'
    BY <1>1, <2>4 DEF Scan!TypeOK
  <2>6. ASSUME scan[s].alone PROVE cut
    <3>1. w \in Marked /\ \A t \in Scanners \ {s} : ~ Busy(t)
      BY <1>1, <2>6 DEF ScanInv, Faithful, Alone
    <3>2. marker[w] = "empty"
      BY <1>6, <3>1 DEF ScanInv, Scan!TypeOK, Marked, Scan!Marked
    <3> QED
      BY <1>1, <3>1, <3>2 DEF ScanInv, Half, Busy, Scan!Busy
  <2>7. Alone(s)'
    BY <1>1, <2>3, <2>4, <2>6 DEF ScanInv, Faithful, Alone, Busy, Scan!Busy
  <2>8. Complete(s)'
    BY <2>3, <2>4 DEF Complete
  <2>9. Half'
    BY <1>1, <2>3, <2>4 DEF ScanInv, Half
  <2> QED
    BY <1>1, <1>2, <1>3, <2>3, <2>4, <2>5, <2>7, <2>8, <2>9, ScanMoves DEF ScanInv, Fresh
<1> QED
  BY <1>5, <1>6

(* What git lists is already found, or will be marked. *)
LEMMA FindKeepsScans ==
  ASSUME ScanInv, NEW s \in Scanners, Scan!FindOrphans(s), UNCHANGED stage
  PROVE  ScanInv'
<1> DEFINE state == [scan[s] EXCEPT !.at = IF listed \subseteq scan[s].found THEN "done" ELSE "marking", !.todo = listed \ scan[s].found, !.owed = listed]
<1>1. /\ Scan!TypeOK /\ scan[s] \in Scan!Scans /\ UNCHANGED <<listed, marker, kills, cut>>
      /\ scan[s].at = "reading"
  BY DEF Scan!FindOrphans, ScanInv, Scan!TypeOK
<1>2. state \in Scan!Scans
  BY <1>1 DEF Scan!Scans, Scan!Steps, Scan!TypeOK
<1>3. Scan!Becomes(s, state)
  BY DEF Scan!FindOrphans
<1>4. /\ state.at = IF listed \subseteq scan[s].found THEN "done" ELSE "marking"
      /\ state.files = scan[s].files
      /\ state.found = scan[s].found
      /\ state.todo = listed \ scan[s].found
      /\ state.target = scan[s].target
      /\ state.owed = listed
      /\ state.alone = scan[s].alone
  BY <1>1 DEF Scan!Scans
<1> HIDE DEF state
<1>5. scan' \in [Scanners -> Scan!Scans] /\ scan'[s] = state
      /\ \A t \in Scanners \ {s} : scan'[t] = scan[t]
  BY <1>1, <1>2, <1>3, Moved
<1>6. scan'[s] = state /\ \A t \in Scanners \ {s} : scan'[t] = scan[t]
  BY <1>5
<1>7. Marked' = Marked
  BY <1>1 DEF Marked, Scan!Marked
<1>8. Scan!TypeOK'
  BY <1>1, <1>5 DEF Scan!TypeOK
<1>9. Busy(s)
  BY <1>1 DEF Busy, Scan!Busy
<1>10. Alone(s)'
  BY <1>1, <1>4, <1>6, <1>7 DEF ScanInv, Faithful, Alone, Busy, Scan!Busy
<1>11. Complete(s)'
  BY <1>1, <1>4, <1>6, <1>7 DEF ScanInv, Faithful, Complete
<1>12. Half'
  BY <1>1, <1>4, <1>6 DEF ScanInv, Half
<1> QED
  BY <1>1, <1>4, <1>6, <1>7, <1>8, <1>9, <1>10, <1>11, <1>12, ScanMoves DEF ScanInv, Fresh

(* All that had to be marked is marked, and will be read. *)
LEMMA RereadKeepsScans ==
  ASSUME ScanInv, NEW s \in Scanners, Scan!Reread(s), UNCHANGED stage
  PROVE  ScanInv'
<1> DEFINE state == [scan[s] EXCEPT !.at = "rereading", !.files = Scan!Marked, !.found = {}]
<1>1. /\ Scan!TypeOK /\ scan[s] \in Scan!Scans /\ UNCHANGED <<listed, marker, kills, cut>>
      /\ scan[s].at = "marking" /\ scan[s].todo = {}
  BY DEF Scan!Reread, ScanInv, Scan!TypeOK
<1>2. state \in Scan!Scans
  BY <1>1 DEF Scan!Scans, Scan!Steps, Scan!TypeOK, Scan!Marked
<1>3. Scan!Becomes(s, state)
  BY DEF Scan!Reread
<1>4. /\ state.at = "rereading"
      /\ state.files = Scan!Marked
      /\ state.found = {}
      /\ state.todo = scan[s].todo
      /\ state.target = scan[s].target
      /\ state.owed = scan[s].owed
      /\ state.alone = scan[s].alone
  BY <1>1 DEF Scan!Scans
<1> HIDE DEF state
<1>5. scan' \in [Scanners -> Scan!Scans] /\ scan'[s] = state
      /\ \A t \in Scanners \ {s} : scan'[t] = scan[t]
  BY <1>1, <1>2, <1>3, Moved
<1>6. scan'[s] = state /\ \A t \in Scanners \ {s} : scan'[t] = scan[t]
  BY <1>5
<1>7. Marked' = Marked
  BY <1>1 DEF Marked, Scan!Marked
<1>8. Scan!TypeOK'
  BY <1>1, <1>5 DEF Scan!TypeOK
<1>9. Busy(s)
  BY <1>1 DEF Busy, Scan!Busy
<1>10. Alone(s)'
  BY <1>1, <1>4, <1>6, <1>7 DEF ScanInv, Faithful, Alone, Busy, Scan!Busy, Marked
<1>11. Complete(s)'
  BY <1>1, <1>4, <1>6, <1>7 DEF ScanInv, Faithful, Complete, Marked
<1>12. Half'
  BY <1>1, <1>4, <1>6 DEF ScanInv, Half
<1> QED
  BY <1>1, <1>4, <1>6, <1>7, <1>8, <1>9, <1>10, <1>11, <1>12, ScanMoves DEF ScanInv, Fresh

(* All is read. *)
LEMMA ReportKeepsScans ==
  ASSUME ScanInv, NEW s \in Scanners, Scan!Report(s), UNCHANGED stage
  PROVE  ScanInv'
<1> DEFINE state == [scan[s] EXCEPT !.at = "done"]
<1>1. /\ Scan!TypeOK /\ scan[s] \in Scan!Scans /\ UNCHANGED <<listed, marker, kills, cut>>
      /\ scan[s].at = "rereading" /\ scan[s].files = {}
  BY DEF Scan!Report, ScanInv, Scan!TypeOK
<1>2. state \in Scan!Scans
  BY <1>1 DEF Scan!Scans, Scan!Steps, Scan!TypeOK
<1>3. Scan!Becomes(s, state)
  BY DEF Scan!Report
<1>4. /\ state.at = "done"
      /\ state.files = scan[s].files
      /\ state.found = scan[s].found
      /\ state.todo = scan[s].todo
      /\ state.target = scan[s].target
      /\ state.owed = scan[s].owed
      /\ state.alone = scan[s].alone
  BY <1>1 DEF Scan!Scans
<1> HIDE DEF state
<1>5. scan' \in [Scanners -> Scan!Scans] /\ scan'[s] = state
      /\ \A t \in Scanners \ {s} : scan'[t] = scan[t]
  BY <1>1, <1>2, <1>3, Moved
<1>6. scan'[s] = state /\ \A t \in Scanners \ {s} : scan'[t] = scan[t]
  BY <1>5
<1>7. Marked' = Marked
  BY <1>1 DEF Marked, Scan!Marked
<1>8. Scan!TypeOK'
  BY <1>1, <1>5 DEF Scan!TypeOK
<1>9. Busy(s)
  BY <1>1 DEF Busy, Scan!Busy
<1>10. Alone(s)'
  BY <1>1, <1>4, <1>6, <1>7 DEF ScanInv, Faithful, Alone, Busy, Scan!Busy
<1>11. Complete(s)'
  BY <1>1, <1>4, <1>6, <1>7 DEF ScanInv, Faithful, Complete
<1>12. Half'
  BY <1>1, <1>4, <1>6 DEF ScanInv, Half
<1> QED
  BY <1>1, <1>4, <1>6, <1>7, <1>8, <1>9, <1>10, <1>11, <1>12, ScanMoves DEF ScanInv, Fresh

(* A marker that is truncated has its writer. *)
LEMMA TruncateKeepsScans ==
  ASSUME ScanInv, NEW s \in Scanners, NEW w \in Worktrees, Scan!Truncate(s, w), UNCHANGED stage
  PROVE  ScanInv'
<1> DEFINE state == [scan[s] EXCEPT !.at = "writing", !.target = {w}]
<1>1. /\ Scan!TypeOK /\ scan[s] \in Scan!Scans /\ UNCHANGED <<listed, kills, cut>>
      /\ scan[s].at = "marking" /\ w \in scan[s].todo /\ marker' = [marker EXCEPT ![w] = "empty"]
  BY DEF Scan!Truncate, ScanInv, Scan!TypeOK
<1>2. state \in Scan!Scans
  BY <1>1 DEF Scan!Scans, Scan!Steps, Scan!TypeOK
<1>3. Scan!Becomes(s, state)
  BY DEF Scan!Truncate
<1>4. /\ state.at = "writing"
      /\ state.files = scan[s].files
      /\ state.found = scan[s].found
      /\ state.todo = scan[s].todo
      /\ state.target = {w}
      /\ state.owed = scan[s].owed
      /\ state.alone = scan[s].alone
  BY <1>1 DEF Scan!Scans
<1> HIDE DEF state
<1>5. scan' \in [Scanners -> Scan!Scans] /\ scan'[s] = state
      /\ \A t \in Scanners \ {s} : scan'[t] = scan[t]
  BY <1>1, <1>2, <1>3, Moved
<1>6. scan'[s] = state /\ \A t \in Scanners \ {s} : scan'[t] = scan[t]
  BY <1>5
<1>7. Marked \subseteq Marked'
  BY <1>1 DEF Marked, Scan!Marked, Scan!TypeOK
<1>8. Scan!TypeOK'
  BY <1>1, <1>5 DEF Scan!TypeOK
<1>9. Busy(s)
  BY <1>1 DEF Busy, Scan!Busy
<1>10. Alone(s)'
  BY <1>1, <1>4, <1>6, <1>7 DEF ScanInv, Faithful, Alone, Busy, Scan!Busy
<1>11. Complete(s)'
  BY <1>1, <1>4, <1>6, <1>7 DEF ScanInv, Faithful, Complete
<1>12. Half'
  BY <1>1, <1>4, <1>6 DEF ScanInv, Half, Scan!TypeOK
<1> QED
  BY <1>1, <1>4, <1>6, <1>7, <1>8, <1>9, <1>10, <1>11, <1>12, ScanMoves DEF ScanInv, Fresh

(* A marker that is written is one worktree less to mark. *)
LEMMA WriteKeepsScans ==
  ASSUME ScanInv, NEW s \in Scanners, Scan!Write(s), UNCHANGED stage
  PROVE  ScanInv'
<1> DEFINE state == [scan[s] EXCEPT !.at = "marking", !.todo = @ \ scan[s].target, !.target = {}]
<1>1. /\ Scan!TypeOK /\ scan[s] \in Scan!Scans /\ UNCHANGED <<listed, kills, cut>>
      /\ scan[s].at = "writing"
      /\ marker' = [w \in Worktrees |-> IF w \in scan[s].target THEN "whole" ELSE marker[w]]
  BY DEF Scan!Write, ScanInv, Scan!TypeOK
<1>2. state \in Scan!Scans
  BY <1>1 DEF Scan!Scans, Scan!Steps, Scan!TypeOK
<1>3. Scan!Becomes(s, state)
  BY DEF Scan!Write
<1>4. /\ state.at = "marking"
      /\ state.files = scan[s].files
      /\ state.found = scan[s].found
      /\ state.todo = scan[s].todo \ scan[s].target
      /\ state.target = {}
      /\ state.owed = scan[s].owed
      /\ state.alone = scan[s].alone
  BY <1>1 DEF Scan!Scans
<1> HIDE DEF state
<1>5. scan' \in [Scanners -> Scan!Scans] /\ scan'[s] = state
      /\ \A t \in Scanners \ {s} : scan'[t] = scan[t]
  BY <1>1, <1>2, <1>3, Moved
<1>6. scan'[s] = state /\ \A t \in Scanners \ {s} : scan'[t] = scan[t]
  BY <1>5
<1>7. Marked \subseteq Marked' /\ scan[s].target \subseteq Marked'
  BY <1>1 DEF Marked, Scan!Marked, Scan!TypeOK, Scan!Scans
<1>8. Scan!TypeOK'
  BY <1>1, <1>5 DEF Scan!TypeOK
<1>9. Busy(s)
  BY <1>1 DEF Busy, Scan!Busy
<1>10. Alone(s)'
  BY <1>1, <1>4, <1>6, <1>7 DEF ScanInv, Faithful, Alone, Busy, Scan!Busy
<1>11. Complete(s)'
  BY <1>1, <1>4, <1>6, <1>7 DEF ScanInv, Faithful, Complete
<1>12. Half'
  BY <1>1, <1>4, <1>6 DEF ScanInv, Half, Scan!TypeOK
<1>13. stage \in {"idle", "stash", "add"} =>
         /\ marker'[Own] = "absent"
         /\ Own \notin scan'[s].found /\ Own \notin scan'[s].target
         /\ Own \notin scan'[s].owed /\ Own \notin scan'[s].todo
  BY <1>1, <1>4, <1>6, OwnAssumption DEF ScanInv, Fresh
<1> QED
  BY <1>1, <1>4, <1>6, <1>7, <1>8, <1>9, <1>10, <1>11, <1>12, <1>13, ScanMoves

(* The worktree goes first, so its marker is no longer owed. *)
LEMMA RemoveKeepsScans ==
  ASSUME ScanInv, NEW s \in Scanners, NEW w \in Worktrees, Scan!Remove(s, w), UNCHANGED stage
  PROVE  ScanInv'
<1> DEFINE state == [scan[s] EXCEPT !.at = "removing", !.target = {w}]
<1>1. /\ Scan!TypeOK /\ scan[s] \in Scan!Scans /\ UNCHANGED <<marker, kills, cut>>
      /\ scan[s].at = "done" /\ w \in scan[s].found /\ listed' = listed \ {w}
  BY DEF Scan!Remove, ScanInv, Scan!TypeOK
<1>2. state \in Scan!Scans
  BY <1>1 DEF Scan!Scans, Scan!Steps, Scan!TypeOK
<1>3. Scan!Becomes(s, state)
  BY DEF Scan!Remove
<1>4. /\ state.at = "removing"
      /\ state.files = scan[s].files
      /\ state.found = scan[s].found
      /\ state.todo = scan[s].todo
      /\ state.target = {w}
      /\ state.owed = scan[s].owed
      /\ state.alone = scan[s].alone
  BY <1>1 DEF Scan!Scans
<1> HIDE DEF state
<1>5. scan' \in [Scanners -> Scan!Scans] /\ scan'[s] = state
      /\ \A t \in Scanners \ {s} : scan'[t] = scan[t]
  BY <1>1, <1>2, <1>3, Moved
<1>6. scan'[s] = state /\ \A t \in Scanners \ {s} : scan'[t] = scan[t]
  BY <1>5
<1>7. Marked' = Marked
  BY <1>1 DEF Marked, Scan!Marked
<1>8. Scan!TypeOK'
  BY <1>1, <1>5 DEF Scan!TypeOK
<1>9. Busy(s)
  BY <1>1 DEF Busy, Scan!Busy
<1>10. Alone(s)'
  BY <1>1, <1>4, <1>6, <1>7 DEF ScanInv, Faithful, Alone, Busy, Scan!Busy
<1>11. Complete(s)'
  BY <1>1, <1>4, <1>6, <1>7 DEF ScanInv, Faithful, Complete
<1>12. Half'
  BY <1>1, <1>4, <1>6 DEF ScanInv, Half
<1> QED
  BY <1>1, <1>4, <1>6, <1>7, <1>8, <1>9, <1>10, <1>11, <1>12, ScanMoves DEF ScanInv, Fresh

(* The marker of a worktree that has gone goes. *)
LEMMA UnlinkKeepsScans ==
  ASSUME ScanInv, NEW s \in Scanners, Scan!Unlink(s), UNCHANGED stage
  PROVE  ScanInv'
<1> DEFINE state == [scan[s] EXCEPT !.at = "done", !.found = @ \ scan[s].target, !.target = {}]
<1>1. /\ Scan!TypeOK /\ scan[s] \in Scan!Scans /\ UNCHANGED <<listed, kills, cut>>
      /\ scan[s].at = "removing"
      /\ marker' = [w \in Worktrees |-> IF w \in scan[s].target THEN "absent" ELSE marker[w]]
  BY DEF Scan!Unlink, ScanInv, Scan!TypeOK
<1>2. state \in Scan!Scans
  BY <1>1 DEF Scan!Scans, Scan!Steps, Scan!TypeOK
<1>3. Scan!Becomes(s, state)
  BY DEF Scan!Unlink
<1>4. /\ state.at = "done"
      /\ state.files = scan[s].files
      /\ state.found = scan[s].found \ scan[s].target
      /\ state.todo = scan[s].todo
      /\ state.target = {}
      /\ state.owed = scan[s].owed
      /\ state.alone = scan[s].alone
  BY <1>1 DEF Scan!Scans
<1> HIDE DEF state
<1>5. scan' \in [Scanners -> Scan!Scans] /\ scan'[s] = state
      /\ \A t \in Scanners \ {s} : scan'[t] = scan[t]
  BY <1>1, <1>2, <1>3, Moved
<1>6. scan'[s] = state /\ \A t \in Scanners \ {s} : scan'[t] = scan[t]
  BY <1>5
<1>7. scan[s].target \cap listed = {} /\ Marked \cap listed' \subseteq Marked'
  BY <1>1 DEF ScanInv, Faithful, Complete, Marked, Scan!Marked, Scan!TypeOK
<1>8. Scan!TypeOK'
  BY <1>1, <1>5 DEF Scan!TypeOK
<1>9. Busy(s)
  BY <1>1 DEF Busy, Scan!Busy
<1>10. Alone(s)'
  BY <1>1, <1>4, <1>6, <1>7 DEF ScanInv, Faithful, Alone, Busy, Scan!Busy
<1>11. Complete(s)'
  BY <1>1, <1>4, <1>6, <1>7 DEF ScanInv, Faithful, Complete
<1>12. Half'
  BY <1>1, <1>4, <1>6 DEF ScanInv, Half, Scan!TypeOK
<1>13. stage \in {"idle", "stash", "add"} =>
         /\ marker'[Own] = "absent"
         /\ Own \notin scan'[s].found /\ Own \notin scan'[s].target
         /\ Own \notin scan'[s].owed /\ Own \notin scan'[s].todo
  BY <1>1, <1>4, <1>6, OwnAssumption DEF ScanInv, Fresh
<1> QED
  BY <1>1, <1>4, <1>6, <1>7, <1>8, <1>9, <1>10, <1>11, <1>12, <1>13, ScanMoves

(* A process that leaves, by itself or killed. *)
LEMMA LeavingKeepsScans ==
  ASSUME ScanInv, NEW s \in Scanners, Scan!End(s) \/ Scan!Kill(s), UNCHANGED stage
  PROVE  ScanInv'
<1>1. /\ Scan!TypeOK /\ UNCHANGED <<listed, marker>> /\ Scan!Becomes(s, Scan!NoScan)
      /\ cut => cut'
  <2>1. Scan!TypeOK
    BY DEF ScanInv
  <2>2. CASE Scan!End(s)
    BY <2>1, <2>2 DEF Scan!End
  <2>3. CASE Scan!Kill(s)
    BY <2>1, <2>3 DEF Scan!Kill
  <2> QED
    BY <2>2, <2>3
<1>2. Scan!NoScan \in Scan!Scans
  BY DEF Scan!NoScan, Scan!Scans, Scan!Steps
<1>3. scan' \in [Scanners -> Scan!Scans] /\ scan'[s] = Scan!NoScan
      /\ \A t \in Scanners \ {s} : scan'[t] = scan[t]
  BY <1>1, <1>2, Moved
<1>4. /\ scan'[s].at = "idle" /\ scan'[s].alone = FALSE
      /\ scan'[s].found = {} /\ scan'[s].target = {}
      /\ scan'[s].owed = {} /\ scan'[s].todo = {}
  BY <1>3 DEF Scan!NoScan
<1>5. Marked' = Marked
  BY <1>1 DEF Marked, Scan!Marked
<1>6. kills' \in 0..MaxKills
  BY KillsAssumption DEF Scan!End, Scan!Kill, ScanInv, Scan!TypeOK
<1>7. cut' \in BOOLEAN
  BY DEF Scan!End, Scan!Kill, ScanInv, Scan!TypeOK
<1>8. Scan!TypeOK'
  BY <1>1, <1>3, <1>6, <1>7 DEF Scan!TypeOK
<1>9. Alone(s)' /\ Complete(s)'
  BY <1>4 DEF Alone, Complete
<1>10. Half'
  <2> SUFFICES ASSUME NEW w \in Worktrees, marker'[w] = "empty"
               PROVE  cut' \/ \E t \in Scanners : scan'[t].at = "writing" /\ w \in scan'[t].target
    BY DEF Half
  <2>1. cut \/ \E t \in Scanners : scan[t].at = "writing" /\ w \in scan[t].target
    BY <1>1 DEF ScanInv, Half
  <2>2. CASE scan[s].at = "writing"
    BY <2>2 DEF Scan!End, Scan!Kill
  <2>3. CASE scan[s].at # "writing"
    BY <1>1, <1>3, <2>1, <2>3
  <2> QED
    BY <2>2, <2>3
<1>11. ~ Busy(s)' /\ (Busy(s) \/ UNCHANGED marker)
  BY <1>1, <1>4 DEF Busy, Scan!Busy
<1>12. stage \in {"idle", "stash", "add"} =>
         /\ marker'[Own] = "absent"
         /\ Own \notin scan'[s].found /\ Own \notin scan'[s].target
         /\ Own \notin scan'[s].owed /\ Own \notin scan'[s].todo
  BY <1>1, <1>4 DEF ScanInv, Fresh
<1> QED
  BY <1>1, <1>3, <1>5, <1>8, <1>9, <1>10, <1>11, <1>12, ScanMoves

(* All steps of the processes that scan. *)
LEMMA ScannersKeepScans ==
  ASSUME ScanInv, Scan!Next, UNCHANGED stage PROVE ScanInv'
<1>1. PICK s \in Scanners : Scan!ScanStep(s) \/ Scan!RemoveStep(s) \/ Scan!Kill(s)
  BY DEF Scan!Next
<1>2. CASE Scan!ScanStep(s)
  <2>1. CASE \E w \in Worktrees : Scan!Read(s, w) \/ Scan!Truncate(s, w)
    BY <2>1, ReadKeepsScans, TruncateKeepsScans
  <2>2. CASE Scan!Begin(s)
    BY <2>2, BeginKeepsScans
  <2>3. CASE Scan!FindOrphans(s) \/ Scan!Write(s)
    BY <2>3, FindKeepsScans, WriteKeepsScans
  <2>4. CASE Scan!Reread(s) \/ Scan!Report(s)
    BY <2>4, RereadKeepsScans, ReportKeepsScans
  <2>5. CASE Scan!End(s)
    BY <2>5, LeavingKeepsScans
  <2> QED
    BY <1>2, <2>1, <2>2, <2>3, <2>4, <2>5 DEF Scan!ScanStep
<1>3. CASE Scan!RemoveStep(s)
  BY <1>3, RemoveKeepsScans, UnlinkKeepsScans DEF Scan!RemoveStep
<1>4. CASE Scan!Kill(s)
  BY <1>4, LeavingKeepsScans
<1> QED
  BY <1>1, <1>2, <1>3, <1>4

(* What the run does to the worktrees that git reports. *)
LEMMA RunMovesScans ==
  ASSUME ScanInv, RunStep PROVE ScanInv'
<1>1. UNCHANGED <<marker, scan, cut>>
  BY DEF RunStep, Prepare, Finish, Begin, StashCreated, WorktreeAdded, StashApplied, SnapshotTaken,
         GoOn, ManifestWritten, Loaded, AgentReturns, Waits, TimePasses, Expire, Fail, ChecksPass,
         Decide, OpenRecord, WriteRecord, KillRun, Others
<1>2. CASE KillRun
  <2>1. kills' \in 0..MaxKills
    BY <1>2, KillsAssumption DEF KillRun, ScanInv, Scan!TypeOK
  <2> QED
    BY <1>1, <1>2, <2>1, RunKeepsScans DEF KillRun, LeaveFor
<1>3. CASE ~ KillRun
  <2>1. kills' \in 0..MaxKills
    BY <1>3 DEF RunStep, Prepare, Finish, Begin, StashCreated, WorktreeAdded, StashApplied,
         SnapshotTaken, GoOn, ManifestWritten, Loaded, AgentReturns, Waits, TimePasses, Expire,
         Fail, ChecksPass, Decide, OpenRecord, WriteRecord, Others, ScanInv, Scan!TypeOK
  <2>2. CASE \/ Begin \/ StashCreated \/ StashApplied \/ SnapshotTaken \/ ManifestWritten
             \/ Loaded \/ AgentReturns
    BY <1>1, <2>1, <2>2, RunKeepsScans
    DEF Begin, StashCreated, StashApplied, SnapshotTaken, ManifestWritten, Loaded, AgentReturns,
        Enter, GoOn, Stop, LeaveFor
  <2>3. CASE WorktreeAdded
    BY <1>1, <2>1, <2>3, RunKeepsScans DEF WorktreeAdded, GoOn
  <2>4. CASE Waits \/ TimePasses
    BY <1>1, <2>1, <2>4, RunKeepsScans DEF Waits, TimePasses, local
  <2>5. CASE Expire
    BY <1>1, <2>1, <2>5, RunKeepsScans DEF Expire, Expired, Stop, LeaveFor, Timed, Git
  <2>6. CASE Fail \/ ChecksPass
    BY <1>1, <2>1, <2>6, RunKeepsScans DEF Fail, ChecksPass, LeaveFor
  <2>7. CASE Finish
    BY <1>1, <2>1, <2>7, RunKeepsScans DEF Finish, Decide, OpenRecord, WriteRecord
  <2> QED
    BY <1>3, <2>2, <2>3, <2>4, <2>5, <2>6, <2>7 DEF RunStep, Prepare
<1> QED
  BY <1>2, <1>3

(* All steps together. *)
LEMMA ScanInvStep == ScanInv /\ [Next]_vars => ScanInv'
<1> SUFFICES ASSUME ScanInv, [Next]_vars PROVE ScanInv'
  OBVIOUS
<1>1. CASE RunStep
  BY <1>1, RunMovesScans
<1>2. CASE LogStep \/ UNCHANGED vars
  <2>1. UNCHANGED <<local, listed, marker, scan, kills, cut>>
    BY <1>2 DEF LogStep, LogBegins, LogReads, LogEnds, vars
  <2> QED
    BY <2>1, RunKeepsScans DEF local, ScanInv, Scan!TypeOK
<1>3. CASE ScanStep
  BY <1>3, ScannersKeepScans DEF ScanStep, local
<1> QED
  BY <1>1, <1>2, <1>3 DEF Next

(* Hence the invariant of the scans. *)
LEMMA ScansKept == Spec => []ScanInv
<1>1. Init => ScanInv
  BY ScansBegin
<1> QED
  BY <1>1, ScanInvStep, PTL DEF Spec

(* However many processes scan, remove and are killed beside the run, a    *)
(* scan that fails was disturbed, and one that succeeds has seen every     *)
(* worktree that is still there.                                           *)
THEOREM ScansTellTheTruth == Spec => []ScansAreReliable
<1>1. ScanInv => ScansAreReliable
  BY DEF ScanInv, Faithful, Alone, Complete, ScansAreReliable, Scan!ScansAreReliable,
         Scan!NoScanFailsAlone, Scan!EveryLeftoverIsReported
<1> QED
  BY <1>1, ScansKept, PTL

(***************************************************************************)
(* The record of the run                                                   *)
(***************************************************************************)

(* An ended run has a whole record and never touches it again. *)
LogInv ==
  /\ stage = "ended" => record = "whole"
  /\ log.after => stage = "ended" /\ log.what = "run" /\ log.at # "failed"

FileTypes ==
  /\ record \in {"absent", "empty", "whole"}
  /\ log \in [at : {"idle", "chosen", "shown", "failed"}, what : {"run", "older"},
              after : BOOLEAN]

RecordInv == FileTypes /\ LogInv

(* No record, and nobody looks. *)
LEMMA RecordBegins == Init => RecordInv
<1> SUFFICES ASSUME Init PROVE RecordInv
  OBVIOUS
<1>1. FileTypes
  BY DEF Init, FileTypes, NoLog
<1>2. LogInv
  BY DEF Init, LogInv, NoLog
<1> QED
  BY <1>1, <1>2 DEF RecordInv

(* The run writes its record last. *)
LEMMA RunKeepsRecord ==
  ASSUME RecordInv, RunStep PROVE RecordInv'
<1>1. UNCHANGED log
  BY DEF RunStep, Prepare, Finish, Begin, StashCreated, WorktreeAdded, StashApplied, SnapshotTaken,
         GoOn, ManifestWritten, Loaded, AgentReturns, Waits, TimePasses, Expire, Fail, ChecksPass,
         Decide, OpenRecord, WriteRecord, KillRun, Others
<1>2. record' \in {"absent", "empty", "whole"} /\ stage # "ended"
      /\ (stage' = "ended" => record' = "whole")
  <2>1. CASE OpenRecord \/ WriteRecord \/ KillRun
    BY <2>1 DEF OpenRecord, WriteRecord, KillRun, LeaveFor, RecordInv, FileTypes
  <2>2. CASE \/ Begin \/ StashCreated \/ WorktreeAdded \/ StashApplied \/ SnapshotTaken
             \/ Loaded \/ AgentReturns
    BY <2>2 DEF Begin, StashCreated, WorktreeAdded, StashApplied, SnapshotTaken, Loaded,
         AgentReturns, Enter, GoOn, Others, RecordInv, FileTypes
  <2>3. CASE ManifestWritten \/ Expire \/ Fail \/ ChecksPass
    BY <2>3 DEF ManifestWritten, Expire, Expired, Fail, ChecksPass, Enter, Stop, LeaveFor, Others,
         RecordInv, FileTypes, Timed, Bounded, Git, Files
  <2>4. CASE Waits \/ TimePasses \/ Decide
    BY <2>4 DEF Waits, TimePasses, Decide, Others, local, RecordInv, FileTypes, Timed, Git,
         Files
  <2> QED
    BY <2>1, <2>2, <2>3, <2>4 DEF RunStep, Prepare, Finish
<1>3. ~ log.after
  BY <1>2 DEF RecordInv, LogInv
<1> QED
  BY <1>1, <1>2, <1>3 DEF RecordInv, LogInv, FileTypes

(* A reader that begins after the end finds the whole record, and reads    *)
(* it.                                                                     *)
LEMMA LogKeepsRecord ==
  ASSUME RecordInv, LogStep PROVE RecordInv'
<1>1. UNCHANGED <<stage, record>>
  BY DEF LogStep, LogBegins, LogReads, LogEnds, local
<1>2. CASE LogBegins
  <2>1. log'.what = (IF record = "absent" THEN "older" ELSE "run") /\ log'.at = "chosen"
    BY <1>2 DEF LogBegins
  <2>2. log'.after = (stage = "ended")
    BY <1>2 DEF LogBegins
  <2>3. log' \in [at : {"idle", "chosen", "shown", "failed"}, what : {"run", "older"},
                  after : BOOLEAN]
    BY <1>2 DEF LogBegins
  <2> QED
    BY <1>1, <2>1, <2>2, <2>3 DEF RecordInv, LogInv, FileTypes
<1>3. CASE LogReads
  <2>1. log'.what = log.what
        /\ log'.at = (IF log.what = "run" /\ record = "empty" THEN "failed" ELSE "shown")
    BY <1>3 DEF LogReads, RecordInv, FileTypes
  <2>2. log'.after = log.after
    BY <1>3 DEF LogReads, RecordInv, FileTypes
  <2>3. log' \in [at : {"idle", "chosen", "shown", "failed"}, what : {"run", "older"},
                  after : BOOLEAN]
    BY <1>3 DEF LogReads, RecordInv, FileTypes
  <2> QED
    BY <1>1, <2>1, <2>2, <2>3 DEF RecordInv, LogInv, FileTypes
<1>4. CASE LogEnds
  <2>1. log'.after = FALSE
    BY <1>4 DEF LogEnds, NoLog
  <2>2. log' \in [at : {"idle", "chosen", "shown", "failed"}, what : {"run", "older"},
                  after : BOOLEAN]
    BY <1>4 DEF LogEnds, NoLog
  <2> QED
    BY <1>1, <2>1, <2>2 DEF RecordInv, LogInv, FileTypes
<1> QED
  BY <1>2, <1>3, <1>4 DEF LogStep

(* Hence the invariant of the record. *)
LEMMA RecordKept == Spec => []RecordInv
<1>1. RecordInv /\ [Next]_vars => RecordInv'
  <2> SUFFICES ASSUME RecordInv, [Next]_vars PROVE RecordInv'
    OBVIOUS
  <2>1. CASE RunStep
    BY <2>1, RunKeepsRecord
  <2>2. CASE LogStep
    BY <2>2, LogKeepsRecord
  <2>3. CASE ScanStep \/ UNCHANGED vars
    BY <2>3 DEF ScanStep, vars, local, RecordInv, LogInv, FileTypes
  <2> QED
    BY <2>1, <2>2, <2>3 DEF Next
<1>2. Init => RecordInv
  BY RecordBegins
<1> QED
  BY <1>1, <1>2, PTL DEF Spec

(* A reader that looks after a run has ended finds that run, and all of    *)
(* it: however it ended, save_run came last.                               *)
THEOREM EndedRunIsLogged == Spec => []LogTellsOfTheRun
<1>1. RecordInv => LogTellsOfTheRun
  BY DEF RecordInv, LogInv, LogTellsOfTheRun
<1> QED
  BY <1>1, RecordKept, PTL

(* The variables of the run, of its breaker and of the scans keep their    *)
(* types, and outside its try the breaker does not exist.                  *)
THEOREM BudgetedRunIsTyped == Spec => []TypeOK
<1>1. BudgetInv /\ RecordInv /\ ScanInv => TypeOK
  <2> SUFFICES ASSUME BudgetInv, RecordInv, ScanInv PROVE TypeOK
    OBVIOUS
  <2>1. stage \notin Bounded => begun = None
    BY DEF BudgetInv, RunInv, BreakerInit
  <2>2. seeded \in BOOLEAN
    BY DEF BudgetInv, RunInv, RunTypes
  <2>3. BreakerTypeOK /\ Scan!TypeOK
    BY DEF BudgetInv, BreakerInv, ScanInv
  <2>4. FileTypes
    BY DEF RecordInv
  <2> QED
    BY <2>1, <2>2, <2>3, <2>4 DEF TypeOK, FileTypes, BudgetInv, RunInv, RunTypes
<1> QED
  BY <1>1, BudgetKept, RecordKept, ScansKept, PTL
=============================================================================
