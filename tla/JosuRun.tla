------------------------------ MODULE JosuRun ------------------------------
(***************************************************************************)
(* `josu run`: an agent works in a git worktree of its own that starts     *)
(* from the developer's uncommitted state; what it changed is written      *)
(* back when the developer approves and the touched files are still as     *)
(* they were (orchestrator/run.py, worktree.py, merge.py).  Several runs,  *)
(* the developer, who keeps editing and committing, and `josu cleanup`,    *)
(* which lists and removes the worktrees left behind (cli.py,              *)
(* fallback/quota.py), act on one repository at the same time.             *)
(*                                                                         *)
(* An action is one git command or one file that is written.  A commit, a  *)
(* stash or a working tree is the content of every path.                   *)
(***************************************************************************)
EXTENDS Naturals

CONSTANTS
  Runs,       \* invocations of `josu run`, each with a worktree name of its own
  Paths,
  Contents,   \* what a file may hold
  Absent,     \* the content of a path that is not there
  MaxMoves,   \* bound on what the developer does, and on how often cleanup is killed
  CommitsDuringPreparation  \* may HEAD move while a worktree is being prepared?

ASSUME ContentsAssumption == Absent \notin Contents
ASSUME MovesAssumption == MaxMoves \in Nat /\ CommitsDuringPreparation \in BOOLEAN

VARIABLES
  head, index, tree,  \* repo_root: its HEAD, the paths git tracks, its working tree
  moves,              \* what is left of MaxMoves
  worktree,           \* the worktree of each run, as git and the disk hold it
  run,                \* the local state of each run's run_task
  log,                \* the outcome in each run's saved RunRecord
  markers,            \* the runs whose worktree has an abandonment marker
  cleanup             \* the local state of `josu cleanup`

repo == <<head, index, tree>>
vars == <<repo, moves, worktree, run, log, markers, cleanup>>

Trees  == [Paths -> Contents \cup {Absent}]
Blank  == [p \in Paths |-> Absent]
Stored(t) == {p \in Paths : t[p] # Absent}

Worktrees == [exists : BOOLEAN, files : Trees, head : Trees, index : SUBSET Paths]
NoWorktree == [exists |-> FALSE, files |-> Blank, head |-> Blank, index |-> {}]

Stashes == [taken : BOOLEAN, base : Trees, tree : Trees]
NoStash == [taken |-> FALSE, base |-> Blank, tree |-> Blank]

Prepares == {"stash", "add", "apply", "snapshot"}  \* create_worktree, snapshot_repo
Bounded  == Prepares \cup {"agent"}                \* subprocesses with a timeout
Live     == Bounded \cup {"checks", "review", "merge", "write", "remove", "save"}
Over     == {"done", "crashed"}
Outcomes == {"error", "circuit_breaker_timeout", "diverged", "rejected", "merged"}

(* seed is what the agent found in its worktree: no variable of the program,
   but what its checks are there to protect. *)
RunStates == [stage : {"idle"} \cup Live \cup Over, stash : Stashes, seed : Trees,
              baseline : Trees, todo : SUBSET Paths, gone : SUBSET Paths,
              written : SUBSET Paths, outcome : Outcomes]
NewRun == [stage |-> "idle", stash |-> NoStash, seed |-> Blank, baseline |-> Blank,
           todo |-> {}, gone |-> {}, written |-> {}, outcome |-> "error"]

CleanupStates == [stage : {"idle", "list", "mark", "remove", "unlink"},
                  known : SUBSET Runs, names : SUBSET Runs, force : BOOLEAN]
NoCleanup == [stage |-> "idle", known |-> {}, names |-> {}, force |-> FALSE]

TypeOK ==
  /\ head \in Trees /\ tree \in Trees
  /\ index \subseteq Paths
  /\ moves \in 0..MaxMoves
  /\ worktree \in [Runs -> Worktrees]
  /\ run \in [Runs -> RunStates]
  /\ log \in [Runs -> Outcomes \cup {"none"}]
  /\ markers \subseteq Runs
  /\ cleanup \in CleanupStates
  /\ Stored(head) \subseteq index
  /\ \A r \in Runs :
       /\ Stored(worktree[r].head) \subseteq worktree[r].index
       /\ ~ worktree[r].exists => worktree[r] = NoWorktree

(* Files that git does not track may lie in the working tree. *)
Init ==
  /\ head \in Trees
  /\ index = Stored(head)
  /\ tree \in {t \in Trees : \A p \in index : t[p] = head[p]}
  /\ moves = MaxMoves
  /\ worktree = [r \in Runs |-> NoWorktree]
  /\ run = [r \in Runs |-> NewRun]
  /\ log = [r \in Runs |-> "none"]
  /\ markers = {}
  /\ cleanup = NoCleanup

(***************************************************************************)
(* The developer.                                                          *)
(***************************************************************************)
Tracked == [p \in Paths |-> IF p \in index THEN tree[p] ELSE Absent]

Move == moves > 0 /\ moves' = moves - 1 /\ UNCHANGED <<worktree, run, log, markers, cleanup>>

Edit(p) ==
  /\ Move
  /\ \E c \in Contents \cup {Absent} : tree' = [tree EXCEPT ![p] = c]
  /\ UNCHANGED <<head, index>>

Track(p) ==
  /\ Move
  /\ tree[p] # Absent
  /\ index' = index \cup {p}
  /\ UNCHANGED <<head, tree>>

Commit(p) ==
  /\ Move
  /\ CommitsDuringPreparation \/ \A r \in Runs : run[r].stage \notin Prepares \ {"stash"}
  /\ p \in index
  /\ head' = [head EXCEPT ![p] = tree[p]]
  /\ index' = IF tree[p] = Absent THEN index \ {p} ELSE index
  /\ UNCHANGED tree

(***************************************************************************)
(* run_task.  Every way it ends saves a record, except a crash.            *)
(***************************************************************************)
At(r, stage) == run[r].stage = stage
GoTo(r, stage) == run' = [run EXCEPT ![r].stage = stage]
End(r, outcome) == run' = [run EXCEPT ![r] = [NewRun EXCEPT !.stage = "save",
                                                !.outcome = outcome, !.written = run[r].written]]
OnlyRun == UNCHANGED <<repo, moves, worktree, log, markers, cleanup>>

Begin(r) ==
  /\ At(r, "idle")
  /\ GoTo(r, "stash")
  /\ OnlyRun

(* git stash create: nothing is stashed in a clean working tree. *)
StashCreate(r) ==
  /\ At(r, "stash")
  /\ run' = [run EXCEPT ![r].stage = "add",
                        ![r].stash = IF Tracked = head THEN NoStash
                                     ELSE [taken |-> TRUE, base |-> head, tree |-> Tracked]]
  /\ OnlyRun

(* Mutant: a worktree without an index. *)
AddedUnindexed == [exists |-> TRUE, files |-> head, head |-> head, index |-> {}]

Added == [exists |-> TRUE, files |-> head, head |-> head, index |-> Stored(head)]

WorktreeAdd(r) ==
  /\ At(r, "add")
  /\ worktree' = [worktree EXCEPT ![r] = Added]
  /\ run' = [run EXCEPT ![r].stage = IF run[r].stash.taken THEN "apply" ELSE "snapshot",
                        ![r].seed = head]
  /\ UNCHANGED <<repo, moves, log, markers, cleanup>>

(* git stash apply merges the stash, which knows the commit it was made on,
   into the worktree; a path that both have changed is a conflict. *)
Conflict(stash, files) ==
  \E p \in Paths : /\ stash.tree[p] # stash.base[p]
                   /\ files[p] \notin {stash.base[p], stash.tree[p]}
Applied(stash, files) ==
  [p \in Paths |-> IF stash.tree[p] # stash.base[p] THEN stash.tree[p] ELSE files[p]]

StashApply(r) ==
  LET stash == run[r].stash
      old   == worktree[r]
      new   == Applied(stash, old.files)
  IN  /\ At(r, "apply")
      /\ IF ~ old.exists \/ Conflict(stash, old.files)
         THEN End(r, "error") /\ UNCHANGED worktree
         ELSE /\ worktree' = [worktree EXCEPT ![r].files = new, ![r].index = @ \cup Stored(new)]
              /\ run' = [run EXCEPT ![r].stage = "snapshot", ![r].seed = new]
      /\ UNCHANGED <<repo, moves, log, markers, cleanup>>

(* snapshot_repo; the MCP manifest is written and the adapter is invoked.
   baseline is what _content_at_snapshot will find for each path. *)
Snapshot(r) ==
  /\ At(r, "snapshot")
  /\ run' = [run EXCEPT ![r].stage = "agent",
                        ![r].baseline = IF run[r].stash.taken THEN run[r].stash.tree ELSE head,
                        ![r].stash = NoStash]
  /\ OnlyRun

(* The agent edits files, and adds and commits them to its branch: the git
   commands _ALLOWED_TOOLS leaves it. *)
AgentStep(r) ==
  /\ At(r, "agent")
  /\ worktree[r].exists
  /\ UNCHANGED <<repo, moves, run, log, markers, cleanup>>

AgentEdits(r, p) ==
  /\ AgentStep(r)
  /\ \E c \in Contents : worktree' = [worktree EXCEPT ![r].files[p] = c]

AgentAdds(r, p) ==
  /\ AgentStep(r)
  /\ worktree[r].files[p] # Absent
  /\ worktree' = [worktree EXCEPT ![r].index = @ \cup {p}]

AgentCommits(r, p) ==
  /\ AgentStep(r)
  /\ p \in worktree[r].index
  /\ worktree' = [worktree EXCEPT ![r].head[p] = worktree[r].files[p]]

AgentReturns(r) ==
  /\ At(r, "agent")
  /\ GoTo(r, "checks")
  /\ OnlyRun

(* Its output passes the adapter's checks and the diff is shown: git commands
   without a timeout. *)
ChecksPass(r) ==
  /\ At(r, "checks")
  /\ worktree[r].exists
  /\ GoTo(r, "review")
  /\ OnlyRun

(***************************************************************************)
(* The verdict, and merge().                                               *)
(***************************************************************************)
Approve(r) ==
  /\ At(r, "review")
  /\ GoTo(r, "merge")
  /\ OnlyRun

Reject(r) ==
  /\ At(r, "review")
  /\ run' = [run EXCEPT ![r].stage = "remove", ![r].outcome = "rejected"]
  /\ OnlyRun

(* _changed_paths: git diff HEAD, in the worktree. *)
Changed(r) ==
  {p \in worktree[r].index \cup Stored(worktree[r].head) :
     worktree[r].files[p] # worktree[r].head[p]}

(* Mutant: what is not committed does not count. *)
DivergedFromHead(r) == {p \in Changed(r) : run[r].baseline[p] # head[p]}

Diverged(r) == {p \in Changed(r) : run[r].baseline[p] # tree[p]}

Check(r) ==
  /\ At(r, "merge")
  /\ worktree[r].exists
  /\ IF Diverged(r) # {}
     THEN End(r, "diverged")
     ELSE run' = [run EXCEPT ![r].stage = "write", ![r].todo = Changed(r),
                             ![r].gone = Changed(r) \ Stored(worktree[r].files)]
  /\ OnlyRun

(* A file is copied from the worktree, or unlinked if it is not there. *)
Write(r, p) ==
  /\ tree' = [tree EXCEPT ![p] = worktree[r].files[p]]
  /\ run' = [run EXCEPT ![r].todo = @ \ {p}, ![r].gone = @ \ {p}, ![r].written = @ \cup {p}]

(* Mutant: each file is looked at once more before it is written. *)
WritePathChecking(r, p) ==
  /\ At(r, "write")
  /\ p \in run[r].todo
  /\ worktree[r].exists \/ p \in run[r].gone
  /\ IF run[r].baseline[p] # tree[p]
     THEN End(r, "diverged") /\ UNCHANGED tree
     ELSE Write(r, p)
  /\ UNCHANGED <<head, index, moves, worktree, log, markers, cleanup>>

(* The worktree of a file that is to be unlinked is not looked at. *)
WritePath(r, p) ==
  /\ At(r, "write")
  /\ p \in run[r].todo
  /\ worktree[r].exists \/ p \in run[r].gone
  /\ Write(r, p)
  /\ UNCHANGED <<head, index, moves, worktree, log, markers, cleanup>>

MergeReturns(r) ==
  /\ At(r, "write")
  /\ run[r].todo = {}
  /\ run' = [run EXCEPT ![r].stage = "remove", ![r].outcome = "merged"]
  /\ OnlyRun

(* remove_worktree(force=True) *)
RemoveWorktree(r) ==
  /\ At(r, "remove")
  /\ worktree[r].exists
  /\ worktree' = [worktree EXCEPT ![r] = NoWorktree]
  /\ End(r, run[r].outcome)
  /\ UNCHANGED <<repo, moves, log, markers, cleanup>>

Save(r) ==
  /\ At(r, "save")
  /\ log' = [log EXCEPT ![r] = run[r].outcome]
  /\ run' = [run EXCEPT ![r] = [NewRun EXCEPT !.stage = "done"]]
  /\ UNCHANGED <<repo, moves, worktree, markers, cleanup>>

(***************************************************************************)
(* What may go wrong at any point.                                         *)
(***************************************************************************)

(* A git command, the adapter or a check fails: also, and then for certain,
   whatever needs a worktree that `josu cleanup` has removed. *)
Fail(r) ==
  /\ run[r].stage \in Live \ {"save"}
  /\ End(r, "error")
  /\ OnlyRun

(* Ctrl-C: the finally clause saves the outcome there is. *)
Interrupt(r) ==
  /\ run[r].stage \in Live \ {"save"}
  /\ End(r, run[r].outcome)
  /\ OnlyRun

(* A git command of the preparation, which may have done its work already, or
   the agent's process is stopped by its timeout. *)
TimesOut(r) ==
  /\ run[r].stage \in Bounded
  /\ End(r, "circuit_breaker_timeout")
  /\ \/ UNCHANGED worktree
     \/ At(r, "add") /\ worktree' = [worktree EXCEPT ![r] = Added]
  /\ UNCHANGED <<repo, moves, log, markers, cleanup>>

Crash(r) ==
  /\ run[r].stage \in Live
  /\ run' = [run EXCEPT ![r] = [NewRun EXCEPT !.stage = "crashed"]]
  /\ OnlyRun

(***************************************************************************)
(* `josu cleanup`, and `josu daemon start`, which stops after the scan.    *)
(***************************************************************************)
OnlyCleanup == UNCHANGED <<repo, moves, worktree, run, log, markers>>

ReadMarkers ==
  /\ cleanup.stage = "idle"
  /\ cleanup' = [cleanup EXCEPT !.stage = "list", !.known = markers]
  /\ OnlyCleanup

(* Mutant: only a run that saved no record can have left a worktree. *)
ListUnrecorded ==
  /\ cleanup.stage = "list"
  /\ cleanup' = [cleanup EXCEPT !.stage = "mark",
                   !.names = {r \in Runs : worktree[r].exists /\ log[r] = "none"} \ cleanup.known]
  /\ OnlyCleanup

(* find_orphaned_worktrees *)
ListWorktrees ==
  /\ cleanup.stage = "list"
  /\ cleanup' = [cleanup EXCEPT !.stage = "mark",
                   !.names = {r \in Runs : worktree[r].exists} \ cleanup.known]
  /\ OnlyCleanup

MarkAbandoned(r) ==
  /\ cleanup.stage = "mark"
  /\ r \in cleanup.names
  /\ markers' = markers \cup {r}
  /\ cleanup' = [cleanup EXCEPT !.names = @ \ {r}]
  /\ UNCHANGED <<repo, moves, worktree, run, log>>

(* The list is shown; --remove, --remove-all and --force say what to do. *)
Choose ==
  /\ cleanup.stage = "mark"
  /\ cleanup.names = {}
  /\ \E names \in SUBSET markers, force \in BOOLEAN :
       cleanup' = [stage |-> "remove", known |-> {}, names |-> names, force |-> force]
  /\ OnlyCleanup

(* Mutant: always --force. *)
RemovableForced(r) == worktree[r].exists

(* git worktree remove refuses a worktree with changes, unless forced. *)
Removable(r) ==
  worktree[r].exists /\ (cleanup.force \/ worktree[r].files = worktree[r].head)

(* Mutant: the marker goes first. *)
CleanupRemoveUnlisting(r) ==
  /\ cleanup.stage = "remove"
  /\ r \in cleanup.names
  /\ IF Removable(r) THEN worktree' = [worktree EXCEPT ![r] = NoWorktree] ELSE UNCHANGED worktree
  /\ markers' = markers \ {r}
  /\ cleanup' = [cleanup EXCEPT !.names = @ \ {r}]
  /\ UNCHANGED <<repo, moves, run, log>>

CleanupRemove(r) ==
  /\ cleanup.stage = "remove"
  /\ r \in cleanup.names
  /\ IF Removable(r)
     THEN /\ worktree' = [worktree EXCEPT ![r] = NoWorktree]
          /\ cleanup' = [cleanup EXCEPT !.stage = "unlink", !.known = {r}]
     ELSE /\ cleanup' = [cleanup EXCEPT !.names = @ \ {r}]
          /\ UNCHANGED worktree
  /\ UNCHANGED <<repo, moves, run, log, markers>>

UnlinkMarker ==
  /\ cleanup.stage = "unlink"
  /\ markers' = markers \ cleanup.known
  /\ cleanup' = [cleanup EXCEPT !.stage = "remove", !.known = {}, !.names = @ \ cleanup.known]
  /\ UNCHANGED <<repo, moves, worktree, run, log>>

CleanupEnds ==
  /\ cleanup.stage = "remove"
  /\ cleanup.names = {}
  /\ cleanup' = NoCleanup
  /\ OnlyCleanup

CleanupDies ==
  /\ cleanup.stage # "idle"
  /\ moves > 0
  /\ moves' = moves - 1
  /\ cleanup' = NoCleanup
  /\ UNCHANGED <<repo, worktree, run, log, markers>>

Developer == \E p \in Paths : Edit(p) \/ Track(p) \/ Commit(p)

Prepare(r) == Begin(r) \/ StashCreate(r) \/ WorktreeAdd(r) \/ StashApply(r) \/ Snapshot(r)

Agent(r) == \/ \E p \in Paths : AgentEdits(r, p) \/ AgentAdds(r, p) \/ AgentCommits(r, p)
            \/ AgentReturns(r) \/ ChecksPass(r)

Finish(r) == \/ Approve(r) \/ Reject(r) \/ Check(r) \/ MergeReturns(r)
             \/ \E p \in Paths : WritePath(r, p)
             \/ RemoveWorktree(r) \/ Save(r)

GoWrong(r) == Fail(r) \/ Interrupt(r) \/ TimesOut(r) \/ Crash(r)

Scan == ReadMarkers \/ ListWorktrees \/ (\E r \in Runs : MarkAbandoned(r)) \/ Choose
Remove == (\E r \in Runs : CleanupRemove(r)) \/ UnlinkMarker \/ CleanupEnds

Next ==
  \/ Developer
  \/ \E r \in Runs : Prepare(r) \/ Agent(r) \/ Finish(r) \/ GoWrong(r)
  \/ Scan \/ Remove \/ CleanupDies

SafeSpec == Init /\ [][Next]_vars

(***************************************************************************)
(* Somebody runs `josu cleanup` again and again.  Any git command and the  *)
(* agent may hang, the developer may never answer.                         *)
(***************************************************************************)
Fairness == WF_vars(Scan) /\ WF_vars(Remove)

Spec == SafeSpec /\ Fairness

(***************************************************************************)
(* Properties                                                              *)
(***************************************************************************)

(* A merge goes ahead only if each file it will write is, at that moment, what
   the agent was given: no edit the agent has not seen is written over,
   tracked or not, made before, while or after it worked (R21;
   find_diverged_paths, merge.py:222-255). *)
ChecksWhatTheAgentSaw ==
  [][\A r \in Runs : At(r, "merge") /\ run'[r].stage = "write"
       => \A p \in Changed(r) : tree[p] = run[r].seed[p]]_vars

(* A run that is reported as diverged, rejected or timed out has written
   nothing: divergence is looked for in all files before any is written
   (merge.py:280-283). *)
AbortsWriteNothing ==
  \A r \in Runs : run[r].outcome \in {"diverged", "rejected", "circuit_breaker_timeout"}
                    => run[r].written = {}

(* What is in no commit of the worktree's branch, and what git does not know. *)
Uncommitted(r) == {p \in Paths : worktree[r].files[p] # worktree[r].head[p]}
Untracked(r)   == Stored(worktree[r].files) \ worktree[r].index

(* run_task (run.py:341-367) and cleanup (cli.py:185-213) delete worktrees.
   Uncommitted work goes with one only if the developer said --force or
   rejected it, or if a merge has written it first; a merge loses the files
   git does not track, and nothing else.  Cleanup without --force loses
   nothing, those files included. *)
OnlyUntrackedFilesAreLost ==
  [][\A r \in Runs : worktree[r].exists /\ ~ worktree'[r].exists
       => \/ Uncommitted(r) = {}
          \/ r \in cleanup.names /\ cleanup.force
          \/ At(r, "remove") /\ run[r].outcome = "rejected"
          \/ /\ At(r, "remove") /\ run[r].outcome = "merged"
             /\ Uncommitted(r) \subseteq run[r].written \cup Untracked(r)]_vars

(* Once listed, a worktree stays on the list as long as it exists, also when
   its removal fails or cleanup is killed (cli.py:197-200). *)
ListedUntilRemoved ==
  [][\A r \in markers : worktree'[r].exists => r \in markers']_vars

(* A worktree whose run is over, in whichever way, is found by a later scan
   even if the run saved no record of it (cli.py:41-85). *)
LeftoversAreListed ==
  \A r \in Runs : worktree[r].exists /\ run[r].stage \in Over
                    ~> r \in markers \/ ~ worktree[r].exists

(* "The worktree always carries uncommitted changes at this point (the
   adapter's own edits) ... its diff has already been applied to repo_root"
   (run.py:362-366): what the agent changed in a tracked file is written before
   its worktree is removed as merged. *)
MergedWorkIsWritten ==
  [][\A r \in Runs : worktree[r].exists /\ run[r].outcome = "merged"
                       /\ run[r].stage = "remove" /\ ~ worktree'[r].exists
       => \A p \in worktree[r].index :
            worktree[r].files[p] # run[r].seed[p] => p \in run[r].written]_vars

(* "A merged or rejected worktree doesn't appear in the abandoned list" (plan
   2026-07-21-001, U8's test scenarios). *)
FinishedRunsAreNotListed ==
  \A r \in Runs : log[r] \in {"merged", "rejected"} /\ ~ worktree[r].exists
                    => r \notin markers
=============================================================================
