--------------------------- MODULE JosuRunProofs ---------------------------
(***************************************************************************)
(* What JosuRun promises for any number of runs, paths and contents, and   *)
(* for any length of a developer's work: type correctness, and the action  *)
(* properties about merging and deleting that TLC checks on two runs.      *)
(***************************************************************************)
EXTENDS JosuRun, TLAPS

(* The values that stand for nothing are well typed. *)
LEMMA Blanks ==
  /\ Blank \in Trees
  /\ NoStash \in Stashes
  /\ NoWorktree \in Worktrees
  /\ NewRun \in RunStates
  /\ NoCleanup \in CleanupStates
<1>1. Blank \in Trees
  BY DEF Blank, Trees
<1> QED
  BY <1>1 DEF NoStash, Stashes, NoWorktree, Worktrees, NewRun, RunStates, Over, Outcomes,
              NoCleanup, CleanupStates

(* What a clean checkout of HEAD, a stash and a stash that is applied are. *)
LEMMA TreeOperators ==
  ASSUME head \in Trees, tree \in Trees
  PROVE  /\ Tracked \in Trees
         /\ Added \in Worktrees
         /\ \A s \in Stashes, t \in Trees : Applied(s, t) \in Trees
         /\ \A t \in Trees : Stored(t) \subseteq Paths
BY DEF Tracked, Trees, Added, Worktrees, Stashes, Applied, Stored
-----------------------------------------------------------------------------
(***************************************************************************)
(* Type correctness.                                                       *)
(***************************************************************************)
RepoTypes ==
  /\ head \in Trees /\ tree \in Trees
  /\ index \subseteq Paths
  /\ moves \in 0..MaxMoves
  /\ Stored(head) \subseteq index

WorktreeTypes ==
  /\ worktree \in [Runs -> Worktrees]
  /\ \A r \in Runs :
       /\ Stored(worktree[r].head) \subseteq worktree[r].index
       /\ ~ worktree[r].exists => worktree[r] = NoWorktree

RunTypes == run \in [Runs -> RunStates] /\ log \in [Runs -> Outcomes \cup {"none"}]

CleanupTypes == markers \subseteq Runs /\ cleanup \in CleanupStates

(* TypeOK, by what its conjuncts are about. *)
LEMMA TypeParts == TypeOK <=> RepoTypes /\ WorktreeTypes /\ RunTypes /\ CleanupTypes
  BY DEF TypeOK, RepoTypes, WorktreeTypes, RunTypes, CleanupTypes

(* The initial states are well typed. *)
LEMMA InitTypes == Init => TypeOK
<1> SUFFICES ASSUME Init PROVE TypeOK
  OBVIOUS
<1>1. RepoTypes
  BY TreeOperators, MovesAssumption DEF Init, RepoTypes
<1>2. WorktreeTypes
  BY Blanks DEF Init, WorktreeTypes, NoWorktree, Stored, Blank
<1>3. RunTypes /\ CleanupTypes
  BY Blanks DEF Init, RunTypes, CleanupTypes
<1> QED
  BY <1>1, <1>2, <1>3, TypeParts

(* The developer's steps. *)
LEMMA DeveloperTypes ==
  ASSUME TypeOK, Developer
  PROVE  TypeOK'
<1>1. RepoTypes'
  <2>1. PICK p \in Paths : Edit(p) \/ Track(p) \/ Commit(p)
    BY DEF Developer
  <2>2. moves' \in 0..MaxMoves
    BY <2>1, MovesAssumption DEF TypeOK, Edit, Track, Commit, Move
  <2>3. CASE Edit(p)
    BY <2>2, <2>3 DEF TypeOK, RepoTypes, Edit, Trees, Stored
  <2>4. CASE Track(p)
    BY <2>2, <2>4 DEF TypeOK, RepoTypes, Track, Trees, Stored
  <2>5. CASE Commit(p)
    BY <2>2, <2>5 DEF TypeOK, RepoTypes, Commit, Trees, Stored
  <2> QED
    BY <2>1, <2>3, <2>4, <2>5
<1>2. UNCHANGED <<worktree, run, log, markers, cleanup>>
  BY DEF Developer, Edit, Track, Commit, Move
<1> QED
  BY <1>1, <1>2 DEF TypeOK, RepoTypes

(* A step of run_task that changes nothing but its local state. *)
LEMMA LocalTypes ==
  ASSUME TypeOK, NEW r \in Runs, NEW v \in RunStates,
         run' = [run EXCEPT ![r] = v], OnlyRun
  PROVE  TypeOK'
BY DEF TypeOK, OnlyRun, repo

(* A run that ends keeps its record in shape. *)
LEMMA EndTypes ==
  ASSUME TypeOK, NEW r \in Runs, NEW o \in Outcomes
  PROVE  [NewRun EXCEPT !.stage = "save", !.outcome = o, !.written = run[r].written] \in RunStates
BY Blanks DEF TypeOK, RunStates, NewRun, Live

(* create_worktree and snapshot_repo. *)
LEMMA PrepareTypes ==
  ASSUME TypeOK, NEW r \in Runs, Prepare(r)
  PROVE  TypeOK'
<1>0. run[r] \in RunStates /\ worktree[r] \in Worktrees /\ head \in Trees /\ tree \in Trees
  BY DEF TypeOK
<1>1. CASE Begin(r)
  <2>1. [run[r] EXCEPT !.stage = "stash"] \in RunStates
    BY <1>0 DEF RunStates, Live, Bounded, Prepares
  <2> QED
    BY <1>1, <2>1, LocalTypes DEF Begin, GoTo
<1>2. CASE StashCreate(r)
  <2> DEFINE s == IF Tracked = head THEN NoStash
                  ELSE [taken |-> TRUE, base |-> head, tree |-> Tracked]
             v == [run[r] EXCEPT !.stage = "add", !.stash = s]
  <2>1. s \in Stashes
    BY <1>0, Blanks, TreeOperators DEF Stashes
  <2>2. v \in RunStates
    BY <1>0, <2>1 DEF RunStates, Live, Bounded, Prepares
  <2>3. run' = [run EXCEPT ![r] = v] /\ OnlyRun
    BY <1>2 DEF StashCreate
  <2> QED
    BY <2>2, <2>3, LocalTypes
<1>3. CASE WorktreeAdd(r)
  <2>1. Added \in Worktrees /\ Added.exists /\ Stored(Added.head) \subseteq Added.index
    BY <1>0, TreeOperators DEF Added
  <2>2. run' \in [Runs -> RunStates]
    BY <1>0, <1>3 DEF WorktreeAdd, TypeOK, RunStates, Live, Bounded, Prepares
  <2> QED
    BY <1>3, <2>1, <2>2 DEF WorktreeAdd, TypeOK, repo
<1>4. CASE StashApply(r)
  <2> DEFINE new == Applied(run[r].stash, worktree[r].files)
             w == [worktree[r] EXCEPT !.files = new, !.index = @ \cup Stored(new)]
  <2>1. new \in Trees /\ Stored(new) \subseteq Paths
    BY <1>0, TreeOperators DEF RunStates, Worktrees
  <2>2. CASE End(r, "error") /\ UNCHANGED worktree
    <3>1. "error" \in Outcomes
      BY DEF Outcomes
    <3> QED
      BY <1>4, <2>2, <3>1, EndTypes, LocalTypes DEF StashApply, End, OnlyRun
  <2>3. CASE /\ worktree[r].exists
             /\ worktree' = [worktree EXCEPT ![r].files = new, ![r].index = @ \cup Stored(new)]
             /\ run' = [run EXCEPT ![r].stage = "snapshot", ![r].seed = new]
    <3>1. w \in Worktrees /\ w.exists /\ Stored(w.head) \subseteq w.index
      BY <1>0, <2>1, <2>3 DEF TypeOK, Worktrees
    <3>2. worktree' = [worktree EXCEPT ![r] = w]
      BY <2>3
    <3>3. run' \in [Runs -> RunStates]
      <4>1. new \in Trees /\ run' = [run EXCEPT ![r].stage = "snapshot", ![r].seed = new]
        BY <2>1, <2>3
      <4> HIDE DEF new
      <4>2. [run[r] EXCEPT !.stage = "snapshot", !.seed = new] \in RunStates
        BY <1>0, <4>1 DEF RunStates, Live, Bounded, Prepares
      <4> QED
        BY <4>1, <4>2 DEF TypeOK
    <3> HIDE DEF w
    <3> QED
      BY <1>4, <3>1, <3>2, <3>3 DEF StashApply, TypeOK, repo
  <2> QED
    BY <1>4, <2>2, <2>3 DEF StashApply
<1>5. CASE Snapshot(r)
  <2> DEFINE b == IF run[r].stash.taken THEN run[r].stash.tree ELSE head
             v == [run[r] EXCEPT !.stage = "agent", !.baseline = b, !.stash = NoStash]
  <2>1. b \in Trees
    BY <1>0 DEF RunStates, Stashes
  <2>2. v \in RunStates
    BY <1>0, <2>1, Blanks DEF RunStates, Live, Bounded
  <2>3. run' = [run EXCEPT ![r] = v] /\ OnlyRun
    BY <1>5 DEF Snapshot
  <2> QED
    BY <2>2, <2>3, LocalTypes
<1> QED
  BY <1>1, <1>2, <1>3, <1>4, <1>5 DEF Prepare

(* The agent's steps keep what HEAD holds in the worktree's index. *)
LEMMA AgentTypes ==
  ASSUME TypeOK, NEW r \in Runs, Agent(r)
  PROVE  TypeOK'
<1>0. run[r] \in RunStates /\ worktree[r] \in Worktrees
  BY DEF TypeOK
<1>1. CASE AgentReturns(r) \/ ChecksPass(r)
  <2>1. /\ [run[r] EXCEPT !.stage = "checks"] \in RunStates
        /\ [run[r] EXCEPT !.stage = "review"] \in RunStates
    BY <1>0 DEF RunStates, Live
  <2> QED
    BY <1>1, <2>1, LocalTypes DEF AgentReturns, ChecksPass, GoTo
<1>2. ASSUME NEW p \in Paths, AgentEdits(r, p) \/ AgentAdds(r, p) \/ AgentCommits(r, p)
      PROVE  TypeOK'
  <2>1. worktree[r].exists
    BY <1>2 DEF AgentEdits, AgentAdds, AgentCommits, AgentStep
  <2>2. worktree' \in [Runs -> Worktrees]
    <3>1. CASE AgentEdits(r, p)
      <4>1. PICK c \in Contents : worktree' = [worktree EXCEPT ![r].files[p] = c]
        BY <3>1 DEF AgentEdits
      <4>2. [worktree[r].files EXCEPT ![p] = c] \in Trees
        BY <1>0 DEF Worktrees, Trees
      <4>3. [worktree[r] EXCEPT !.files[p] = c] \in Worktrees
        BY <1>0, <4>2 DEF Worktrees
      <4> QED
        BY <4>1, <4>3 DEF TypeOK
    <3>2. CASE AgentAdds(r, p)
      BY <3>2 DEF TypeOK, AgentAdds, Worktrees
    <3>3. CASE AgentCommits(r, p)
      <4>1. [worktree[r].head EXCEPT ![p] = worktree[r].files[p]] \in Trees
        BY <1>0 DEF Worktrees, Trees
      <4>2. [worktree[r] EXCEPT !.head[p] = worktree[r].files[p]] \in Worktrees
        BY <1>0, <4>1 DEF Worktrees
      <4>3. worktree' = [worktree EXCEPT ![r].head[p] = worktree[r].files[p]]
        BY <3>3 DEF AgentCommits
      <4> QED
        BY <4>2, <4>3 DEF TypeOK
    <3> QED
      BY <1>2, <3>1, <3>2, <3>3
  <2>3. worktree'[r].exists /\ Stored(worktree'[r].head) \subseteq worktree'[r].index
    <3> DEFINE w == worktree[r]
    <3>1. w \in Worktrees /\ Stored(w.head) \subseteq w.index
      BY DEF TypeOK
    <3>2. CASE AgentEdits(r, p)
      <4>1. PICK c \in Contents : worktree' = [worktree EXCEPT ![r].files[p] = c]
        BY <3>2 DEF AgentEdits
      <4>2. /\ worktree'[r].head = w.head /\ worktree'[r].index = w.index
            /\ worktree'[r].exists = w.exists
        BY <3>1, <4>1 DEF TypeOK, Worktrees
      <4> QED
        BY <2>1, <3>1, <4>2
    <3>3. CASE AgentAdds(r, p)
      <4>1. /\ worktree'[r].head = w.head /\ worktree'[r].index = w.index \cup {p}
            /\ worktree'[r].exists = w.exists
        BY <3>1, <3>3 DEF TypeOK, Worktrees, AgentAdds
      <4> QED
        BY <2>1, <3>1, <4>1
    <3>4. CASE AgentCommits(r, p)
      <4>1. /\ worktree'[r].head = [w.head EXCEPT ![p] = w.files[p]]
            /\ worktree'[r].index = w.index
            /\ worktree'[r].exists = w.exists
            /\ p \in w.index
        BY <3>1, <3>4 DEF TypeOK, Worktrees, AgentCommits
      <4>2. Stored(worktree'[r].head) \subseteq Stored(w.head) \cup {p}
        BY <3>1, <4>1 DEF Stored, Worktrees, Trees
      <4> QED
        BY <2>1, <3>1, <4>1, <4>2
    <3> QED
      BY <1>2, <3>2, <3>3, <3>4
  <2>4. \A s \in Runs \ {r} : worktree'[s] = worktree[s]
    BY <1>2 DEF TypeOK, AgentEdits, AgentAdds, AgentCommits
  <2>5. UNCHANGED <<repo, moves, run, log, markers, cleanup>>
    BY <1>2 DEF AgentEdits, AgentAdds, AgentCommits, AgentStep
  <2> QED
    BY <2>2, <2>3, <2>4, <2>5 DEF TypeOK, repo
<1> QED
  BY <1>1, <1>2 DEF Agent

(* The verdict, merge() and the saved record. *)
LEMMA FinishTypes ==
  ASSUME TypeOK, NEW r \in Runs, Finish(r)
  PROVE  TypeOK'
<1>0. /\ run[r] \in RunStates /\ worktree[r] \in Worktrees
      /\ Changed(r) \subseteq Paths
  BY DEF TypeOK, Changed, Worktrees, Trees, Stored
<1>1. CASE Approve(r)
  <2>1. [run[r] EXCEPT !.stage = "merge"] \in RunStates
    BY <1>0 DEF RunStates, Live
  <2> QED
    BY <1>1, <2>1, LocalTypes DEF Approve, GoTo
<1>2. CASE Reject(r)
  <2> DEFINE v == [run[r] EXCEPT !.stage = "remove", !.outcome = "rejected"]
  <2>1. v \in RunStates
    BY <1>0 DEF RunStates, Live, Outcomes
  <2>2. run' = [run EXCEPT ![r] = v] /\ OnlyRun
    BY <1>2 DEF Reject
  <2> QED
    BY <2>1, <2>2, LocalTypes
<1>3. CASE Check(r)
  <2> DEFINE v == [run[r] EXCEPT !.stage = "write", !.todo = Changed(r),
                                 !.gone = Changed(r) \ Stored(worktree[r].files)]
  <2>1. v \in RunStates /\ "diverged" \in Outcomes
    BY <1>0 DEF RunStates, Live, Outcomes
  <2>2. OnlyRun /\ (End(r, "diverged") \/ run' = [run EXCEPT ![r] = v])
    BY <1>3 DEF Check
  <2> QED
    BY <2>1, <2>2, EndTypes, LocalTypes DEF End
<1>4. ASSUME NEW p \in Paths, WritePath(r, p) PROVE TypeOK'
  <2>1. tree' \in Trees
    BY <1>0, <1>4 DEF TypeOK, WritePath, Write, Trees, Worktrees
  <2>2. run' \in [Runs -> RunStates]
    <3>1. [run[r] EXCEPT !.todo = @ \ {p}, !.gone = @ \ {p}, !.written = @ \cup {p}]
            \in RunStates
      BY <1>0, <1>4 DEF RunStates
    <3>2. run' = [run EXCEPT ![r].todo = @ \ {p}, ![r].gone = @ \ {p},
                             ![r].written = @ \cup {p}]
      BY <1>4 DEF WritePath, Write
    <3> QED
      BY <3>1, <3>2 DEF TypeOK
  <2> QED
    BY <1>4, <2>1, <2>2 DEF TypeOK, WritePath
<1>5. CASE MergeReturns(r)
  <2> DEFINE v == [run[r] EXCEPT !.stage = "remove", !.outcome = "merged"]
  <2>1. v \in RunStates
    BY <1>0 DEF RunStates, Live, Outcomes
  <2>2. run' = [run EXCEPT ![r] = v] /\ OnlyRun
    BY <1>5 DEF MergeReturns
  <2> QED
    BY <2>1, <2>2, LocalTypes
<1>6. CASE RemoveWorktree(r)
  <2>1. run' \in [Runs -> RunStates]
    BY <1>0, <1>6, EndTypes DEF TypeOK, RemoveWorktree, End, RunStates
  <2>2. Stored(NoWorktree.head) \subseteq NoWorktree.index
    BY DEF NoWorktree, Stored, Blank
  <2> QED
    BY <1>6, <2>1, <2>2, Blanks DEF TypeOK, RemoveWorktree, repo
<1>7. CASE Save(r)
  <2>1. run' \in [Runs -> RunStates] /\ log' \in [Runs -> Outcomes \cup {"none"}]
    BY <1>0, <1>7, Blanks DEF TypeOK, Save, NewRun, RunStates, Over
  <2> QED
    BY <1>7, <2>1 DEF TypeOK, Save, repo
<1> QED
  BY <1>1, <1>2, <1>3, <1>4, <1>5, <1>6, <1>7 DEF Finish

(* Failures, interrupts, timeouts and crashes. *)
LEMMA GoWrongTypes ==
  ASSUME TypeOK, NEW r \in Runs, GoWrong(r)
  PROVE  TypeOK'
<1>0. run[r] \in RunStates /\ run[r].outcome \in Outcomes
  BY DEF TypeOK, RunStates
<1>1. "error" \in Outcomes /\ "circuit_breaker_timeout" \in Outcomes
  BY DEF Outcomes
<1>2. CASE Fail(r) \/ Interrupt(r)
  BY <1>0, <1>1, <1>2, EndTypes, LocalTypes DEF Fail, Interrupt, End
<1>3. CASE TimesOut(r)
  <2>1. CASE UNCHANGED worktree
    BY <1>1, <1>3, <2>1, EndTypes, LocalTypes DEF TimesOut, End, OnlyRun
  <2>2. CASE worktree' = [worktree EXCEPT ![r] = Added]
    <3>1. Added \in Worktrees /\ Added.exists /\ Stored(Added.head) \subseteq Added.index
      BY TreeOperators DEF TypeOK, Added
    <3>2. run' \in [Runs -> RunStates]
      BY <1>1, <1>3, EndTypes DEF TimesOut, End, TypeOK
    <3> QED
      BY <1>3, <2>2, <3>1, <3>2 DEF TimesOut, TypeOK, repo
  <2> QED
    BY <1>3, <2>1, <2>2 DEF TimesOut
<1>4. CASE Crash(r)
  <2>1. [NewRun EXCEPT !.stage = "crashed"] \in RunStates
    BY Blanks DEF RunStates, NewRun, Over
  <2> QED
    BY <1>4, <2>1, LocalTypes DEF Crash
<1> QED
  BY <1>2, <1>3, <1>4 DEF GoWrong

(* The scan and the removal. *)
LEMMA CleanupStepTypes ==
  ASSUME TypeOK, Scan \/ Remove \/ CleanupDies
  PROVE  TypeOK'
<1>0. cleanup \in CleanupStates /\ markers \subseteq Runs
  BY DEF TypeOK
<1>1. CASE ReadMarkers \/ ListWorktrees
  <2>1. cleanup' \in CleanupStates
    <3>1. CASE ReadMarkers
      BY <1>0, <3>1 DEF ReadMarkers, CleanupStates
    <3>2. CASE ListWorktrees
      BY <1>0, <3>2 DEF ListWorktrees, CleanupStates
    <3> QED
      BY <1>1, <3>1, <3>2
  <2>2. OnlyCleanup
    BY <1>1 DEF ReadMarkers, ListWorktrees
  <2> QED
    BY <2>1, <2>2 DEF OnlyCleanup, TypeOK, repo
<1>2. ASSUME NEW r \in Runs, MarkAbandoned(r) PROVE TypeOK'
  BY <1>0, <1>2 DEF MarkAbandoned, TypeOK, CleanupStates, repo
<1>3. CASE Choose
  BY <1>0, <1>3 DEF Choose, OnlyCleanup, TypeOK, CleanupStates, repo
<1>4. ASSUME NEW r \in Runs, CleanupRemove(r) PROVE TypeOK'
  <2>1. cleanup' \in CleanupStates
    <3>1. CASE Removable(r)
      <4>1. cleanup' = [cleanup EXCEPT !.stage = "unlink", !.known = {r}]
        BY <1>4, <3>1 DEF CleanupRemove
      <4> QED
        BY <1>0, <4>1 DEF CleanupStates
    <3>2. CASE ~ Removable(r)
      <4>1. cleanup' = [cleanup EXCEPT !.names = @ \ {r}]
        BY <1>4, <3>2 DEF CleanupRemove
      <4> QED
        BY <1>0, <4>1 DEF CleanupStates
    <3> QED
      BY <3>1, <3>2
  <2>2. Stored(NoWorktree.head) \subseteq NoWorktree.index
    BY DEF NoWorktree, Stored, Blank
  <2>3. WorktreeTypes'
    BY <1>4, <2>2, Blanks DEF CleanupRemove, TypeOK, WorktreeTypes
  <2> QED
    BY <1>4, <2>1, <2>3 DEF CleanupRemove, TypeOK, WorktreeTypes, repo
<1>5. CASE UnlinkMarker \/ CleanupEnds
  <2>1. cleanup' \in CleanupStates
    <3>1. CASE UnlinkMarker
      BY <1>0, <3>1 DEF UnlinkMarker, CleanupStates
    <3>2. CASE CleanupEnds
      BY <3>2, Blanks DEF CleanupEnds
    <3> QED
      BY <1>5, <3>1, <3>2
  <2>2. UNCHANGED <<repo, moves, worktree, run, log>> /\ markers' \subseteq Runs
    BY <1>0, <1>5 DEF UnlinkMarker, CleanupEnds, OnlyCleanup
  <2> QED
    BY <2>1, <2>2 DEF TypeOK, repo
<1>6. CASE CleanupDies
  BY <1>6, Blanks, MovesAssumption DEF CleanupDies, TypeOK, repo
<1> QED
  BY <1>1, <1>2, <1>3, <1>4, <1>5, <1>6 DEF Scan, Remove

(* Every step preserves the types. *)
LEMMA TypeStep == TypeOK /\ [Next]_vars => TypeOK'
<1> SUFFICES ASSUME TypeOK, [Next]_vars PROVE TypeOK'
  OBVIOUS
<1>1. CASE UNCHANGED vars
  BY <1>1 DEF vars, repo, TypeOK
<1>2. ASSUME NEW r \in Runs, Prepare(r) \/ Agent(r) \/ Finish(r) \/ GoWrong(r)
      PROVE  TypeOK'
  BY <1>2, PrepareTypes, AgentTypes, FinishTypes, GoWrongTypes
<1> QED
  BY <1>1, <1>2, DeveloperTypes, CleanupStepTypes DEF Next

(* Type correctness of the repository, the worktrees, the runs and the
   cleanup, for every instance. *)
THEOREM TypeCorrect == SafeSpec => []TypeOK
  BY InitTypes, TypeStep, PTL DEF SafeSpec
-----------------------------------------------------------------------------
(***************************************************************************)
(* What is written and what is deleted.  A run knows what it has written   *)
(* and its outcome is "error" until it decides otherwise; its worktree is  *)
(* as the agent left it until it is removed; and a marker that is about to *)
(* go is that of a worktree that has gone and will not come back.          *)
(***************************************************************************)
Fresh     == {"idle", "stash", "add"}
Undecided == {"idle", "checks", "review", "merge"} \cup Bounded
Aborts    == {"diverged", "rejected", "circuit_breaker_timeout"}

WorktreeFirst(r) == run[r].stage \in Fresh => ~ worktree[r].exists

WritesKnown(r) ==
  /\ run[r].stage \in Undecided => run[r].written = {}
  /\ run[r].stage \in Undecided \cup {"write"} => run[r].outcome = "error"
  /\ run[r].outcome \in Aborts => run[r].written = {}

WorkKnown(r) ==
  /\ At(r, "write") => Changed(r) \subseteq run[r].todo \cup run[r].written
  /\ At(r, "remove") =>
       \/ run[r].outcome = "rejected"
       \/ run[r].outcome = "merged" /\ Changed(r) \subseteq run[r].written

UnlinkKnown ==
  cleanup.stage = "unlink" =>
    \A r \in cleanup.known : ~ worktree[r].exists /\ run[r].stage \notin Fresh

IInv ==
  /\ TypeOK
  /\ \A r \in Runs : WorktreeFirst(r) /\ WritesKnown(r) /\ WorkKnown(r)
  /\ UnlinkKnown

RunStep(r) == Prepare(r) \/ Agent(r) \/ Finish(r) \/ GoWrong(r)

(* A step of one run leaves the others and the cleanup as they are. *)
LEMMA RunStepFrame ==
  ASSUME TypeOK, NEW r \in Runs, RunStep(r)
  PROVE  /\ UNCHANGED <<markers, cleanup>>
         /\ \A s \in Runs \ {r} : run'[s] = run[s] /\ worktree'[s] = worktree[s]
<1>1. CASE Prepare(r)
  BY <1>1 DEF TypeOK, Prepare, Begin, StashCreate, WorktreeAdd, StashApply, Snapshot,
              GoTo, End, OnlyRun
<1>2. CASE Agent(r)
  BY <1>2 DEF TypeOK, Agent, AgentEdits, AgentAdds, AgentCommits, AgentReturns,
              ChecksPass, AgentStep, GoTo, OnlyRun
<1>3. CASE Finish(r)
  BY <1>3 DEF TypeOK, Finish, Approve, Reject, Check, MergeReturns, WritePath, Write,
              RemoveWorktree, Save, GoTo, End, OnlyRun
<1>4. CASE GoWrong(r)
  BY <1>4 DEF TypeOK, GoWrong, Fail, Interrupt, TimesOut, Crash, End, OnlyRun
<1> QED
  BY <1>1, <1>2, <1>3, <1>4 DEF RunStep

(* How each kind of step moves a run on, without the data. *)
LEMMA EndStep ==
  ASSUME TypeOK, NEW r \in Runs, NEW o, End(r, o)
  PROVE  /\ run'[r].stage = "save"
         /\ run'[r].outcome = o
         /\ run'[r].written = run[r].written
BY DEF TypeOK, End, NewRun

(* What a merge would write depends on the worktree alone. *)
LEMMA WorkIsInTheWorktree ==
  ASSUME NEW r \in Runs, worktree'[r] = worktree[r]
  PROVE  Changed(r)' = Changed(r)
BY DEF Changed

(* The preparation decides nothing and writes nothing. *)
LEMMA PrepareInv ==
  ASSUME TypeOK, NEW r \in Runs, Prepare(r),
         WorktreeFirst(r), WritesKnown(r), WorkKnown(r)
  PROVE  WorktreeFirst(r)' /\ WritesKnown(r)' /\ WorkKnown(r)'
<1>1. CASE StashApply(r) /\ End(r, "error")
  BY <1>1, EndStep DEF StashApply, WorktreeFirst, WritesKnown, WorkKnown, At, Fresh,
     Undecided, Bounded, Prepares, Aborts
<1>2. ASSUME ~ (StashApply(r) /\ End(r, "error"))
      PROVE  /\ run[r].stage \in {"idle", "stash", "add", "apply", "snapshot"}
             /\ run'[r].stage \in {"stash", "add", "apply", "snapshot", "agent"}
             /\ run'[r].stage \in Fresh => run[r].stage \in Fresh /\ worktree'[r] = worktree[r]
             /\ run'[r].written = run[r].written /\ run'[r].outcome = run[r].outcome
  <2>1. CASE Begin(r)
    BY <2>1 DEF TypeOK, RunStates, Begin, At, GoTo, OnlyRun, Fresh
  <2>2. CASE StashCreate(r)
    BY <2>2 DEF TypeOK, RunStates, StashCreate, At, OnlyRun, Fresh
  <2>3. CASE WorktreeAdd(r)
    BY <2>3 DEF TypeOK, RunStates, WorktreeAdd, At, Fresh
  <2>4. CASE StashApply(r)
    BY <1>2, <2>4 DEF TypeOK, RunStates, StashApply, At, Fresh
  <2>5. CASE Snapshot(r)
    BY <2>5 DEF TypeOK, RunStates, Snapshot, At, Fresh
  <2> QED
    BY <2>1, <2>2, <2>3, <2>4, <2>5 DEF Prepare
<1> QED
  BY <1>1, <1>2 DEF WorktreeFirst, WritesKnown, WorkKnown, At, Fresh, Undecided,
                    Bounded, Prepares, Aborts

(* Nor does the agent, as far as repo_root is concerned. *)
LEMMA AgentInv ==
  ASSUME TypeOK, NEW r \in Runs, Agent(r),
         WorktreeFirst(r), WritesKnown(r), WorkKnown(r)
  PROVE  WorktreeFirst(r)' /\ WritesKnown(r)' /\ WorkKnown(r)'
<1>1. /\ run[r].stage \in {"agent", "checks"}
      /\ run'[r].stage \in {"agent", "checks", "review"}
      /\ run'[r].written = run[r].written /\ run'[r].outcome = run[r].outcome
  BY DEF TypeOK, RunStates, Agent, AgentEdits, AgentAdds, AgentCommits, AgentReturns,
         ChecksPass, AgentStep, GoTo, At
<1> QED
  BY <1>1 DEF WorktreeFirst, WritesKnown, WorkKnown, At, Fresh, Undecided, Bounded,
              Prepares, Aborts

(* merge() writes no less than it has found, and decides before it writes. *)
LEMMA FinishInv ==
  ASSUME TypeOK, NEW r \in Runs, Finish(r),
         WorktreeFirst(r), WritesKnown(r), WorkKnown(r)
  PROVE  WorktreeFirst(r)' /\ WritesKnown(r)' /\ WorkKnown(r)'
<1> USE DEF WorktreeFirst, WritesKnown, WorkKnown, At, Fresh, Undecided, Bounded, Prepares,
            Aborts
<1>1. CASE Approve(r)
  BY <1>1 DEF TypeOK, RunStates, Approve, GoTo
<1>2. CASE Reject(r)
  BY <1>2 DEF TypeOK, RunStates, Reject
<1>3. CASE Check(r)
  <2>1. Changed(r)' = Changed(r)
    BY <1>3, WorkIsInTheWorktree DEF Check, OnlyRun
  <2>2. CASE End(r, "diverged")
    BY <1>3, <2>2, EndStep DEF Check
  <2>3. CASE run' = [run EXCEPT ![r].stage = "write", ![r].todo = Changed(r),
                                ![r].gone = Changed(r) \ Stored(worktree[r].files)]
    BY <1>3, <2>1, <2>3 DEF TypeOK, RunStates, Check
  <2> QED
    BY <1>3, <2>2, <2>3 DEF Check
<1>4. ASSUME NEW p \in Paths, WritePath(r, p)
      PROVE  WorktreeFirst(r)' /\ WritesKnown(r)' /\ WorkKnown(r)'
  <2>1. Changed(r)' = Changed(r)
    BY <1>4, WorkIsInTheWorktree DEF WritePath, Write
  <2>2. /\ run'[r].stage = "write" /\ run[r].stage = "write"
        /\ run'[r].outcome = run[r].outcome
        /\ run'[r].todo = run[r].todo \ {p} /\ run'[r].written = run[r].written \cup {p}
    BY <1>4 DEF TypeOK, RunStates, WritePath, Write
  <2> QED
    BY <2>1, <2>2
<1>5. CASE MergeReturns(r)
  <2>1. Changed(r)' = Changed(r)
    BY <1>5, WorkIsInTheWorktree DEF MergeReturns, OnlyRun
  <2> QED
    BY <1>5, <2>1 DEF TypeOK, RunStates, MergeReturns
<1>6. CASE RemoveWorktree(r)
  BY <1>6, EndStep DEF RemoveWorktree
<1>7. CASE Save(r)
  BY <1>7 DEF TypeOK, RunStates, Save, NewRun
<1> QED
  BY <1>1, <1>2, <1>3, <1>4, <1>5, <1>6, <1>7 DEF Finish

(* A run that goes wrong keeps count of what it has written. *)
LEMMA GoWrongInv ==
  ASSUME TypeOK, NEW r \in Runs, GoWrong(r),
         WorktreeFirst(r), WritesKnown(r), WorkKnown(r)
  PROVE  WorktreeFirst(r)' /\ WritesKnown(r)' /\ WorkKnown(r)'
<1> USE DEF WorktreeFirst, WritesKnown, WorkKnown, At, Fresh, Undecided, Bounded, Prepares,
            Aborts
<1>1. CASE Fail(r) \/ Interrupt(r)
  BY <1>1, EndStep DEF Fail, Interrupt
<1>2. CASE TimesOut(r)
  BY <1>2, EndStep DEF TimesOut
<1>3. CASE Crash(r)
  BY <1>3 DEF TypeOK, Crash, NewRun
<1> QED
  BY <1>1, <1>2, <1>3 DEF GoWrong

(* A run does not start over, and has one worktree only. *)
LEMMA NotFreshAgain ==
  ASSUME TypeOK, NEW r \in Runs, RunStep(r), run[r].stage \notin Fresh
  PROVE  /\ run'[r].stage \notin Fresh
         /\ worktree'[r].exists => worktree[r].exists
<1>1. CASE Prepare(r)
  <2>1. CASE StashApply(r) /\ End(r, "error")
    BY <2>1, EndStep DEF StashApply, At, Fresh
  <2>2. CASE StashApply(r) /\ ~ End(r, "error")
    BY <2>2 DEF TypeOK, RunStates, StashApply, Fresh
  <2>3. CASE Snapshot(r)
    BY <2>3 DEF TypeOK, RunStates, Snapshot, OnlyRun, Fresh
  <2> QED
    BY <1>1, <2>1, <2>2, <2>3 DEF Prepare, Begin, StashCreate, WorktreeAdd, At, Fresh
<1>2. CASE Agent(r)
  BY <1>2 DEF TypeOK, RunStates, Agent, AgentEdits, AgentAdds, AgentCommits, AgentReturns,
              ChecksPass, AgentStep, At, GoTo, OnlyRun, Fresh
<1>3. CASE Finish(r)
  <2>1. CASE Approve(r) \/ Reject(r) \/ MergeReturns(r) \/ Save(r)
    BY <2>1 DEF TypeOK, RunStates, Approve, Reject, MergeReturns, Save, NewRun, GoTo,
                OnlyRun, Fresh
  <2>2. CASE Check(r)
    BY <2>2, EndStep DEF TypeOK, RunStates, Check, OnlyRun, Fresh
  <2>3. ASSUME NEW p \in Paths, WritePath(r, p)
        PROVE  run'[r].stage \notin Fresh /\ worktree' = worktree
    BY <2>3 DEF TypeOK, RunStates, WritePath, Write, Fresh
  <2>4. CASE RemoveWorktree(r)
    BY <2>4, EndStep DEF RemoveWorktree, Fresh
  <2> QED
    BY <1>3, <2>1, <2>2, <2>3, <2>4 DEF Finish
<1>4. CASE GoWrong(r)
  <2>1. CASE Fail(r) \/ Interrupt(r)
    BY <2>1, EndStep DEF Fail, Interrupt, OnlyRun, Fresh
  <2>2. CASE TimesOut(r)
    BY <2>2, EndStep DEF TimesOut, At, Fresh
  <2>3. CASE Crash(r)
    BY <2>3 DEF TypeOK, Crash, NewRun, OnlyRun, Fresh
  <2> QED
    BY <1>4, <2>1, <2>2, <2>3 DEF GoWrong
<1> QED
  BY <1>1, <1>2, <1>3, <1>4 DEF RunStep

(* A step of a run preserves the invariant, for itself and for the others. *)
LEMMA RunStepInv ==
  ASSUME IInv, NEW r \in Runs, RunStep(r)
  PROVE  IInv'
<1>1. TypeOK'
  BY TypeStep DEF IInv, RunStep, Next
<1>2. WorktreeFirst(r)' /\ WritesKnown(r)' /\ WorkKnown(r)'
  BY PrepareInv, AgentInv, FinishInv, GoWrongInv DEF IInv, RunStep
<1>3. ASSUME NEW s \in Runs \ {r} PROVE WorktreeFirst(s)' /\ WritesKnown(s)' /\ WorkKnown(s)'
  <2>1. run'[s] = run[s] /\ worktree'[s] = worktree[s]
    BY RunStepFrame DEF IInv
  <2>2. Changed(s)' = Changed(s)
    BY <2>1, WorkIsInTheWorktree
  <2> QED
    BY <2>1, <2>2 DEF IInv, WorktreeFirst, WritesKnown, WorkKnown, At
<1>4. UnlinkKnown'
  <2>1. cleanup' = cleanup /\ cleanup.known \subseteq Runs
    BY RunStepFrame DEF IInv, TypeOK, CleanupStates
  <2>2. ASSUME NEW s \in cleanup.known, ~ worktree[s].exists, run[s].stage \notin Fresh
        PROVE  ~ worktree'[s].exists /\ run'[s].stage \notin Fresh
    BY <2>1, <2>2, RunStepFrame, NotFreshAgain DEF IInv
  <2>3. CASE cleanup.stage = "unlink"
    BY <2>1, <2>2, <2>3 DEF IInv, UnlinkKnown
  <2> QED
    BY <2>1, <2>3 DEF UnlinkKnown
<1> QED
  BY <1>1, <1>2, <1>3, <1>4 DEF IInv

(* Cleanup only ever removes worktrees. *)
LEMMA CleanupStepInv ==
  ASSUME IInv, Scan \/ Remove \/ CleanupDies
  PROVE  IInv'
<1>1. TypeOK'
  BY TypeStep DEF IInv, Next
<1>2. run' = run /\ \A r \in Runs : worktree'[r] \in {worktree[r], NoWorktree}
  BY DEF IInv, TypeOK, Scan, Remove, CleanupDies, ReadMarkers, ListWorktrees, MarkAbandoned,
         Choose, CleanupRemove, UnlinkMarker, CleanupEnds, OnlyCleanup
<1>3. ASSUME NEW r \in Runs PROVE WorktreeFirst(r)' /\ WritesKnown(r)' /\ WorkKnown(r)'
  <2>1. Changed(r)' \subseteq Changed(r)
    <3>1. CASE worktree'[r] = worktree[r]
      BY <3>1, WorkIsInTheWorktree
    <3>2. CASE worktree'[r] = NoWorktree
      BY <3>2 DEF Changed, NoWorktree, Stored, Blank
    <3> QED
      BY <1>2, <3>1, <3>2
  <2> QED
    BY <1>2, <2>1 DEF IInv, WorktreeFirst, WritesKnown, WorkKnown, At, NoWorktree
<1>4. UnlinkKnown'
  <2>1. ASSUME NEW r \in Runs, CleanupRemove(r) PROVE UnlinkKnown'
    <3>1. CASE Removable(r)
      <4>1. cleanup'.known = {r} /\ run' = run /\ worktree'[r] = NoWorktree
        BY <2>1, <3>1 DEF IInv, TypeOK, CleanupStates, CleanupRemove
      <4>2. run[r].stage \notin Fresh
        BY <3>1 DEF IInv, WorktreeFirst, Removable
      <4> QED
        BY <4>1, <4>2 DEF UnlinkKnown, NoWorktree
    <3>2. CASE ~ Removable(r)
      BY <2>1, <3>2 DEF IInv, TypeOK, CleanupStates, UnlinkKnown, CleanupRemove
    <3> QED
      BY <3>1, <3>2
  <2>2. CASE Scan \/ UnlinkMarker \/ CleanupEnds \/ CleanupDies
    <3>1. cleanup'.stage # "unlink"
      <4>0. cleanup \in CleanupStates
        BY DEF IInv, TypeOK
      <4>1. CASE ReadMarkers \/ ListWorktrees
        BY <4>0, <4>1 DEF CleanupStates, ReadMarkers, ListWorktrees
      <4>2. ASSUME NEW r \in Runs, MarkAbandoned(r) PROVE cleanup'.stage # "unlink"
        BY <4>0, <4>2 DEF CleanupStates, MarkAbandoned
      <4>3. CASE Choose
        BY <4>3 DEF Choose
      <4>4. CASE UnlinkMarker
        BY <4>0, <4>4 DEF CleanupStates, UnlinkMarker
      <4>5. CASE CleanupEnds \/ CleanupDies
        BY <4>5 DEF CleanupEnds, CleanupDies, NoCleanup
      <4> QED
        BY <2>2, <4>1, <4>2, <4>3, <4>4, <4>5 DEF Scan
    <3> QED
      BY <3>1 DEF UnlinkKnown
  <2> QED
    BY <2>1, <2>2 DEF Remove
<1> QED
  BY <1>1, <1>3, <1>4 DEF IInv

(* The invariant holds initially ... *)
LEMMA InitInv == Init => IInv
  BY InitTypes DEF Init, IInv, WorktreeFirst, WritesKnown, WorkKnown, UnlinkKnown, At,
     NewRun, NoCleanup, NoWorktree, Aborts

(* ... and is preserved by every step. *)
LEMMA StepInv == IInv /\ [Next]_vars => IInv'
<1> SUFFICES ASSUME IInv, [Next]_vars PROVE IInv'
  OBVIOUS
<1>1. CASE UNCHANGED vars
  <2>1. ASSUME NEW r \in Runs PROVE Changed(r)' = Changed(r)
    BY <1>1, WorkIsInTheWorktree DEF vars
  <2> QED
    BY <1>1, <2>1, TypeStep DEF vars, IInv, WorktreeFirst, WritesKnown, WorkKnown,
                                UnlinkKnown, At
<1>2. CASE Developer
  <2>1. UNCHANGED <<worktree, run, log, markers, cleanup>>
    BY <1>2 DEF Developer, Edit, Track, Commit, Move
  <2>2. ASSUME NEW r \in Runs PROVE Changed(r)' = Changed(r)
    BY <2>1, WorkIsInTheWorktree
  <2> QED
    BY <2>1, <2>2, TypeStep DEF IInv, WorktreeFirst, WritesKnown, WorkKnown, UnlinkKnown, At
<1> QED
  BY <1>1, <1>2, RunStepInv, CleanupStepInv DEF Next, RunStep

(* The strengthening of the safety properties is inductive, so it holds of every
   behaviour of runs, developer and cleanup (run.py:163-397, cli.py:41-116, 185-213). *)
THEOREM Invariance == SafeSpec => []IInv
  BY InitInv, StepInv, PTL DEF SafeSpec

(* A run that ends as diverged, rejected or timed out has written nothing
   (merge.py:280-283): the theorem for any number of runs and files. *)
THEOREM AbortsAreClean == SafeSpec => []AbortsWriteNothing
<1>1. IInv => AbortsWriteNothing
  BY DEF IInv, WritesKnown, AbortsWriteNothing, Aborts
<1> QED
  BY <1>1, Invariance, PTL

(* Only the end of a run and the cleanup delete a worktree. *)
LEMMA WhoDeletes ==
  ASSUME IInv, [Next]_vars, NEW r \in Runs, worktree[r].exists, ~ worktree'[r].exists
  PROVE  RemoveWorktree(r) \/ (CleanupRemove(r) /\ Removable(r))
<1>1. Next
  BY DEF vars
<1>2. CASE Developer \/ Scan \/ CleanupDies \/ UnlinkMarker \/ CleanupEnds
  BY <1>2 DEF Developer, Edit, Track, Commit, Move, Scan, ReadMarkers, ListWorktrees,
              MarkAbandoned, Choose, UnlinkMarker, CleanupEnds, CleanupDies, OnlyCleanup
<1>3. ASSUME NEW s \in Runs, CleanupRemove(s) PROVE CleanupRemove(r) /\ Removable(r)
  BY <1>3 DEF IInv, TypeOK, CleanupRemove
<1>4. ASSUME NEW s \in Runs, RunStep(s) PROVE RemoveWorktree(r)
  <2>1. s = r
    BY <1>4, RunStepFrame DEF IInv
  <2>2. CASE Prepare(r)
    BY <2>2 DEF IInv, TypeOK, Worktrees, Prepare, Begin, StashCreate, WorktreeAdd, Added,
                StashApply, Snapshot, OnlyRun
  <2>3. CASE Agent(r)
    BY <2>3 DEF IInv, TypeOK, Worktrees, Agent, AgentEdits, AgentAdds, AgentCommits,
                AgentReturns, ChecksPass, AgentStep, OnlyRun
  <2>4. CASE GoWrong(r)
    BY <2>4 DEF IInv, TypeOK, GoWrong, Fail, Interrupt, TimesOut, Crash, Added, OnlyRun
  <2>5. CASE Finish(r)
    BY <2>5 DEF Finish, Approve, Reject, Check, MergeReturns, WritePath, Write, Save, OnlyRun
  <2> QED
    BY <1>4, <2>1, <2>2, <2>3, <2>4, <2>5 DEF RunStep
<1> QED
  BY <1>1, <1>2, <1>3, <1>4 DEF Next, Remove, RunStep

(* Everything but what git does not track is among the changes it reports. *)
LEMMA ChangedOrUntracked ==
  ASSUME TypeOK, NEW r \in Runs
  PROVE  Uncommitted(r) \subseteq Changed(r) \cup Untracked(r)
BY DEF TypeOK, Worktrees, Trees, Uncommitted, Changed, Untracked, Stored

(* No worktree goes with uncommitted work in it, tracked or not, unless the
   developer rejected it or said --force, or it is written first: what a merged
   run loses are at most files git does not track, whatever the others did
   meanwhile (run.py:341-367, cli.py:185-213). *)
THEOREM WorkSurvives == SafeSpec => OnlyUntrackedFilesAreLost
<1> DEFINE Kept(r) ==
      \/ Uncommitted(r) = {}
      \/ r \in cleanup.names /\ cleanup.force
      \/ At(r, "remove") /\ run[r].outcome = "rejected"
      \/ /\ At(r, "remove") /\ run[r].outcome = "merged"
         /\ Uncommitted(r) \subseteq run[r].written \cup Untracked(r)
<1>1. ASSUME IInv, [Next]_vars, NEW r \in Runs, worktree[r].exists, ~ worktree'[r].exists
      PROVE  Kept(r)
  <2>1. CASE RemoveWorktree(r)
    BY <1>1, <2>1, ChangedOrUntracked DEF RemoveWorktree, IInv, WorkKnown
  <2>2. CASE CleanupRemove(r) /\ cleanup.force
    BY <2>2 DEF CleanupRemove
  <2>3. CASE worktree[r].files = worktree[r].head
    BY <2>3 DEF Uncommitted
  <2> QED
    BY <1>1, <2>1, <2>2, <2>3, WhoDeletes DEF Removable
<1>2. IInv /\ [Next]_vars =>
        [\A r \in Runs : worktree[r].exists /\ ~ worktree'[r].exists => Kept(r)]_vars
  BY <1>1
<1> QED
  BY <1>2, Invariance, PTL DEF SafeSpec, OnlyUntrackedFilesAreLost

(* A listed worktree stays listed while it exists (cli.py:197-200): the marker
   that is unlinked is that of a worktree that has gone, and the run it belonged
   to cannot add it again. *)
THEOREM MarkersStay == SafeSpec => ListedUntilRemoved
<1>1. ASSUME IInv, [Next]_vars, NEW r \in markers, worktree'[r].exists
      PROVE  r \in markers'
  <2>0. r \in Runs
    BY <1>1 DEF IInv, TypeOK
  <2>1. CASE UNCHANGED vars \/ Developer \/ CleanupDies
    BY <1>1, <2>1 DEF vars, Developer, Edit, Track, Commit, Move, CleanupDies
  <2>2. CASE Scan
    BY <1>1, <2>2 DEF Scan, ReadMarkers, ListWorktrees, MarkAbandoned, Choose, OnlyCleanup
  <2>3. CASE UnlinkMarker
    BY <1>1, <2>0, <2>3 DEF UnlinkMarker, IInv, UnlinkKnown
  <2>4. CASE CleanupEnds \/ \E s \in Runs : CleanupRemove(s)
    BY <1>1, <2>4 DEF CleanupEnds, CleanupRemove, OnlyCleanup
  <2>5. CASE \E s \in Runs : RunStep(s)
    BY <1>1, <2>5, RunStepFrame DEF IInv
  <2> QED
    BY <1>1, <2>1, <2>2, <2>3, <2>4, <2>5 DEF Next, Remove, RunStep
<1>2. IInv /\ [Next]_vars =>
        [\A r \in markers : worktree'[r].exists => r \in markers']_vars
  BY <1>1
<1> QED
  BY <1>2, Invariance, PTL DEF SafeSpec, ListedUntilRemoved
-----------------------------------------------------------------------------
(* While HEAD stands still, the stash that is applied to the worktree is based
   on the commit checked out in it, and the baseline of the divergence check is
   what the agent was given. *)
SeedKnown(r) ==
  /\ At(r, "add") /\ run[r].stash.taken => run[r].stash.base = head
  /\ At(r, "apply") => /\ run[r].stash.taken
                       /\ run[r].stash.base = head
                       /\ worktree[r].exists => worktree[r].files = head
  /\ At(r, "snapshot") =>
       run[r].seed = IF run[r].stash.taken THEN run[r].stash.tree ELSE head
  /\ run[r].stage \in {"agent", "checks", "review", "merge"} => run[r].baseline = run[r].seed

SeedInv == \A r \in Runs : SeedKnown(r)

(* What is applied to a clean checkout of the commit it was made on gives the
   developer's tree again, without a conflict. *)
LEMMA StashReproduces ==
  ASSUME NEW s \in Stashes
  PROVE  Applied(s, s.base) = s.tree
BY DEF Stashes, Applied, Trees

(* A run's facts about its seed survive the steps of the others, which may remove
   its worktree but not change it. *)
LEMMA OtherSeeds ==
  ASSUME NEW r \in Runs, SeedKnown(r), run'[r] = run[r],
         worktree'[r] \in {worktree[r], NoWorktree},
         run[r].stage \in {"add", "apply", "snapshot"} => head' = head
  PROVE  SeedKnown(r)'
BY DEF SeedKnown, At, NoWorktree

(* The preparation gives the agent what the baseline says. *)
LEMMA PrepareSeed ==
  ASSUME TypeOK, NEW r \in Runs, Prepare(r), SeedKnown(r)
  PROVE  SeedKnown(r)' /\ head' = head
<1>0. run[r] \in RunStates /\ worktree[r] \in Worktrees /\ head \in Trees
  BY DEF TypeOK
<1>1. CASE Begin(r)
  BY <1>0, <1>1 DEF TypeOK, RunStates, Begin, GoTo, OnlyRun, repo, SeedKnown, At
<1>2. CASE StashCreate(r)
  <2>1. /\ run'[r].stage = "add"
        /\ run'[r].stash.taken => run'[r].stash.base = head
        /\ head' = head
    BY <1>0, <1>2 DEF TypeOK, RunStates, StashCreate, OnlyRun, repo, NoStash
  <2> QED
    BY <2>1 DEF SeedKnown, At
<1>3. CASE WorktreeAdd(r)
  <2>1. /\ run'[r].stash = run[r].stash /\ run'[r].seed = head
        /\ run'[r].stage = IF run[r].stash.taken THEN "apply" ELSE "snapshot"
        /\ worktree'[r] = Added
        /\ head' = head
    BY <1>0, <1>3 DEF TypeOK, RunStates, WorktreeAdd, repo
  <2> QED
    BY <1>3, <2>1 DEF SeedKnown, At, Added, WorktreeAdd
<1>4. CASE StashApply(r) /\ End(r, "error")
  BY <1>4, EndStep DEF StashApply, repo, SeedKnown, At
<1>5. CASE StashApply(r) /\ ~ End(r, "error")
  <2>1. /\ run[r].stash.taken /\ worktree[r].files = run[r].stash.base
        /\ run[r].stash \in Stashes
    BY <1>0, <1>5 DEF SeedKnown, StashApply, At, RunStates
  <2>2. /\ run'[r].stage = "snapshot" /\ run'[r].stash = run[r].stash
        /\ run'[r].seed = Applied(run[r].stash, worktree[r].files)
        /\ head' = head
    BY <1>0, <1>5 DEF TypeOK, RunStates, StashApply, repo
  <2> QED
    BY <2>1, <2>2, StashReproduces DEF SeedKnown, At
<1>6. CASE Snapshot(r)
  <2>1. /\ run'[r].stage = "agent" /\ run'[r].seed = run[r].seed
        /\ run'[r].baseline = IF run[r].stash.taken THEN run[r].stash.tree ELSE head
        /\ head' = head
    BY <1>0, <1>6 DEF TypeOK, RunStates, Snapshot, OnlyRun, repo
  <2> QED
    BY <1>6, <2>1 DEF SeedKnown, At, Snapshot
<1> QED
  BY <1>1, <1>2, <1>3, <1>4, <1>5, <1>6 DEF Prepare

(* After the preparation neither what the agent was given nor the baseline
   changes. *)
LEMMA LaterSeed ==
  ASSUME TypeOK, NEW r \in Runs, Agent(r) \/ Finish(r) \/ GoWrong(r), SeedKnown(r)
  PROVE  SeedKnown(r)' /\ head' = head
<1>1. head' = head
  BY DEF Agent, AgentEdits, AgentAdds, AgentCommits, AgentReturns, ChecksPass, AgentStep,
         Finish, Approve, Reject, Check, MergeReturns, WritePath, Write, RemoveWorktree,
         Save, GoWrong, Fail, Interrupt, TimesOut, Crash, OnlyRun, repo
<1>2. CASE Agent(r)
  <2>1. /\ run[r].stage \in {"agent", "checks"}
        /\ run'[r].stage \in {"agent", "checks", "review"}
        /\ run'[r].seed = run[r].seed /\ run'[r].baseline = run[r].baseline
    BY <1>2 DEF TypeOK, RunStates, Agent, AgentEdits, AgentAdds, AgentCommits, AgentReturns,
                ChecksPass, AgentStep, GoTo, OnlyRun, At
  <2> QED
    BY <1>1, <2>1 DEF SeedKnown, At
<1>3. CASE Approve(r)
  <2>1. /\ run[r].stage = "review" /\ run'[r].stage = "merge"
        /\ run'[r].seed = run[r].seed /\ run'[r].baseline = run[r].baseline
    BY <1>3 DEF TypeOK, RunStates, Approve, GoTo, At
  <2> QED
    BY <1>1, <2>1 DEF SeedKnown, At
<1>4. CASE Reject(r) \/ MergeReturns(r) \/ RemoveWorktree(r) \/ Save(r)
  <2>1. run'[r].stage \in {"remove", "save", "done"}
    BY <1>4, EndStep DEF TypeOK, RunStates, Reject, MergeReturns, RemoveWorktree, Save, NewRun
  <2> QED
    BY <1>1, <2>1 DEF SeedKnown, At
<1>5. CASE Check(r)
  <2>1. run'[r].stage \in {"write", "save"}
    BY <1>5, EndStep DEF TypeOK, RunStates, Check
  <2> QED
    BY <1>1, <2>1 DEF SeedKnown, At
<1>6. ASSUME NEW p \in Paths, WritePath(r, p) PROVE SeedKnown(r)'
  <2>1. run'[r].stage = "write"
    BY <1>6 DEF TypeOK, RunStates, WritePath, Write, At
  <2> QED
    BY <1>1, <2>1 DEF SeedKnown, At
<1>7. CASE GoWrong(r)
  <2>1. run'[r].stage \in {"save", "crashed"}
    BY <1>7, EndStep DEF TypeOK, GoWrong, Fail, Interrupt, TimesOut, Crash, NewRun
  <2> QED
    BY <1>1, <2>1 DEF SeedKnown, At
<1> QED
  BY <1>1, <1>2, <1>3, <1>4, <1>5, <1>6, <1>7 DEF Finish

(* The facts about the seeds are preserved as long as HEAD stands still. *)
LEMMA SeedStep ==
  ASSUME ~ CommitsDuringPreparation, TypeOK, SeedInv, [Next]_vars
  PROVE  SeedInv'
<1>1. CASE UNCHANGED vars
  BY <1>1, OtherSeeds DEF SeedInv, vars, repo
<1>2. CASE Developer
  BY <1>2, OtherSeeds DEF SeedInv, Developer, Edit, Track, Commit, Move, Prepares
<1>3. CASE Scan \/ Remove \/ CleanupDies
  <2>1. /\ run' = run /\ head' = head
        /\ \A r \in Runs : worktree'[r] \in {worktree[r], NoWorktree}
    BY <1>3 DEF TypeOK, Scan, Remove, CleanupDies, ReadMarkers, ListWorktrees, MarkAbandoned,
                Choose, CleanupRemove, UnlinkMarker, CleanupEnds, OnlyCleanup, repo
  <2> QED
    BY <2>1, OtherSeeds DEF SeedInv
<1>4. ASSUME NEW r \in Runs, RunStep(r) PROVE SeedInv'
  <2>1. SeedKnown(r)' /\ head' = head
    BY <1>4, PrepareSeed, LaterSeed DEF SeedInv, RunStep
  <2>2. ASSUME NEW s \in Runs \ {r} PROVE SeedKnown(s)'
    BY <1>4, <2>1, RunStepFrame, OtherSeeds DEF SeedInv
  <2> QED
    BY <2>1, <2>2 DEF SeedInv
<1> QED
  BY <1>1, <1>2, <1>3, <1>4 DEF Next, RunStep

(* While HEAD stands still during the preparation, no merge writes over an edit
   the agent has not seen, for any number of runs that merge into the same
   files while the developer works on (R21). *)
THEOREM MergesOverwriteNothing ==
  ASSUME ~ CommitsDuringPreparation
  PROVE  SafeSpec => ChecksWhatTheAgentSaw
<1>1. Init => SeedInv
  <2>1. ASSUME Init, NEW r \in Runs PROVE run[r].stage = "idle"
    BY <2>1 DEF Init, NewRun
  <2> QED
    BY <2>1 DEF SeedInv, SeedKnown, At
<1>2. TypeOK /\ SeedInv /\ [Next]_vars => SeedInv'
  BY SeedStep
<1>3. ASSUME TypeOK, SeedInv, [Next]_vars,
             NEW r \in Runs, At(r, "merge"), run'[r].stage = "write"
      PROVE  \A p \in Changed(r) : tree[p] = run[r].seed[p]
  <2>1. run[r].baseline = run[r].seed
    BY <1>3 DEF SeedInv, SeedKnown, At
  <2>2. RunStep(r)
    <3>1. run'[r] # run[r]
      BY <1>3 DEF At
    <3>2. run' # run
      BY <3>1
    <3>3. ~ (Developer \/ Scan \/ Remove \/ CleanupDies)
      BY <3>2 DEF Developer, Edit, Track, Commit, Move, Scan, Remove, CleanupDies,
                  ReadMarkers, ListWorktrees, MarkAbandoned, Choose, CleanupRemove,
                  UnlinkMarker, CleanupEnds, OnlyCleanup
    <3> QED
      BY <1>3, <3>1, <3>2, <3>3, RunStepFrame DEF Next, RunStep, vars
  <2>3. Check(r) /\ Diverged(r) = {}
    <3>1. ~ End(r, "diverged") /\ \A o : ~ End(r, o)
      BY <1>3, EndStep
    <3>2. ~ Prepare(r) /\ ~ Agent(r) /\ ~ GoWrong(r)
      BY <1>3, <3>1 DEF Prepare, Begin, StashCreate, WorktreeAdd, StashApply, Snapshot, Agent,
         AgentEdits, AgentAdds, AgentCommits, AgentReturns, ChecksPass, AgentStep, GoWrong,
         Fail, Interrupt, TimesOut, Crash, At, TypeOK, NewRun
    <3> QED
      BY <1>3, <2>2, <3>1, <3>2 DEF RunStep, Finish, Approve, Reject, Check, MergeReturns,
         WritePath, Write, RemoveWorktree, Save, At
  <2> QED
    BY <2>1, <2>3 DEF Diverged
<1>4. TypeOK /\ SeedInv /\ [Next]_vars =>
        [\A r \in Runs : At(r, "merge") /\ run'[r].stage = "write"
           => \A p \in Changed(r) : tree[p] = run[r].seed[p]]_vars
  BY <1>3
<1> QED
  BY <1>1, <1>2, <1>4, TypeCorrect, PTL DEF SafeSpec, ChecksWhatTheAgentSaw
=============================================================================
