--------------------------- MODULE ProactiveChecks ---------------------------
(***************************************************************************)
(* What triggers a delegation and which candidates it reaches              *)
(* (proactive/watchers.py, delegate/internal_api.py, delegate/server.py).  *)
(* josu.toml may be edited at any time; the daemon reads it once, when it  *)
(* starts, and the commit hook on every commit.  So the hook chooses the   *)
(* local candidates by one version of the file, the daemon looks their     *)
(* names up in another.  A hook that stops waiting leaves its request      *)
(* behind in the daemon.                                                   *)
(*                                                                         *)
(* CommitHook decides whether a commit runs the hook, SaveWatcher when a   *)
(* check for a save starts; that check runs in the process of the watcher. *)
(* What becomes of a request is ChainWalk's; how a candidate is called,    *)
(* and why it fails, is DelegateChain's, which implements that.            *)
(***************************************************************************)
EXTENDS DelegationChains, SaveTimers

CONSTANTS
  Documents,    \* the versions of josu.toml, Missing and Invalid among them
  Invalid,      \* it is not TOML
  TaskTypes,    \* the task types a developer or an agent may ask for
  Off,          \* no daemon runs
  Requests,     \* requests the daemon may hold at once
  Installers    \* processes of `josu init`

ASSUME DocumentsAssumption ==
  /\ {Missing, Invalid} \subseteq Documents
  /\ Missing # Invalid
  /\ Documents \ {Missing, Invalid} \subseteq Toml
ASSUME OffAssumption == Off \notin Toml

VARIABLES
  disk,         \* josu.toml
  loaded,       \* the configuration the daemon loaded when it started, or Off
  committed,    \* the post-commit process
  request,      \* the requests in the daemon
  file, exec, install, promised, original, cut,             \* of CommitHook
  timer, handle, saver, sinceSave, unchecked, raced,        \* of SaveWatcher
  check         \* the configuration with which each timer's check runs

delegateVars == <<disk, loaded, committed, request>>
hookVars == <<file, exec, install, promised, original, cut>>
saveVars == <<timer, handle, saver, sinceSave, unchecked, raced, check>>
vars == <<delegateVars, hookVars, saveVars>>

Hook == INSTANCE CommitHook
Saves == INSTANCE SaveWatcher

Configs == {Load(d) : d \in Documents \ {Invalid}}
AllTasks == TaskTypes \cup {ProactiveCheck}

(* A request of the hook has no task type of its own; asked is the         *)
(* configuration by which its sender chose the names.                      *)
Free == [at |-> "free", task |-> ProactiveCheck, chain |-> <<>>, pos |-> 0,
         asked |-> EmptyConfig]
NoCommit == [at |-> "off", asked |-> EmptyConfig, slot |-> 0]

Commits == [at : {"off", "read", "waiting"}, asked : Configs, slot : Requests \cup {0}]
RequestType ==
  [at : {"free", "queued", "calling", "exhausted"}, task : AllTasks,
   chain : Seq(CandidateNames), pos : Nat, asked : Configs \cup {Off}]
OfCommit(r) == request[r].asked # Off

Queue == INSTANCE ChainWalk WITH
  Incoming <- [at : {"queued"}, task : AllTasks, chain : Seq(CandidateNames), pos : {0},
               asked : Configs \cup {Off}]

TypeOK ==
  /\ disk \in Documents
  /\ loaded \in Configs \cup {Off}
  /\ committed \in Commits
  /\ request \in [Requests -> RequestType]
  /\ \A r \in Requests :
       /\ request[r].pos \in 0..Len(request[r].chain)
       /\ request[r].at # "free" => loaded # Off
  /\ Hook!TypeOK
  /\ Saves!TypeOK
  /\ check \in [Timers -> Configs]

Init ==
  /\ disk \in Documents
  /\ loaded = Off
  /\ committed = NoCommit
  /\ request = [r \in Requests |-> Free]
  /\ Hook!Init
  /\ Saves!Init
  /\ check = [t \in Timers |-> EmptyConfig]

(***************************************************************************)
(* The file and the daemon                                                 *)
(***************************************************************************)
Edit ==
  /\ disk' \in Documents \ {disk}
  /\ UNCHANGED <<loaded, committed, request>>

(* create_app: an unreadable file stops the daemon from starting. *)
StartDaemon ==
  /\ loaded = Off
  /\ disk # Invalid
  /\ loaded' = Load(disk)
  /\ UNCHANGED <<disk, committed, request>>

(* The requests end with the process, and the hook's connection too. *)
StopDaemon ==
  /\ loaded # Off
  /\ loaded' = Off
  /\ Queue!AllEnd
  /\ committed' = IF committed.at = "waiting" THEN NoCommit ELSE committed
  /\ UNCHANGED disk

(***************************************************************************)
(* The commit hook                                                         *)
(***************************************************************************)

(* It reads the file; with no local candidate it ends without a request. *)
Commit ==
  /\ Hook!Runs
  /\ committed.at = "off"
  /\ disk # Invalid
  /\ LocalOnly(Load(disk)) # <<>>
  /\ committed' = [NoCommit EXCEPT !.at = "read", !.asked = Load(disk)]
  /\ UNCHANGED <<disk, loaded, request>>

Waiting(r) == committed.at = "waiting" /\ committed.slot = r

Accept(r, chain) ==
  /\ request[r] = Free
  /\ Queue!Accept(r, [at |-> "queued", task |-> ProactiveCheck, chain |-> chain, pos |-> 0,
                      asked |-> committed.asked])
  /\ committed' = [committed EXCEPT !.at = "waiting", !.slot = r]

(* The names it posts are looked up in the daemon's own registry. *)
Post ==
  /\ committed.at = "read"
  /\ LET chain == IF loaded = Off THEN <<>>
                  ELSE Trusted(LocalOnly(committed.asked), loaded)
     IN  \/ chain = <<>> /\ committed' = NoCommit /\ UNCHANGED request
         \/ chain # <<>> /\ \E r \in Requests : Accept(r, chain)
  /\ UNCHANGED <<disk, loaded>>

(* _COMMIT_HOOK_HTTP_TIMEOUT_SECONDS: the daemon is not told. *)
GiveUp ==
  /\ committed.at = "waiting"
  /\ committed' = NoCommit
  /\ UNCHANGED <<disk, loaded, request>>

(***************************************************************************)
(* Requests with a task type: `josu delegate`, and the agent's MCP tool    *)
(***************************************************************************)
Delegate(r) ==
  /\ loaded # Off
  /\ request[r] = Free
  /\ \E t \in AllTasks :
       Queue!Accept(r, [at |-> "queued", task |-> t, chain |-> ResolveChain(loaded, t), pos |-> 0,
                        asked |-> Off])
  /\ UNCHANGED <<disk, loaded, committed>>

(* The agent's MCP client cancels its call; the other callers do not. *)
Cancel(r) ==
  /\ ~ OfCommit(r)
  /\ Queue!Withdraw(r)
  /\ UNCHANGED <<disk, loaded, committed>>

(***************************************************************************)
(* The daemon's one queue, as ChainWalk has it                             *)
(***************************************************************************)
Move ==
  /\ \E r \in Requests : Queue!Take(r) \/ Queue!Advance(r)
  /\ UNCHANGED <<disk, loaded, committed>>

Reply(r) ==
  /\ Queue!Reply(r)
  /\ committed' = IF Waiting(r) THEN NoCommit ELSE committed
  /\ UNCHANGED <<disk, loaded>>

(***************************************************************************)
(* The checks for saves                                                    *)
(***************************************************************************)

(* on_fire: run_proactive_check with the configuration its caller holds, *)
(* of whatever age.                                                       *)
CheckStarts(t) ==
  /\ Saves!Clear(t)
  /\ \E config \in Configs : check' = [check EXCEPT ![t] = config]

SaveStep ==
  \/ /\ \/ Saves!OnSave \/ Saves!Tick
        \/ \E t \in Timers : Saves!Elapse(t)
     /\ UNCHANGED check
  \/ \E t \in Timers : CheckStarts(t)
  \/ \E t \in Timers : Saves!CheckEnds(t) /\ check' = [check EXCEPT ![t] = EmptyConfig]

(***************************************************************************)
(* The specification                                                       *)
(***************************************************************************)
DelegateStep ==
  \/ Edit \/ StartDaemon \/ StopDaemon \/ Commit \/ Post \/ GiveUp \/ Move
  \/ \E r \in Requests : Delegate(r) \/ Cancel(r) \/ Reply(r)

Next ==
  \/ DelegateStep /\ UNCHANGED <<hookVars, saveVars>>
  \/ Hook!Next /\ UNCHANGED <<delegateVars, saveVars>>
  \/ SaveStep /\ UNCHANGED <<delegateVars, hookVars>>

Spec == Init /\ [][Next]_vars /\ Saves!Fairness

(***************************************************************************)
(* Properties                                                              *)
(***************************************************************************)

(* The last entry of a name says whether the candidate runs on this machine. *)
IsLocal(config, n) ==
  \E i \in DOMAIN config.candidates :
    /\ config.candidates[i] = [name |-> n, local |-> TRUE, valid |-> TRUE]
    /\ \A j \in DOMAIN config.candidates : config.candidates[j].name = n => j <= i

Contacted(r) == request[r].chain[request[r].pos]
Tried(r) == {request[r].chain[i] : i \in 1..request[r].pos}

(* No check that a commit or a save starts contacts a candidate that is    *)
(* not local: neither by the file the hook read, nor by the file the       *)
(* daemon loaded, whatever has been edited in between.                     *)
ProactiveStaysLocal ==
  /\ \A r \in Requests :
       request[r].at = "calling" /\ OfCommit(r) =>
         IsLocal(request[r].asked, Contacted(r)) /\ IsLocal(loaded, Contacted(r))
  /\ \A t \in Timers : Saves!Firing(t) =>
       \A n \in ToSet(LocalOnly(check[t])) : IsLocal(check[t], n)

(* The chain the developer wrote for the task of a request: the first one. *)
Written(r) == loaded.chains[CHOOSE i \in DOMAIN loaded.chains :
                              /\ loaded.chains[i].task = request[r].task
                              /\ \A j \in 1..(i - 1) : loaded.chains[j].task # request[r].task]

(* A paid candidate is contacted only if the configuration the daemon      *)
(* loaded allows it, for a task that does not stay hosted, and, unless the *)
(* developer ordered the chain, after every free one has been tried.       *)
PaidOnlyAsAllowed ==
  \A r \in Requests :
    request[r].at = "calling" /\ ~ OfCommit(r) /\ ~ IsLocal(loaded, Contacted(r)) =>
      /\ loaded.remote
      /\ ~ Written(r).hosted
      /\ Written(r).explicit
         \/ \A n \in ToSet(Written(r).names) : IsLocal(loaded, n) => n \in Tried(r)

(* A request is answered "exhausted" only when every candidate it may      *)
(* reach has been tried.                                                   *)
NobodyForgotten ==
  \A r \in Requests : request[r].at = "exhausted" =>
    IF OfCommit(r)
    THEN \A n \in ToSet(LocalOnly(request[r].asked)) : IsLocal(loaded, n) => n \in Tried(r)
    ELSE \A n \in ToSet(Written(r).names) \cap Names(loaded) :
           IsLocal(loaded, n) \/ loaded.remote => n \in Tried(r)

(* What `josu init` promises (CommitHook): an installed hook runs, ... *)
InstalledHookRuns == Hook!InstalledHookRuns

(* ... and the developer's own script is not lost. *)
ScriptIsKept == Hook!ScriptIsKept

(* What the watcher promises (SaveWatcher): no check before the saves are *)
(* quiet, ...                                                             *)
FiresAfterQuiet == Saves!FiresAfterQuiet

(* ... and none forgotten. *)
EverySaveIsChecked == Saves!EverySaveIsChecked
=============================================================================
