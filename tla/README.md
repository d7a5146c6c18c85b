# Josu in TLA+

Josu runs a hosted coding agent in a git worktree of its own, hands bounded
work to local or remote "delegate" models through a daemon, and merges what the
agent did into the developer's working tree when the developer approves.
This directory models the parts of it where processes, requests and people
interleave, checks them with TLC, and proves what matters most with TLAPS.
Paths below are relative to `src/src/josu/`.

## The system

| Part | State it keeps | Operations | What is hard |
|---|---|---|---|
| Delegate queue and chain (`delegate/queue.py`, `chain.py`) | one `asyncio.Lock` for the whole daemon; per request the attempted names and `SkipRecord`s | `run_chain`, `execute_chain` | requests interleave at every await; two nested deadlines, a slow teardown and a cancellation race for one attempt |
| Failure memory (`delegate/cooldown.py`) | count and cooldown per (task type, candidate) | `record_failure`, `record_success`, `is_in_cooldown`, which resets on read | a check is used after an await; stale counts |
| Delegate worker (`local_model.py`, `client.py`, `models/curated.py`) | none | one call, one retry of a malformed answer, RAM preflight | which errors are translated and which escape |
| Delegate endpoints (`internal_api.py`, `server.py`, `daemon_client.py`) | none of their own | turn HTTP or MCP requests into `execute_chain` | callers that give up first |
| `josu run` (`orchestrator/run.py`) | the locals of `run_task`, a `RunRecord` | prepare, run the agent, review, merge or reject, remove, save | every git command can fail, hang or be killed |
| Worktrees (`orchestrator/worktree.py`) | git worktrees and branches on disk | create, diff, remove, find orphans | several git commands that are not atomic together |
| Merge (`orchestrator/merge.py`) | `RepoSnapshot` | snapshot, divergence check, write | other runs and the developer write to the same files |
| Circuit breaker (`circuit_breaker.py`) | a stopwatch | start, pause, resume, check | one budget for two calls; bounds preparation and agent, not the review |
| Adapter (`adapter.py`, `adapters/claude_code.py`, `mcp_manifest.py`) | none | one subprocess, checks of its output | what the tool allowlist leaves the agent free to do |
| Markers and cleanup (`fallback/quota.py`, `cli.py`) | one marker file per abandoned worktree | scan, mark, list, remove | runs while other runs are going on; may be killed half way |
| Run log (`observability/runlog.py`) | one JSON file per run | save, load, report | written in place |
| Graph routing (`graph/router.py`) | the connected primary, the last reason, the time of the last probe, the cached extractor | lazy re-probe, dispatch | probes in threads overlap, or their caller goes away; the server comes, goes and is replaced |
| Graph engines (`graph/*.py`) | a session with an external server | reach, version and tools checks; search, build, execute | a probe is three requests, not one |
| Proactive checks (`proactive/watchers.py`) | the handle of the pending timer; the post-commit hook file | debounced save, `install_commit_hook`, the hook's run | timer threads against saves; a file written in place; two processes that read different versions of one configuration |
| Daemon (`daemon.py`, `daemon_auth.py`) | the shared queue and failure memory, the registry of candidates, a token file | start, wiring | processes race for the token file and die on the way |
| Configuration (`config/`) | none | load, `resolve_chain` | the order and filtering of candidates; read at different times by different processes |

How they interact. The daemon builds one queue and one failure memory and
shares them among the MCP tool, the internal HTTP route and thus the commit
hook, so that all delegate requests of a machine meet at one lock. `josu run` is a process of its
own; several of them, the developer's editor and `josu cleanup` share nothing
but the repository on disk: its HEAD, index and working tree, the worktrees, the
markers and the run log. Nothing locks any of these.

What makes each part correct:

- the queue: one chain at a time, in order of arrival, and no request waits for
  ever behind a candidate that hangs;
- the chain: every candidate is tried in order or has a recorded reason why not,
  and each failure is counted once;
- the failure memory: no call during a cooldown, and every cooldown ends;
- `josu run`: nothing the developer did is written over unseen, and an aborted merge
  writes nothing;
- worktrees and cleanup: what is deleted with a worktree was committed, merged, rejected or
  given up (files that git does not track are the exception, see the observations),
  and no worktree that is left behind is forgotten;
- the breaker: the budget is one, however the run spends it, and nobody is stopped early;
- the run log and the markers: who looks after a run has ended finds it;
- graph routing: an engine once found is kept, one that comes late is found, and a
  caller is told the real reason when there is none;
- the token file: a daemon and those of its clients that have a token have the same one;
- proactive checks: no check ever reaches a remote candidate, none is started within
  the quiet window, none is forgotten, and a hook that is reported as installed runs;
- configuration: a paid candidate is contacted only as the developer allowed.

`PROJECT.json` lists the same parts with their status, the hazards with the line
where each bites, and for every definition the lines it stands for.

## The modules

| Module | Models |
|---|---|
| `SerialQueue` | abstract: what the delegate queue promises its callers |
| `ChainWalk` | abstract: how a request in a daemon goes down its chain |
| `DelegateChain` | `queue.py`, `chain.py`, `cooldown.py` and the failures of `local_model.py` and `client.py` |
| `MCDelegateChain` | instances of it for TLC |
| `DelegateChainProofs` | proofs about it |
| `JosuRun` | `run.py`, `worktree.py`, `merge.py`, the scan and removal of `cli.py`, the markers of `quota.py` |
| `MCJosuRun` | instances of it for TLC |
| `JosuRunProofs` | proofs about it |
| `GraphRouting` | `graph/router.py`, the checks of `gortex_process.py` and `daemon.py`, the calls of `gortex.py` and `graphify.py` |
| `DaemonToken` | `daemon_auth.py` |
| `Daemon` | the composition of the two: `daemon.py`, and the clients the daemon accepts |
| `MCDaemon` | an instance of it for TLC |
| `DaemonTokenProofs`, `DaemonProofs` | proofs about the token file; about routing and the composition |
| `DelegationChains` | `config/chains.py`, `config/delegate.py` and the choice of local candidates, as operators |
| `SaveTimers`, `SaveWatcher` | `DebouncedSaveWatcher` of `proactive/watchers.py`, and the constants it shares with the module below |
| `CommitHook` | `install_commit_hook` and git's use of what it leaves |
| `ProactiveChecks` | the composition of the three with `ChainWalk` and the daemon's registry: `internal_api.py`, `server.py`, the hook's run, `daemon_client.py` |
| `MCProactiveChecks` | an instance of it for TLC |
| `SaveWatcherProofs`, `CommitHookProofs`, `ProactiveChecksProofs` | proofs about the two, and about the composition |
| `CircuitBreaker` | `circuit_breaker.py` |
| `MarkerScan` | `fallback/quota.py` and the scan and removal of `cli.py`, file by file |
| `BudgetedRun` | `run.py` by the clock, `runlog.py`, and the composition of the two |
| `MCBudgetedRun` | an instance of it for TLC |
| `BudgetedRunProofs` | proofs about the three |

Operators named in a comment as a mutant are plausible bugs: with the operator's
body in the place of the definition that follows it, the property it is paired with in
`PROJECT.json` is violated. No specification uses them.

### DelegateChain

A caller is a task of the daemon in `execute_chain`, again and again. `phase` says
where it stands: `queued` in `async with self._lock`, `trying` at the start of
`_attempt`, `calling` in `delegate()`, `closing` while a timed-out call is torn
down. `holder` and `waiters` are the lock, with the fairness and the withdrawal of
cancelled waiters of `asyncio.Lock`. `attempt` has the position in the chain
and what is left of the two deadlines; `attempted` and `skips` are the two lists
`ChainExhaustedError` carries; `health` is the store.

An action is what happens between two suspension points of a coroutine, or less:
`SkipCooling`, `SkipPreflight` and `Call` are the three ways through the first,
synchronous part of `_attempt`; `Succeed`, `Fail`, `Retry`, `MalformedAgain`,
`Drop`, `InnerDeadline`, `Closed`, `OuterDeadline` and `CancelCall` are all the
ways the await can end. Each contains the bookkeeping of its `except` clause
and `run_chain`'s reaction to it.

Abstracted: a task, a scope and an answer are not represented; a chain is a
sequence of names given with the request (`ChainsFor`), since `resolve_chain`
is a pure function of the configuration; the RAM preflight is a free choice for
each local candidate with a curated model, as RAM changes; time left
replaces expiry times.

### JosuRun

A commit, a stash or a working tree is a function from paths to contents, with
`Absent` for a missing file. `head`, `index` and `tree` are the developer's
repository, `worktree[r]` is the worktree of run `r`, `run[r]` the local state of its
`run_task`: `stage` is the next thing it does. `seed` is the one variable
the code does not have: what the agent found in its worktree, against which the
properties judge the code's `baseline` (the content at the `RepoSnapshot`).

An action is one git command or one written file, so that everything another
process can do between two of them is possible: `StashCreate`, `WorktreeAdd`,
`StashApply` (`create_worktree`), `Snapshot` (`snapshot_repo`), the agent's edits,
adds and commits, `ChecksPass` (the adapter's checks and the diff for review),
`Approve` or `Reject`, `Check` (`_changed_paths` and `find_diverged_paths`, in one step),
`WritePath` for each file, which is copied or, if `Check` found it deleted (`gone`), unlinked,
`RemoveWorktree`, `Save`. `Fail`, `Interrupt`, `TimesOut` and `Crash` can come at any stage at
which the code can raise, be interrupted, be stopped by the breaker or be killed.
`TimesOut` is confined to the subprocesses that have a timeout (`Bounded`): the git commands
of the preparation and the agent, not the git commands behind it (`claude_code.py:332`,
`worktree.py:197`), which may hang.

Git does not track every file: the developer's tree may have such files from the start,
the agent may create some, and neither a stash nor a diff shows them. A worktree with
one in it is dirty for `git worktree remove`.
Cleanup reads the markers, lists git's worktrees, marks what is missing, and
removes what the developer names, `git worktree remove` and the unlinking of the marker being
two steps; it can be killed between any two. `josu daemon start` is a scan that
stops at the list.

Abstracted: branches (they outlive their worktree and nothing reads them again),
the text of diffs and of the approval prompt, the MCP manifest, what the adapter
checks in the agent's output (all of it is a `Fail` or not), the events of the run record;
no file is ignored by git.
`Check` reads all files at once: a change between the reading of two files has the
effect of one between `Check` and `WritePath`, which the model has. A run is one
invocation and is not repeated; names of worktrees are unique per run as in the
code. One cleanup runs at a time.

### GraphRouting, DaemonToken, Daemon

`call[c]` is a tool call in the daemon. One that finds no `primary` may begin a probe,
`reach`, `version` and `surface` being the three requests of
`_resolve_graph_engine_target`, each of which meets the server as it then is
(`gortex` changes at any time), and `learn` the moment the answer comes back to the event
loop and is applied to `primary` and `reason`, whatever has happened since.
`sinceProbe` is the time since `_last_reprobe_at`, which is set before the probe begins.
A client that goes away drops the verdict of its probe (`Cancel`). The ghost `slow` records
that a probe has outlasted the interval: the code's rate limit is its only
protection against two probes at once, and that is where it ends.

`DaemonToken` is `load_or_create_daemon_token` system call by system call, in as many
processes as there are: `Look` (`path.exists`), `Create` (`O_EXCL`), `Write`, `Close`,
`Read`. A process may be killed between any two, and a failed or interrupted
write removes the file. Tokens are numbers, `Empty` being what a reader of a new
file gets. The ghosts `torn` and `undone` record two things the code does not exclude:
a writer killed before it wrote, and a token taken away after another process
could have read it (an interrupt in `close`). A third needs neither: who reads between
`Create` and `Write` has no token, and the daemon turns it away: `ClientsAreAccepted` is about
processes that have read a token.

`Daemon` extends the first and instantiates the second, with the daemon and its
clients as its processes: nothing is served before the token is there, and a client is
served when its token is the daemon's.

### DelegationChains, ChainWalk, SaveWatcher, CommitHook, ProactiveChecks

`DelegationChains` says what a `josu.toml` (`Toml`, of any length) means: which entries
survive loading, which registry results, what `resolve_chain` returns for a task type and
what `_local_only_execution_inputs` leaves. A comprehension of the code, which keeps some entries
of a list in their order, is `Kept`; `Pick` says that the k-th entry kept is the one with
k - 1 kept entries before it, so that no recursion is needed.

`ChainWalk` is a request in a daemon, seen from outside: it waits, is taken up when no other
one is, stands at one candidate after another and ends there or behind the last one.
`DelegateChain` implements it (in `DelegateChainProofs`). `ProactiveChecks` takes its
requests from it and adds who asks, and for what: the configuration file changes at any
time, the daemon has read one version (`loaded`), the commit hook reads another
(`committed.asked`), and the names it posts are looked up in the daemon's registry
(`Trusted`). `Move` is what the queue does by itself, `Reply` and `Cancel` also concern who
waits: the agent's MCP client may withdraw its request, the hook gives up
after its timeout and leaves its request behind.

`SaveWatcher` has one thread that reports saves and one thread per timer, with the
handle between them: `Save` cancels, `Schedule` starts the new timer, `Store`
remembers it; a timer goes from `waiting` through `due` (too late to cancel)
and `Clear` (`_fire`) to `firing`. `Save` tests the handle and calls it in one step, which is so
under CPython's global lock; without it `_fire` could forget the handle in between and
`on_save` raise, which is not modelled. `CommitHook` is `install_commit_hook` in several processes
on one file: exists, read, truncate, write, chmod.

Abstracted: the text of a hook is the developer's script and how often josu's block is
in it; a diff, a severity and a finding are not represented; a candidate is a name
with the flag that makes it local.

### CircuitBreaker, MarkerScan, BudgetedRun

`CircuitBreaker` is the stopwatch, with the clock counted from its making. `begun`,
`active` and `overlapped` are ghosts: what it should measure, and whether two
waits have overlapped, in which case `resume` starts it early. `pause` and `resume` are
the two ends of `excluded`; a bare `resume` of a breaker that runs, which would drop its
running segment (`circuit_breaker.py:110-114`), has no caller and is not modelled.

`BudgetedRun` is `run_task` by the clock: each subprocess gets a `limit` and begins at
`since`. The four git commands of the preparation share the limit that was left when
the preparation began; the agent gets what is left before the manifest and `josu.toml` are
read once more (`load`, `claude_code.py:505-513`), and begins after it. Work on files has no timeout
and takes `FileTime` at most. `Stop` is the `except
CircuitBreakerTimeoutError` block, `Fail` the other one. `OpenRecord` and `WriteRecord` are the
two halves of `save_run`, `LogBegins` and `LogReads` are `josu log`.

`MarkerScan` is the scan of `josu cleanup` and `josu daemon start`, now in several processes
and with markers as the files they are: listed first (`Begin`), read one after another
(`Read`, which fails on half a file and on one that has gone), truncated and written
(`Truncate`, `Write`). The ghosts are `owed`, what git listed, `alone`, and `cut`, that a
process was killed over a half-written marker.

## The runs

| Run | Instance | Shows |
|---|---|---|
| `delegate_chain` | two callers, two candidates, two task types, chains of one, two and twice the same candidate; threshold 2, cooldown 2 | safety of the whole delegate path |
| `delegate_chain_live` | two callers, one task type and chain | every request and every cooldown ends; the path implements `SerialQueue` |
| `chain_escape` | as the first | violated: `execute_chain` ends as its docstring says |
| `chain_cancel` | as the first | violated: only failures that advance the chain are counted |
| `josu_run` | two runs, one file, tracked or not, one move of the developer, cleanup; symmetric | a merge writes over nothing unseen, deletion loses only what git does not track and a merge did not write, the list is kept; 2.4 million states |
| `josu_run_live` | one run, two files, one move | aborts are clean, leftovers are found |
| `run_commit` | one run, HEAD may move during the preparation | violated: the divergence check covers every edit |
| `run_committed` | one run | violated: merged work is written |
| `run_listed` | one run | violated: a finished run is not on the list |
| `daemon` | two calls, one client, interval 1, three tokens | routing keeps what it finds and finds what is there; whoever has a token has the daemon's, and only a kill leaves the file empty |
| `proactive` | three configurations that disagree, two requests, two installers, three timers with a window of 2 | what a check may reach and when it starts; the hook is installed or known not to be |
| `budget` | timeout 3, two waiters, two worktrees, two scanners, one kill | the budget, the breaker, the record and the scans |

Why the bounds are enough. In the delegate path two callers make every
race there is, since the lock admits one at a time and the others only wait
(their order needs two waiters, which the abstract module and the proof cover for
any number); a chain of two has a first, a last and an advance between them; a
threshold of 2 tells a first failure from the one that starts the cooldown, and a
cooldown of 2 ticks lets a check fall inside it and after it. A timeout of 1 with
a margin of 1 separates the two deadlines. Timers count down and stop at 0, so no
bound on time is needed. In `JosuRun` two contents tell an edit from its absence and, with
`Absent`, a deletion; two runs and one file are enough for a run to merge
into another's file, and two files with one run for a merge that has
written a part of its work. That a file may lie in the tree untracked, or be created there by
the agent, comes with the first state and needs no bound. `MaxMoves` bounds the developer's edits and the kills
of cleanup together: one is enough for each single intervention at each point,
and the theorems below hold for any number. Unbounded by it are the agent's
edits and the scans.

In `daemon` two calls make every overlap of two probes, and an interval of 1 tells a
young probe from one that outlasts it; a token each for the daemon, the client and the
file is what can be in use at once (`MaxTokens`), a fourth would be a
renaming. In `proactive` one configuration has a paid candidate first, in a chain that means
it and in one that does not; the second swaps which name is local, has a
malformed and a repeated entry and allows nothing remote; the third keeps a task hosted; no
file and an unreadable one come with them. Three timers are one that fires, one that is
replaced and one that replaces; a window of 2 has an inside. In `budget` a timeout of 3
leaves the agent all, a part or nothing of it after a preparation of 0 to 4 timeouts, and a
`FileTime` of 1 makes its end fall before or behind the end of the budget;
two waiters overlap or do not, and two scanners and two worktrees make every race for a marker there is.

Some of these instances look at fewer interleavings than `Next` has, by a condition in the MC
module (`MCNext`), and say there why that is enough: in `josu_run` and `josu_run_live` the others
rest around steps of a run or a cleanup that nobody else can see; in `proactive` the daemon, the installers and the
watcher share no variable but the hook that a commit runs, so each is looked at while the
others rest; in `budget` scans and `josu log` see of the run only
whether its worktree is listed and its record, so the clock rests while
they are under way. The proofs are about the full `Next`.

`CommitsDuringPreparation = FALSE` keeps HEAD where it is between `git stash
create` and `git rev-parse HEAD` of the same run. It is an assumption about the
developer that the code makes (`snapshot_repo`'s docstring: "before anything else
touches `repo_root`") and does not enforce; `run_commit` shows what happens without it, and only
`ChecksWhatTheAgentSaw` depends on it. The other moves are not restricted.

### What the violated properties say

- **`chain_escape`** (`client.py:161`): a connection that breaks while the answer is
  read raises an error that no `except` clause translates; the chain ends with candidates left.
- **`chain_cancel`** (`chain.py:266`): the cancellation of the requesting
  task is recorded as a failure of the candidate.
- **`run_commit`** (`merge.py:152`): with a clean tree, a commit between
  `git worktree add` and `git rev-parse HEAD` becomes the baseline and is written over.
- **`run_committed`** (`worktree.py:197`): when the agent commits, the diff against
  HEAD is empty and the run is "merged" with nothing written; the commit stays on
  the branch only.
- **`run_listed`** (`cli.py:72`): the scan marks the worktree of a run that is going on; the marker
  outlives it and `--remove` can never clear it.

The findings in `PROJECT.json` quote the sentences these properties are taken from.

### Fairness

`DelegateChain`: time passes (`Tick`), the event loop resumes a task that is ready
(`Acquire`, `TryCandidate`) and fires expired timers (`InnerDeadline`,
`OuterDeadline`). That is what asyncio does. Nothing is assumed about a candidate:
it may never answer and its teardown may never end; that every request ends
nevertheless is the point of the outer deadline.

`JosuRun`: the developer runs `josu cleanup` again and again (`Scan`, `Remove`), as `cleanup`
is the only thing that looks for leftovers; `LeftoversAreListed` needs no more than that. No
timeout is assumed to fire, and any git command, the agent and the developer's verdict may take for ever.

`Daemon`: time passes, and the event loop and the threads run (`Tick`, `BootCheck`, `Step`),
as each request to the server has a timeout. `EngineFound` states what else it needs as
its premise: the server stays, calls keep asking, and those that probe do not for ever go
away. `SaveWatcher`: threads run and time passes; nothing is assumed about saves.
`BudgetedRun`: only that somebody scans again and again.

## The proofs

`tlapm` checks every step of the eight proof modules. They hold for all values
of the constants that satisfy the named assumptions: any callers, candidates,
chains, time budgets, threshold and cooldown at least 1; any runs, paths, contents and
number of moves; any calls, processes, timers, installers, waiters, worktrees and
scanners, any interval, quiet window and timeout of at least 1.

`DelegateChainProofs`. `Inv` is `TypeOK`, `Serialized` and that a request past
submission has a non-empty chain, which is what makes `attempt.pos` a position of
the chain. `Serialized` is inductive because it says all there is to say about
lock, line and phases together: who works holds the lock, who is queued is in the
line exactly once. On top of it `CoolInv` (`CountWithinThreshold` and
`NoCallDuringCooldown`) is inductive only relative to `Inv`: the check before a call and the
failure after it belong to the same holder of the lock, so that no other failure comes between.

- `TypeCorrect`, `OneChainAtATime`, `LockSpansTheChain`,
  `CountsStayWithinThreshold`, `CooldownsAreRespected`;
- `ChainImplementsSerialQueue`: with the lock's holder as `serving`, its waiters as
  `queue` and `answer` as `outcome`, every step is a step of `SerialQueue` or a stutter;
- `NobodySkippedSilently`: the invariant `AccountInv` says that what was tried is a prefix of
  the chain, the records those of a prefix of it, and how long both are at each phase;
- `OneFailurePerCall`, `OthersLeaveTheCountAlone`: of the actions only those of the holder of the
  lock touch the failure memory, only in its own bucket, and only as a call ends.

`JosuRunProofs`. `IInv` strengthens `TypeOK` by what a run knows about itself: it
has no worktree before it adds one, its outcome is "error" and it has written
nothing until it has decided, what it changed is in `todo` or `written` while it
writes, so that behind a merge only files that git does not track are unwritten, and a marker about to be unlinked belongs to a worktree that has gone and
whose run is past adding it again. `SeedInv` follows the content the agent was given from the
stash through the checkout and the applied stash to the baseline: what is
applied to a checkout of the commit it was made on gives the developer's tree
(`StashReproduces`), and that it was that commit is where HEAD must not move.

- `TypeCorrect`, `AbortsAreClean`, `MarkersStay`; `WorkSurvives`, which says of every file in a
  deleted worktree, tracked or not, why it could go;
- `MergesOverwriteNothing`: assuming `~ CommitsDuringPreparation`.

`DaemonProofs`, of routing. `CauseIsReal` needs that a probe's verdict is a reason or "found" and
that "unconfigured" is one only without a target; `ProbesAreRateLimited` is inductive with
the clock: a probe is no younger than `sinceProbe`, and two probes that are both
younger than the interval would have been begun within one. `EngineIsKept` follows: as
long as no probe is `slow`, a call that comes back with a failure began its probe when there
was no engine, and no other probe can have found one since.

`DaemonTokenProofs`. The invariant follows the file: who creates it is its only writer, its
content is empty until then and that writer's token afterwards; `TokensAgree`,
`TokenTyped`. `DaemonProofs` shows that the composition implements both parts
(`DaemonIsRouting`, `DaemonIsToken`), so that what is proved of each carries over
(`DaemonTyped` among it), and adds that a started daemon holds its token:
`ClientsAccepted`, `EmptyOnlyAfterAKill`.

`SaveWatcherProofs`. `WatcherWaits`: unless `raced`, the only outstanding timer is the one the
handle or the saver knows, and it waits for as long as the window has still to run.
`CommitHookProofs`. `PromiseIsKept`, `ScriptSurvives`: every text under way in a process is one
that josu may write over what is there, and no process reads a half-written file as a script to
chain to.

`BudgetedRunProofs`. `BreakerIsExact`: what has been counted and the running segment are the
`active` time. For `BudgetIsKept` and `NoEarlyStop` the invariant says when each
step of the preparation begins at the latest, and that the agent's `since + limit` is
`begun + Timeout` when its limit is read, and at most `FileTime` more when it begins: nobody
waits during the preparation, so the breaker has counted all of it.
For `ScansTellTheTruth` it follows what git listed through a scan: it is found, still to be marked,
or marked, and is then read; and nobody takes a marker of a worktree that is still there,
as removal takes the worktree first. `EndedRunIsLogged`, `BudgetedRunIsTyped`.

`ProactiveChecksProofs`. The first part is about sequences: the ranks of a finite set
of positions are 0 to n - 1 without a gap (`RanksAreDense`, by a bijection and the
library's facts on cardinality, without induction), so that `Pick` is well defined, keeps
exactly what stands at the positions, and keeps its order (`Within`). From it follows
what the operators of `DelegationChains` return for every document: the registry has the last
entry of a name, the first chain of a task counts, what is not registered or not
permitted is left out and nothing else is (`ResolveProperties`), the local ones come first
unless the order is explicit (`LocalsComeFirst`), nobody is moved otherwise (`DefaultIsStable`,
`WrittenOrderIsKept`), and the proactive chain is local (`LocalOnlyIsLocal`,
`TrustedIsLocal`). The second part is the inductive invariant `DelegateInv`. The properties speak of the candidate a request stands at, and say nothing
of where its chain came from, perhaps long ago and from two versions of the file; `Fits` does: the
chain of a request is what the loaded configuration makes of the task, or of the names of the
configuration its sender had read, its position is inside it, and there is no request without a daemon.
A file that is edited changes nothing of this, and a daemon that is stopped takes its requests with it.

- `ChecksStayLocal`, `PaidComesLast`, `ExhaustedMeansAll`, `ProactiveTyped`;
- `ServedAsWritten`: with `explicit_order`, and for the check of a commit, the chain is the written
  one with some names left out; without it the local ones and the others are, each among themselves (`Stable`);
- `ProactiveImplementsChainWalk`;
- `HookPromiseIsKept`, `HookScriptIsKept`, `ChecksWaitForQuiet`: every step of the composition
  is one of the installers' and one of the watcher's, or leaves them alone, so that the
  invariants of the other two modules hold in it.

`ChainImplementsChainWalk` (`DelegateChainProofs`). A queued caller maps to a waiting request,
one past the lock to one that is served at `attempt.pos`, and one that was told "exhausted" to a request
behind its last candidate; the clock, the retry, the inner deadline and the begin of a
call are stutters. That a request is taken up only when no other one is served is `Serialized`.
So `ProactiveChecks`, whose requests are `ChainWalk`'s, leaves out of `DelegateChain` only
the order of arrival and why a candidate is left: no lock, deadline or retry can make a
request reach a candidate out of turn or one that is not of its chain.

The assumptions on constants: the documents are those of `Toml`, with a file that is missing
and one that cannot be read; "no daemon" is not a document; sets of requests, timers,
installers and names are arbitrary.

Only model-checked, as the prover does not handle fairness: `EveryRequestEnds`,
`EveryCooldownEnds`, the liveness part of `ImplementsSerialQueue`, `LeftoversAreListed`, `EngineFound`, `EverySaveIsChecked`, `StoppedRunIsSurfaced`. Every
invariant and every action property of a passing run has its theorem. `WrittenOrder` and
the two refinements of `ChainWalk` are the other way round: proved, and not part of a run.

## Not modelled

HTTP, MCP and JSON encodings, prompts, the parsing of answers, the command line
of the adapter and the checks of its output, reports and their wording, TOML parsing and
validation, the severity classifier of the checks, the graph engines' translation of requests, the
extraction of documents: sequential code whose results the models take as given
or as success or failure. The quota classifier, `handle_invocation_failure`,
`route_bounded_request` and `run_proactive_check` have no caller in the
program; the last one is modelled as what a watcher's `on_fire` is meant to call, and
`pause`, `resume` and `excluded` as the tests use them.

## Other observations

Met while modelling, without a run of their own.

- An engine once found is lost when a probe that began before it, and took more than 30
  seconds, comes back with a failure (`router.py:136`); `EngineKept` excepts it.
- On a machine that has just booted the first probe waits too: `_last_reprobe_at` is 0.0 on a
  clock that counts from the boot.
- An interrupt in the `close` of the token file removes a token another process may have read
  (`daemon_auth.py:82`); a kill before the write leaves an empty token for good, and every process
  then starts without one.
- A file the agent creates and does not `git add` is in neither the diff for review
  (`worktree.py:197`) nor the merge (`merge.py:169`), and `remove_worktree(force=True)` deletes it
  with the worktree of a run recorded as merged (`run.py:367`); `OnlyUntrackedFilesAreLost` says
  that nothing else is lost.
- The git commands between the agent's return and the review have no timeout
  (`claude_code.py:332`, `worktree.py:197`): one that hangs holds up the unattended run for ever,
  whatever its wall-clock budget. In `JosuRun` and `BudgetedRun` that is the stage `checks`.
- A process that looks at the token file between its creation and its filling reads an empty
  token (`daemon_auth.py:70-81`) and keeps it: as a client it is refused as long as it lives, and
  a daemon refuses everybody else. It takes no kill and no failure.
- A timer that fires late forgets the handle of the one that replaced it, and the next save
  cannot cancel that one (`watchers.py:389`): later checks start inside the quiet window;
  `FiresAfterQuiet` excepts it until all is quiet again. Pending
  timers are daemon threads and end with the process.
- A kill between the write and the chmod of the commit hook leaves one that git ignores and the
  next `josu init` reports as installed; a kill in the write loses the developer's script.
  `josu init` also makes a hook executable that the developer had disabled.
- A proactive check ignores `stays_hosted` of its own chain (`chains.py:226-246`). A malformed
  `allow_remote` fails the whole load, where a malformed entry is only dropped. An
  `allow_remote` that is revoked on disk is not seen before the daemon restarts.
- The preparation may take up to four budgets, as each git command gets the
  whole of it (`worktree.py:146-153` says so); the agent is then started with nothing left and killed at
  once, or not started.
- The agent's timeout is fixed when it starts, so that waits excluded from the budget would not
  prolong it; overlapping waits resume the breaker early.
- A marker left half-written makes every later `josu cleanup` and `josu daemon start` fail
  until it is deleted by hand, and two scans at once can make one of them fail (`quota.py:300`). A
  torn run record makes `josu log` fail until there is a newer one.

## Plan

What would come next: the events of the run record as the refinement of a log; the steps
behind the liveness properties (what decreases, and that a step that is ready stays so) as
theorems, with the fairness itself left to TLC.
