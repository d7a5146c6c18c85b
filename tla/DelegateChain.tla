--------------------------- MODULE DelegateChain ---------------------------
(***************************************************************************)
(* The daemon's delegate path: concurrent requests that each try a         *)
(* fallback chain of candidates, one chain at a time behind one asyncio    *)
(* lock (delegate/queue.py), with two nested deadlines around every        *)
(* candidate (delegate/chain.py), one same-candidate retry of a malformed  *)
(* answer (delegate/local_model.py), and a failure memory that skips an    *)
(* unhealthy candidate for a while (delegate/cooldown.py).                 *)
(*                                                                         *)
(* An action is a stretch of a coroutine between two points where it may   *)
(* be suspended, or less.  Timers hold the time that is left instead of    *)
(* the time at which they expire, so that Tick needs no bound: a           *)
(* cooldown_expiry is reached when its time left is 0.                     *)
(***************************************************************************)
EXTENDS Integers, Sequences

CONSTANTS
  Callers,       \* tasks of the daemon that run execute_chain, each again and again
  NoCaller,      \* the lock is free
  TaskTypes,     \* task types, the internal API's pre-resolved key among them
  Candidates,    \* names in the candidate registry
  Curated,       \* local candidates whose model has a RAM requirement
  ChainsFor,     \* the chains a request for a task type may resolve to
  Timeouts,      \* the time budgets a request may give a candidate
  Margin,        \* _OUTER_TIMEOUT_SAFETY_MARGIN_SECONDS
  Threshold,     \* failure_threshold
  Cooldown       \* cooldown_seconds

ASSUME CallersAssumption == NoCaller \notin Callers
ASSUME ChainsAssumption ==
  /\ TaskTypes # {}
  /\ Curated \subseteq Candidates
  /\ \A t \in TaskTypes : ChainsFor[t] \subseteq Seq(Candidates)
ASSUME TimesAssumption ==
  /\ Timeouts \subseteq Nat \ {0}
  /\ Margin \in Nat
  /\ Threshold \in Nat \ {0}
  /\ Cooldown \in Nat \ {0}

VARIABLES
  holder,      \* who holds DelegateQueue._lock
  waiters,     \* who waits for it, in the order asyncio.Lock wakes them
  phase,       \* where each caller's execute_chain stands
  answer,      \* how each caller's last execute_chain ended
  job,         \* what each caller asked for
  attempt,     \* the candidate being tried and its two deadlines
  attempted,   \* execute_chain's list of the candidates it started on
  skips,       \* execute_chain's list of SkipRecords
  health       \* CandidateCooldownStore._health

lockVars == <<holder, waiters>>
callVars == <<phase, answer, job, attempt, attempted, skips>>
vars == <<lockVars, callVars, health>>

(***************************************************************************)
(* The failure memory.  A pair absent from the store and one with a fresh  *)
(* record behave alike and are one value here.                             *)
(***************************************************************************)
NoExpiry == -1
Buckets == TaskTypes \X Candidates
Health == [fails : Nat, left : Nat \cup {NoExpiry}]

Healthy == [fails |-> 0, left |-> NoExpiry]
InCooldown(h) == h.left > 0

(* Mutant: is_in_cooldown without its reset-on-read. *)
KeepStale(h) == h

(* is_in_cooldown deletes the record of a cooldown it finds elapsed. *)
AfterCheck(h) == IF h.left = 0 THEN Healthy ELSE h

(* record_failure *)
AfterFailure(h) ==
  [fails |-> h.fails + 1,
   left  |-> IF h.fails + 1 >= Threshold THEN Cooldown ELSE h.left]

(* What is left of a running timer when one unit of time has passed. *)
Less(n) == IF n > 0 THEN n - 1 ELSE n

(***************************************************************************)
(* The requests.                                                           *)
(***************************************************************************)
Working == {"trying", "calling", "closing"}  \* holding the lock
OnCall  == {"calling", "closing"}            \* awaiting delegate(), or its teardown
Phases  == {"idle", "queued"} \cup Working
Answers == {"none", "result", "exhausted", "no_candidates", "cancelled", "escaped"}
Errors  == {"cooldown", "preflight", "failed", "malformed", "timeout", "cancelled"}

Jobs     == [task : TaskTypes, chain : Seq(Candidates), timeout : Nat]
Attempts == [pos : Nat, retried : BOOLEAN, inner : Nat, outer : Nat]
Skips    == [candidate : Candidates, error : Errors]

NoJob     == [task |-> CHOOSE t \in TaskTypes : TRUE, chain |-> <<>>, timeout |-> 0]
NoAttempt == [pos |-> 0, retried |-> FALSE, inner |-> 0, outer |-> 0]

candidate(c) == job[c].chain[attempt[c].pos]
bucket(c) == <<job[c].task, candidate(c)>>

TypeOK ==
  /\ holder \in Callers \cup {NoCaller}
  /\ waiters \in Seq(Callers)
  /\ phase \in [Callers -> Phases]
  /\ answer \in [Callers -> Answers]
  /\ job \in [Callers -> Jobs]
  /\ attempt \in [Callers -> Attempts]
  /\ attempted \in [Callers -> Seq(Candidates)]
  /\ skips \in [Callers -> Seq(Skips)]
  /\ health \in [Buckets -> Health]
  /\ \A c \in Callers :
       phase[c] \in Working => attempt[c].pos \in 1..Len(job[c].chain)

Init ==
  /\ holder = NoCaller
  /\ waiters = <<>>
  /\ phase = [c \in Callers |-> "idle"]
  /\ answer = [c \in Callers |-> "none"]
  /\ job = [c \in Callers |-> NoJob]
  /\ attempt = [c \in Callers |-> NoAttempt]
  /\ attempted = [c \in Callers |-> <<>>]
  /\ skips = [c \in Callers |-> <<>>]
  /\ health = [b \in Buckets |-> Healthy]

(***************************************************************************)
(* execute_chain up to the lock.                                           *)
(***************************************************************************)

(* The chain resolves empty: NoCandidatesError before the queue is touched. *)
NoCandidates(c) ==
  /\ phase[c] = "idle"
  /\ \E t \in TaskTypes : <<>> \in ChainsFor[t]
  /\ answer' = [answer EXCEPT ![c] = "no_candidates"]
  /\ job' = [job EXCEPT ![c] = NoJob]
  /\ attempted' = [attempted EXCEPT ![c] = <<>>]
  /\ skips' = [skips EXCEPT ![c] = <<>>]
  /\ UNCHANGED <<lockVars, phase, attempt, health>>

Enqueue(c) ==
  /\ phase[c] = "idle"
  /\ \E t \in TaskTypes, limit \in Timeouts : \E chain \in ChainsFor[t] \ {<<>>} :
       job' = [job EXCEPT ![c] = [task |-> t, chain |-> chain, timeout |-> limit]]
  /\ waiters' = Append(waiters, c)
  /\ phase' = [phase EXCEPT ![c] = "queued"]
  /\ answer' = [answer EXCEPT ![c] = "none"]
  /\ attempted' = [attempted EXCEPT ![c] = <<>>]
  /\ skips' = [skips EXCEPT ![c] = <<>>]
  /\ UNCHANGED <<holder, attempt, health>>

(* Mutant: the lock does not exclude. *)
AcquireHeld(c) ==
  /\ waiters # <<>>
  /\ c = Head(waiters)
  /\ holder' = c
  /\ waiters' = Tail(waiters)
  /\ phase' = [phase EXCEPT ![c] = "trying"]
  /\ attempt' = [attempt EXCEPT ![c].pos = 1]
  /\ UNCHANGED <<answer, job, attempted, skips, health>>

(* asyncio.Lock: only the one that has waited longest gets a free lock. *)
Acquire(c) ==
  /\ holder = NoCaller
  /\ waiters # <<>>
  /\ c = Head(waiters)
  /\ holder' = c
  /\ waiters' = Tail(waiters)
  /\ phase' = [phase EXCEPT ![c] = "trying"]
  /\ attempt' = [attempt EXCEPT ![c].pos = 1]
  /\ UNCHANGED <<answer, job, attempted, skips, health>>

(***************************************************************************)
(* How an attempt ends: in the next one, or in the end of the chain, or in *)
(* the end of execute_chain.  ChainExhaustedError carries the two lists to *)
(* the caller; no other outcome does.                                      *)
(***************************************************************************)
TryNext(c) ==
  /\ phase' = [phase EXCEPT ![c] = "trying"]
  /\ attempt' = [attempt EXCEPT ![c] = [NoAttempt EXCEPT !.pos = attempt[c].pos + 1]]
  /\ UNCHANGED <<holder, answer>>

Exhausted(c) ==
  /\ holder' = NoCaller
  /\ phase' = [phase EXCEPT ![c] = "idle"]
  /\ answer' = [answer EXCEPT ![c] = "exhausted"]
  /\ attempt' = [attempt EXCEPT ![c] = NoAttempt]

(* Mutant: one lock acquisition per candidate. *)
AdvanceReleasing(c) ==
  /\ IF attempt[c].pos < Len(job[c].chain)
     THEN /\ holder' = NoCaller
          /\ waiters' = Append(waiters, c)
          /\ phase' = [phase EXCEPT ![c] = "queued"]
          /\ UNCHANGED <<answer, attempt>>
     ELSE Exhausted(c) /\ UNCHANGED waiters
  /\ UNCHANGED job

(* Mutant: one candidate too many. *)
AdvancePastTheEnd(c) ==
  /\ IF attempt[c].pos <= Len(job[c].chain) THEN TryNext(c) ELSE Exhausted(c)
  /\ UNCHANGED <<waiters, job>>

Advance(c) ==
  /\ IF attempt[c].pos < Len(job[c].chain) THEN TryNext(c) ELSE Exhausted(c)
  /\ UNCHANGED <<waiters, job>>

Skip(c, error) ==
  skips' = [skips EXCEPT ![c] =
              Append(@, [candidate |-> candidate(c), error |-> error])]

Return(c, outcome) ==
  /\ phase' = [phase EXCEPT ![c] = "idle"]
  /\ answer' = [answer EXCEPT ![c] = outcome]
  /\ job' = [job EXCEPT ![c] = NoJob]
  /\ attempt' = [attempt EXCEPT ![c] = NoAttempt]
  /\ attempted' = [attempted EXCEPT ![c] = <<>>]
  /\ skips' = [skips EXCEPT ![c] = <<>>]

Release == holder' = NoCaller /\ UNCHANGED waiters

(* Mutant: a store keyed by the candidate's name alone. *)
RecordFailureByName(c) ==
  health' = [b \in Buckets |->
               IF b[2] = candidate(c) THEN AfterFailure(health[b]) ELSE health[b]]

RecordFailure(c) ==
  health' = [health EXCEPT ![bucket(c)] = AfterFailure(@)]

(***************************************************************************)
(* _attempt up to its first await.                                         *)
(***************************************************************************)
Start(c) ==
  /\ phase[c] = "trying"
  /\ attempted' = [attempted EXCEPT ![c] = Append(@, candidate(c))]

(* Mutant: being passed over starts the cooldown again. *)
SkipCoolingProlonged(c) ==
  /\ Start(c)
  /\ InCooldown(health[bucket(c)])
  /\ Skip(c, "cooldown")
  /\ Advance(c)
  /\ health' = [health EXCEPT ![bucket(c)].left = Cooldown]

(* A candidate in cooldown is passed over without a call. *)
SkipCooling(c) ==
  /\ Start(c)
  /\ InCooldown(health[bucket(c)])
  /\ Skip(c, "cooldown")
  /\ Advance(c)
  /\ UNCHANGED health

(* Mutant: a preflight failure leaves no SkipRecord. *)
SkipPreflightUnrecorded(c) ==
  /\ Start(c)
  /\ ~ InCooldown(health[bucket(c)])
  /\ health' = [health EXCEPT ![bucket(c)] = AfterCheck(@)]
  /\ candidate(c) \in Curated
  /\ Advance(c)
  /\ UNCHANGED skips

(* So is a local one whose model does not fit the RAM there is just now. *)
SkipPreflight(c) ==
  /\ Start(c)
  /\ ~ InCooldown(health[bucket(c)])
  /\ health' = [health EXCEPT ![bucket(c)] = AfterCheck(@)]
  /\ candidate(c) \in Curated
  /\ Skip(c, "preflight")
  /\ Advance(c)

(* Mutant: the cooldown is not looked at when the attempt starts. *)
CallUnchecked(c) ==
  /\ Start(c)
  /\ phase' = [phase EXCEPT ![c] = "calling"]
  /\ attempt' = [attempt EXCEPT ![c].inner = job[c].timeout,
                                ![c].outer = job[c].timeout + Margin]
  /\ UNCHANGED <<lockVars, answer, job, skips, health>>

Call(c) ==
  /\ Start(c)
  /\ ~ InCooldown(health[bucket(c)])
  /\ health' = [health EXCEPT ![bucket(c)] = AfterCheck(@)]
  /\ phase' = [phase EXCEPT ![c] = "calling"]
  /\ attempt' = [attempt EXCEPT ![c].inner = job[c].timeout,
                                ![c].outer = job[c].timeout + Margin]
  /\ UNCHANGED <<lockVars, answer, job, skips>>

(***************************************************************************)
(* What the call to delegate() may come to.                                *)
(***************************************************************************)
FailAttempt(c, error) ==
  /\ RecordFailure(c)
  /\ Skip(c, error)
  /\ Advance(c)
  /\ UNCHANGED attempted

Succeed(c) ==
  /\ phase[c] = "calling"
  /\ health' = [health EXCEPT ![bucket(c)] = Healthy]
  /\ Return(c, "result")
  /\ Release

(* Unreachable, rate-limited or an error status: never retried. *)
Fail(c) ==
  /\ phase[c] = "calling"
  /\ FailAttempt(c, "failed")

(* Mutant: the malformed answer is charged to the candidate at once. *)
RetryCounted(c) ==
  /\ phase[c] = "calling"
  /\ ~ attempt[c].retried
  /\ attempt' = [attempt EXCEPT ![c].retried = TRUE]
  /\ RecordFailure(c)
  /\ UNCHANGED <<lockVars, phase, answer, job, attempted, skips>>

(* A malformed answer is asked for once more, within the same deadlines. *)
Retry(c) ==
  /\ phase[c] = "calling"
  /\ ~ attempt[c].retried
  /\ attempt' = [attempt EXCEPT ![c].retried = TRUE]
  /\ UNCHANGED <<lockVars, phase, answer, job, attempted, skips, health>>

MalformedAgain(c) ==
  /\ phase[c] = "calling"
  /\ attempt[c].retried
  /\ FailAttempt(c, "malformed")

(* A connection that breaks while the answer is read raises an error that
   neither the client, nor _attempt, nor run_chain catches. *)
Drop(c) ==
  /\ phase[c] = "calling"
  /\ Return(c, "escaped")
  /\ Release
  /\ UNCHANGED health

(* _attempt's own wait_for cancels delegate() ... *)
InnerDeadline(c) ==
  /\ phase[c] = "calling"
  /\ attempt[c].inner = 0
  /\ phase' = [phase EXCEPT ![c] = "closing"]
  /\ UNCHANGED <<lockVars, answer, job, attempt, attempted, skips, health>>

(* ... whose teardown takes its time and then yields the TimeoutError, *)
Closed(c) ==
  /\ phase[c] = "closing"
  /\ FailAttempt(c, "timeout")

(* Mutant: the outer deadline is not seen by _attempt, and records nothing. *)
OuterDeadlineUnseen(c) ==
  /\ phase[c] \in OnCall
  /\ attempt[c].outer = 0
  /\ Advance(c)
  /\ UNCHANGED <<attempted, skips, health>>

(* Mutant: the outer deadline does not cover the teardown. *)
OuterDeadlineBeforeTeardown(c) ==
  /\ phase[c] = "calling"
  /\ attempt[c].outer = 0
  /\ FailAttempt(c, "cancelled")

(* or is cut short by run_chain's wait_for: a CancelledError inside
   _attempt, a TimeoutError for run_chain. *)
OuterDeadline(c) ==
  /\ phase[c] \in OnCall
  /\ attempt[c].outer = 0
  /\ FailAttempt(c, "cancelled")

(***************************************************************************)
(* The task that runs execute_chain is cancelled: an MCP cancellation, a   *)
(* client that disconnects, the daemon's shutdown.                         *)
(***************************************************************************)
Without(s, i) == SubSeq(s, 1, i - 1) \o SubSeq(s, i + 1, Len(s))

CancelQueued(c) ==
  /\ phase[c] = "queued"
  /\ \E i \in 1..Len(waiters) :
       /\ waiters[i] = c
       /\ waiters' = Without(waiters, i)
  /\ Return(c, "cancelled")
  /\ UNCHANGED <<holder, health>>

CancelCall(c) ==
  /\ phase[c] \in OnCall
  /\ RecordFailure(c)
  /\ Return(c, "cancelled")
  /\ Release

Tick ==
  /\ attempt' = [c \in Callers |-> [attempt[c] EXCEPT !.inner = Less(@), !.outer = Less(@)]]
  /\ health' = [b \in Buckets |-> [health[b] EXCEPT !.left = Less(@)]]
  /\ UNCHANGED <<lockVars, phase, answer, job, attempted, skips>>

TryCandidate(c) == SkipCooling(c) \/ SkipPreflight(c) \/ Call(c)

Next ==
  \/ Tick
  \/ \E c \in Callers :
       \/ NoCandidates(c) \/ Enqueue(c) \/ Acquire(c)
       \/ TryCandidate(c)
       \/ Succeed(c) \/ Fail(c) \/ Retry(c) \/ MalformedAgain(c) \/ Drop(c)
       \/ InnerDeadline(c) \/ Closed(c) \/ OuterDeadline(c)
       \/ CancelQueued(c) \/ CancelCall(c)

SafeSpec == Init /\ [][Next]_vars

(***************************************************************************)
(* Time passes, the event loop runs what is ready and fires the timers     *)
(* that have expired.  Nothing is assumed of a candidate, not even that    *)
(* the teardown of a call to it ends.                                      *)
(***************************************************************************)
Fairness ==
  /\ WF_vars(Tick)
  /\ \A c \in Callers :
       /\ WF_vars(Acquire(c)) /\ WF_vars(TryCandidate(c))
       /\ WF_vars(InnerDeadline(c)) /\ WF_vars(OuterDeadline(c))

Spec == SafeSpec /\ Fairness
(***************************************************************************)
(* Properties                                                              *)
(***************************************************************************)

(* One chain runs at a time: whoever is past the lock is the one that holds
   it, everybody else waits in line, once, or is not in a call at all.  The
   reason DelegateQueue exists (queue.py:1-23). *)
Serialized ==
  /\ \A c \in Callers : phase[c] \in Working <=> holder = c
  /\ \A c \in Callers : phase[c] = "queued" <=> \E i \in 1..Len(waiters) : waiters[i] = c
  /\ \A i, j \in 1..Len(waiters) : waiters[i] = waiters[j] => i = j

(* The lock spans the whole chain: from its first candidate to the outcome of
   the request nobody else gets in, whatever fails on the way
   (run_chain, queue.py:51-59). *)
HeldToTheOutcome ==
  [][\A c \in Callers : holder = c /\ holder' # c
        => holder' = NoCaller /\ phase'[c] = "idle" /\ answer'[c] # "none"]_vars

(* A candidate that is in cooldown for a task type is never being called for
   it, also not by a request that looked before another one's failure
   started the cooldown (_attempt's check, chain.py:230). *)
NoCallDuringCooldown ==
  \A c \in Callers : phase[c] \in OnCall => health[bucket(c)].left = NoExpiry

(* A record carries a cooldown exactly when its count has reached the
   threshold, and the count never passes it: a count left over from an
   elapsed cooldown would (is_in_cooldown's reset, cooldown.py:114-124). *)
CountWithinThreshold ==
  \A b \in Buckets :
    /\ health[b].fails <= Threshold
    /\ health[b].fails = Threshold <=> health[b].left # NoExpiry
    /\ health[b].left <= Cooldown

(* A call to a candidate that does not succeed is charged to it exactly once,
   whichever of the two deadlines or the candidate itself ended it: a hang is
   a failure too (chain.py:246-253, 278-291). *)
EachFailureCountedOnce ==
  [][\A c \in Callers :
       phase[c] \in OnCall /\ phase'[c] \notin OnCall
       /\ answer'[c] \in {"none", "exhausted"}
         => health'[bucket(c)].fails = health[bucket(c)].fails + 1]_vars

(* A bucket's count moves only when a call to its candidate for its task type
   ends, or is forgotten with a cooldown that has elapsed.  Being skipped,
   failing for another task type (cooldown.py:15-18), or being asked once more
   within one call (local_model.py:192-194) leaves it alone. *)
CountMovesByOwnCalls ==
  [][\A b \in Buckets : health'[b].fails # health[b].fails =>
       \E c \in Callers :
         /\ holder = c
         /\ bucket(c) = b
         /\ \/ phase[c] \in OnCall /\ phase'[c] \notin OnCall
            \/ health[b].left = 0 /\ health'[b] = Healthy]_vars

(* The candidates are tried in the chain's order, none is left out, and each
   one given up has its SkipRecord.  So ChainExhaustedError means that every
   candidate was reached and gave a reason (chain.py:142-149, 199-204). *)
EveryCandidateAccountedFor ==
  \A c \in Callers :
    LET started == Len(attempted[c])
        given   == Len(skips[c])
        chain   == job[c].chain
    IN  /\ attempted[c] = SubSeq(chain, 1, started)
        /\ \A i \in 1..given : skips[c][i].candidate = attempted[c][i]
        /\ phase[c] = "trying" => started = attempt[c].pos - 1 /\ given = started
        /\ phase[c] \in OnCall => started = attempt[c].pos /\ given = started - 1
        /\ answer[c] = "exhausted" => started = Len(chain) /\ given = started

(* Every request comes to an end, also when its candidates hang, their
   teardown hangs, or others keep asking. *)
EveryRequestEnds == \A c \in Callers : phase[c] # "idle" ~> phase[c] = "idle"

(* No candidate is shut out for good: skipping it does not prolong its
   cooldown (cooldown.py:106-112). *)
EveryCooldownEnds ==
  \A b \in Buckets : InCooldown(health[b]) ~> ~ InCooldown(health[b])

(* The whole of this is a queue that serves one request at a time. *)
Abstract == INSTANCE SerialQueue
              WITH queue <- waiters, serving <- holder, outcome <- answer
ImplementsSerialQueue == Abstract!Spec

(* What execute_chain's docstring promises of how it ends (chain.py:199-204):
   a result, NoCandidatesError or ChainExhaustedError, unless its task is
   cancelled. *)
EndsAsDocumented == \A c \in Callers : answer[c] # "escaped"

(* A qualifying failure is one of the exceptions that advance the chain
   (R4 of the candidate circuit breaker's plan): what does not advance it is
   not charged to the candidate. *)
OnlyAdvancingFailuresCount ==
  [][\A c \in Callers :
       phase[c] \in OnCall /\ answer'[c] \notin {"none", "exhausted"}
         => health'[bucket(c)].fails <= health[bucket(c)].fails]_vars
=============================================================================
