------------------------ MODULE DelegateChainProofs ------------------------
(***************************************************************************)
(* Proofs about DelegateChain, for any callers, chains, time budgets,      *)
(* threshold and cooldown.                                                 *)
(***************************************************************************)
EXTENDS DelegateChain, TLAPS

(* A request past its submission has a candidate to try. *)
ChainsNonEmpty == \A c \in Callers : phase[c] # "idle" => job[c].chain # <<>>

Inv == TypeOK /\ Serialized /\ ChainsNonEmpty

-----------------------------------------------------------------------------
(* Leaving a place in the queue keeps everyone else in order. *)
LEMMA WithoutProperties ==
  ASSUME NEW S, NEW s \in Seq(S), NEW i \in 1..Len(s)
  PROVE  /\ Without(s, i) \in Seq(S)
         /\ Len(Without(s, i)) = Len(s) - 1
         /\ \A j \in 1..Len(s) - 1 :
              Without(s, i)[j] = IF j < i THEN s[j] ELSE s[j + 1]
<1> DEFINE front == SubSeq(s, 1, i - 1)
           back  == SubSeq(s, i + 1, Len(s))
<1>1. front \in Seq(S) /\ back \in Seq(S)
  OBVIOUS
<1>2. Len(front) = i - 1 /\ Len(back) = Len(s) - i
  OBVIOUS
<1>3. /\ \A j \in 1..i - 1 : front[j] = s[j]
      /\ \A j \in 1..Len(s) - i : back[j] = s[i + j]
  OBVIOUS
<1>4. Without(s, i) = front \o back
  BY DEF Without
<1> HIDE DEF front, back
<1>5. front \o back \in Seq(S) /\ Len(front \o back) = Len(s) - 1
  BY <1>1, <1>2
<1>6. \A j \in 1..Len(s) - 1 :
        (front \o back)[j] = IF j < i THEN s[j] ELSE s[j + 1]
  <2> TAKE j \in 1..Len(s) - 1
  <2>1. (front \o back)[j] = IF j <= i - 1 THEN front[j] ELSE back[j - (i - 1)]
    BY <1>1, <1>2
  <2>2. CASE j < i
    BY <2>1, <2>2, <1>3
  <2>3. CASE ~ (j < i)
    <3>1. j - (i - 1) \in 1..Len(s) - i /\ i + (j - (i - 1)) = j + 1
      BY <2>3
    <3> QED
      BY <2>1, <2>3, <3>1, <1>3
  <2> QED
    BY <2>2, <2>3
<1> QED
  BY <1>4, <1>5, <1>6

(* What an action leaves to be initialised is well typed. *)
LEMMA Defaults ==
  /\ NoJob \in Jobs
  /\ NoAttempt \in Attempts
  /\ Healthy \in Health
<1>1. (CHOOSE t \in TaskTypes : TRUE) \in TaskTypes
  BY ChainsAssumption
<1> QED
  BY <1>1 DEF NoJob, Jobs, NoAttempt, Attempts, Healthy, Health, NoExpiry

(* The updates of one record of the store keep its type. *)
LEMMA HealthUpdates ==
  ASSUME NEW h \in Health
  PROVE  AfterCheck(h) \in Health /\ AfterFailure(h) \in Health
  BY Defaults, TimesAssumption DEF Health, AfterCheck, AfterFailure, NoExpiry

(* A request past the lock is on one of the store's buckets. *)
LEMMA BucketType ==
  ASSUME TypeOK, NEW c \in Callers, phase[c] \in Working
  PROVE  candidate(c) \in Candidates /\ bucket(c) \in Buckets
<1>1. job[c] \in Jobs /\ attempt[c].pos \in 1..Len(job[c].chain)
  BY DEF TypeOK
<1> QED
  BY <1>1 DEF candidate, bucket, Buckets, Jobs

(* Init establishes the invariant. *)
LEMMA InitInv == Init => Inv
  BY Defaults, CallersAssumption DEF Init, Inv, TypeOK, Serialized, ChainsNonEmpty, Phases, Answers, Working
-----------------------------------------------------------------------------
(***************************************************************************)
(* Type correctness.                                                       *)
(***************************************************************************)
LockTypes == holder \in Callers \cup {NoCaller} /\ waiters \in Seq(Callers)
ProgressTypes ==
  /\ phase \in [Callers -> Phases]
  /\ answer \in [Callers -> Answers]
  /\ job \in [Callers -> Jobs]
  /\ attempt \in [Callers -> Attempts]
  /\ \A c \in Callers :
       phase[c] \in Working => attempt[c].pos \in 1..Len(job[c].chain)
ListTypes == attempted \in [Callers -> Seq(Candidates)] /\ skips \in [Callers -> Seq(Skips)]
HealthType == health \in [Buckets -> Health]

(* TypeOK, by what its conjuncts are about. *)
LEMMA TypeParts == TypeOK <=> LockTypes /\ ProgressTypes /\ ListTypes /\ HealthType
  BY DEF TypeOK, LockTypes, ProgressTypes, ListTypes, HealthType

(* The end of an attempt keeps the types of the lock and of the progress. *)
LEMMA AdvanceTypes ==
  ASSUME LockTypes, ProgressTypes, NEW c \in Callers, phase[c] \in Working, Advance(c)
  PROVE  LockTypes' /\ ProgressTypes'
<1>1. CASE attempt[c].pos < Len(job[c].chain) /\ TryNext(c)
  <2>1. attempt[c].pos + 1 \in 1..Len(job[c].chain) /\ attempt[c].pos + 1 \in Nat
    BY <1>1 DEF ProgressTypes, Jobs
  <2>2. [NoAttempt EXCEPT !.pos = attempt[c].pos + 1] \in Attempts
    BY <2>1 DEF NoAttempt, Attempts
  <2> QED
    BY <1>1, <2>1, <2>2
    DEF TryNext, Advance, LockTypes, ProgressTypes, Phases, Working, NoAttempt, Attempts
<1>2. CASE Exhausted(c)
  BY <1>2, Defaults
  DEF Exhausted, Advance, LockTypes, ProgressTypes, Phases, Answers, Working
<1> QED
  BY <1>1, <1>2 DEF Advance

(* So does a return from execute_chain. *)
LEMMA ReturnTypes ==
  ASSUME ProgressTypes, ListTypes, NEW c \in Callers, NEW o \in Answers, Return(c, o)
  PROVE  ProgressTypes' /\ ListTypes'
<1>1. ProgressTypes'
  BY Defaults DEF Return, ProgressTypes, Phases, Working
<1>2. ListTypes'
  BY DEF Return, ListTypes
<1> QED
  BY <1>1, <1>2

(* A SkipRecord is well typed. *)
LEMMA SkipTypes ==
  ASSUME TypeOK, NEW c \in Callers, phase[c] \in Working, NEW e \in Errors, Skip(c, e)
  PROVE  skips' \in [Callers -> Seq(Skips)]
<1>1. [candidate |-> candidate(c), error |-> e] \in Skips
  BY BucketType DEF Skips
<1> QED
  BY <1>1 DEF Skip, TypeOK

(* A failed call is well typed, whatever ended it. *)
LEMMA FailAttemptTypes ==
  ASSUME TypeOK, NEW c \in Callers, phase[c] \in OnCall, NEW e \in Errors, FailAttempt(c, e)
  PROVE  TypeOK'
<1>1. phase[c] \in Working
  BY DEF OnCall, Working
<1>2. LockTypes' /\ ProgressTypes'
  BY <1>1, AdvanceTypes, TypeParts DEF FailAttempt
<1>3. ListTypes'
  BY <1>1, SkipTypes, TypeParts DEF FailAttempt, ListTypes
<1>4. HealthType'
  BY <1>1, BucketType, HealthUpdates DEF FailAttempt, RecordFailure, HealthType, TypeOK
<1> QED
  BY <1>2, <1>3, <1>4 DEF TypeOK, LockTypes, ProgressTypes, ListTypes, HealthType
(* Every step preserves the types. *)
LEMMA TypeStep == Inv /\ [Next]_vars => TypeOK'
<1> SUFFICES ASSUME Inv, [Next]_vars
             PROVE  LockTypes' /\ ProgressTypes' /\ ListTypes' /\ HealthType'
  BY DEF TypeOK, LockTypes, ProgressTypes, ListTypes, HealthType
<1>0. LockTypes /\ ProgressTypes /\ ListTypes /\ HealthType /\ TypeOK
  BY TypeParts DEF Inv
<1>1. CASE UNCHANGED vars
  BY <1>0, <1>1
  DEF vars, lockVars, callVars, LockTypes, ProgressTypes, ListTypes, HealthType
<1>2. CASE Tick
  <2>1. \A n \in Nat \cup {NoExpiry} : Less(n) \in Nat \cup {NoExpiry}
    BY DEF Less, NoExpiry
  <2>2. \A n \in Nat : Less(n) \in Nat
    BY DEF Less
  <2>3. ProgressTypes'
    BY <1>0, <1>2, <2>2 DEF Tick, ProgressTypes, Attempts
  <2>4. HealthType'
    BY <1>0, <1>2, <2>1 DEF Tick, HealthType, Health
  <2> QED
    BY <1>0, <1>2, <2>3, <2>4 DEF Tick, lockVars, LockTypes, ListTypes
<1>3. ASSUME NEW c \in Callers, NoCandidates(c)
      PROVE  LockTypes' /\ ProgressTypes' /\ ListTypes' /\ HealthType'
  <2>1. phase[c] \notin Working
    BY <1>3 DEF NoCandidates, Working
  <2> QED
    BY <1>0, <1>3, <2>1, Defaults
    DEF NoCandidates, lockVars, LockTypes, ProgressTypes, ListTypes, HealthType, Answers
<1>4. ASSUME NEW c \in Callers, Enqueue(c)
      PROVE  LockTypes' /\ ProgressTypes' /\ ListTypes' /\ HealthType'
  <2>1. PICK t \in TaskTypes, limit \in Timeouts : \E chain \in ChainsFor[t] \ {<<>>} :
          job' = [job EXCEPT ![c] = [task |-> t, chain |-> chain, timeout |-> limit]]
    BY <1>4 DEF Enqueue
  <2>2. PICK chain \in ChainsFor[t] \ {<<>>} :
          job' = [job EXCEPT ![c] = [task |-> t, chain |-> chain, timeout |-> limit]]
    BY <2>1
  <2>3. [task |-> t, chain |-> chain, timeout |-> limit] \in Jobs
    BY ChainsAssumption, TimesAssumption DEF Jobs
  <2>4. ProgressTypes'
    BY <1>0, <1>4, <2>2, <2>3 DEF Enqueue, ProgressTypes, Phases, Answers, Working
  <2> QED
    BY <1>0, <1>4, <2>4 DEF Enqueue, LockTypes, ListTypes, HealthType
<1>5. ASSUME NEW c \in Callers, Acquire(c)
      PROVE  LockTypes' /\ ProgressTypes' /\ ListTypes' /\ HealthType'
  <2>1. 1 \in 1..Len(waiters) /\ waiters[1] = c
    BY <1>0, <1>5 DEF Acquire, LockTypes
  <2>2. phase[c] = "queued" /\ job[c].chain \in Seq(Candidates) /\ job[c].chain # <<>>
    BY <1>0, <2>1 DEF Inv, Serialized, ChainsNonEmpty, ProgressTypes, Jobs
  <2>3. 1 \in 1..Len(job[c].chain)
    BY <2>2
  <2>4. [attempt[c] EXCEPT !.pos = 1] \in Attempts
    BY <1>0 DEF ProgressTypes, Attempts
  <2>5. attempt' = [attempt EXCEPT ![c] = [attempt[c] EXCEPT !.pos = 1]]
    BY <1>5 DEF Acquire
  <2>6. ProgressTypes'
    BY <1>0, <1>5, <2>3, <2>4, <2>5
    DEF Acquire, ProgressTypes, Phases, Working, Attempts
  <2> QED
    BY <1>0, <1>5, <2>6 DEF Acquire, LockTypes, ListTypes, HealthType
<1>6. ASSUME NEW c \in Callers, Start(c)
      PROVE  /\ phase[c] \in Working
             /\ attempted' \in [Callers -> Seq(Candidates)]
             /\ [health EXCEPT ![bucket(c)] = AfterCheck(@)] \in [Buckets -> Health]
  <2>1. phase[c] \in Working
    BY <1>6 DEF Start, Working
  <2>2. candidate(c) \in Candidates /\ bucket(c) \in Buckets
    BY <1>0, <2>1, BucketType
  <2> QED
    BY <1>0, <1>6, <2>1, <2>2, HealthUpdates DEF Start, ListTypes, HealthType
<1>7. ASSUME NEW c \in Callers, SkipCooling(c)
      PROVE  LockTypes' /\ ProgressTypes' /\ ListTypes' /\ HealthType'
  BY <1>0, <1>6, <1>7, AdvanceTypes, SkipTypes
  DEF SkipCooling, ListTypes, HealthType, Errors
<1>8. ASSUME NEW c \in Callers, SkipPreflight(c)
      PROVE  LockTypes' /\ ProgressTypes' /\ ListTypes' /\ HealthType'
  BY <1>0, <1>6, <1>8, AdvanceTypes, SkipTypes
  DEF SkipPreflight, ListTypes, HealthType, Errors
<1>9. ASSUME NEW c \in Callers, Call(c)
      PROVE  LockTypes' /\ ProgressTypes' /\ ListTypes' /\ HealthType'
  <2>0. attempt[c] \in Attempts /\ job[c].timeout \in Nat /\ job[c].timeout + Margin \in Nat
    BY <1>0, TimesAssumption DEF ProgressTypes, Jobs
  <2>1. [attempt[c] EXCEPT !.inner = job[c].timeout,
                           !.outer = job[c].timeout + Margin] \in Attempts
    BY <2>0 DEF Attempts
  <2>2. attempt' = [attempt EXCEPT ![c] =
                      [attempt[c] EXCEPT !.inner = job[c].timeout,
                                         !.outer = job[c].timeout + Margin]]
    BY <1>9 DEF Call
  <2>3. phase[c] \in Working
    BY <1>9 DEF Call, Start, Working
  <2>4. ProgressTypes'
    BY <1>0, <1>9, <2>1, <2>2, <2>3 DEF Call, ProgressTypes, Phases, Working, Attempts
  <2> QED
    BY <1>0, <1>6, <1>9, <2>4 DEF Call, lockVars, LockTypes, ListTypes, HealthType
<1>10. ASSUME NEW c \in Callers, NEW e \in Errors, phase[c] \in OnCall, FailAttempt(c, e)
       PROVE  LockTypes' /\ ProgressTypes' /\ ListTypes' /\ HealthType'
  BY <1>0, <1>10, FailAttemptTypes
  DEF TypeOK, LockTypes, ProgressTypes, ListTypes, HealthType
<1>11. ASSUME NEW c \in Callers, NEW o \in Answers, phase[c] \in OnCall, Return(c, o),
              Release, health' \in [Buckets -> Health]
       PROVE  LockTypes' /\ ProgressTypes' /\ ListTypes' /\ HealthType'
  <2>1. ProgressTypes' /\ ListTypes'
    BY <1>0, <1>11, ReturnTypes
  <2> QED
    BY <1>0, <1>11, <2>1 DEF Release, LockTypes, HealthType
<1>12. ASSUME NEW c \in Callers, phase[c] \in OnCall
       PROVE  /\ [health EXCEPT ![bucket(c)] = Healthy] \in [Buckets -> Health]
              /\ [health EXCEPT ![bucket(c)] = AfterFailure(@)] \in [Buckets -> Health]
  <2>1. bucket(c) \in Buckets
    BY <1>0, <1>12, BucketType DEF OnCall, Working
  <2> QED
    BY <1>0, <2>1, HealthUpdates, Defaults DEF HealthType
<1>13. ASSUME NEW c \in Callers, Succeed(c)
       PROVE  LockTypes' /\ ProgressTypes' /\ ListTypes' /\ HealthType'
  BY <1>11, <1>12, <1>13 DEF Succeed, OnCall, Answers
<1>14. ASSUME NEW c \in Callers, Drop(c)
       PROVE  LockTypes' /\ ProgressTypes' /\ ListTypes' /\ HealthType'
  BY <1>0, <1>11, <1>14 DEF Drop, OnCall, Answers, HealthType
<1>15. ASSUME NEW c \in Callers, CancelCall(c)
       PROVE  LockTypes' /\ ProgressTypes' /\ ListTypes' /\ HealthType'
  BY <1>11, <1>12, <1>15 DEF CancelCall, RecordFailure, Answers
<1>16. ASSUME NEW c \in Callers, Retry(c)
       PROVE  LockTypes' /\ ProgressTypes' /\ ListTypes' /\ HealthType'
  <2>1. [attempt[c] EXCEPT !.retried = TRUE] \in Attempts
    BY <1>0 DEF ProgressTypes, Attempts
  <2>2. attempt' = [attempt EXCEPT ![c] = [attempt[c] EXCEPT !.retried = TRUE]]
    BY <1>16 DEF Retry
  <2>3. ProgressTypes'
    BY <1>0, <1>16, <2>1, <2>2 DEF Retry, ProgressTypes, Attempts
  <2> QED
    BY <1>0, <1>16, <2>3 DEF Retry, lockVars, LockTypes, ListTypes, HealthType
<1>17. ASSUME NEW c \in Callers, InnerDeadline(c)
       PROVE  LockTypes' /\ ProgressTypes' /\ ListTypes' /\ HealthType'
  BY <1>0, <1>17 DEF InnerDeadline, lockVars, LockTypes, ProgressTypes, ListTypes,
                     HealthType, Phases, Working
<1>18. ASSUME NEW c \in Callers, CancelQueued(c)
       PROVE  LockTypes' /\ ProgressTypes' /\ ListTypes' /\ HealthType'
  <2>1. waiters' \in Seq(Callers)
    BY <1>0, <1>18, WithoutProperties DEF CancelQueued, LockTypes
  <2>2. ProgressTypes' /\ ListTypes'
    BY <1>0, <1>18, ReturnTypes DEF CancelQueued, Answers
  <2> QED
    BY <1>0, <1>18, <2>1, <2>2 DEF CancelQueued, LockTypes, HealthType
<1> QED
  BY <1>1, <1>2, <1>3, <1>4, <1>5, <1>7, <1>8, <1>9, <1>10, <1>13, <1>14, <1>15, <1>16,
     <1>17, <1>18
  DEF Next, TryCandidate, Fail, MalformedAgain, Closed, OuterDeadline, OnCall, Errors
-----------------------------------------------------------------------------
(***************************************************************************)
(* The lock.                                                               *)
(***************************************************************************)

(* What a step may do to the lock and the queue, and to where the requests
   stand with respect to them. *)
SameStanding ==
  /\ UNCHANGED <<holder, waiters, answer>>
  /\ \A c \in Callers : phase'[c] \in Working <=> phase[c] \in Working
  /\ \A c \in Callers : phase'[c] = "queued" <=> phase[c] = "queued"
Refused(c) ==
  /\ phase[c] = "idle"
  /\ UNCHANGED <<holder, waiters, phase>>
  /\ answer' = [answer EXCEPT ![c] = "no_candidates"]
Joins(c) ==
  /\ phase[c] = "idle"
  /\ answer' = [answer EXCEPT ![c] = "none"]
  /\ UNCHANGED holder
  /\ waiters' = Append(waiters, c)
  /\ phase' = [phase EXCEPT ![c] = "queued"]
Enters(c) ==
  /\ UNCHANGED answer
  /\ holder = NoCaller
  /\ waiters # <<>>
  /\ c = Head(waiters)
  /\ holder' = c
  /\ waiters' = Tail(waiters)
  /\ phase' = [phase EXCEPT ![c] = "trying"]
Leaves(c) ==
  /\ phase[c] \in Working
  /\ \E o \in {"result", "exhausted", "cancelled", "escaped"} :
       answer' = [answer EXCEPT ![c] = o]
  /\ holder' = NoCaller
  /\ UNCHANGED waiters
  /\ phase' = [phase EXCEPT ![c] = "idle"]
Quits(c) ==
  /\ phase[c] = "queued"
  /\ answer' = [answer EXCEPT ![c] = "cancelled"]
  /\ UNCHANGED holder
  /\ \E i \in 1..Len(waiters) : waiters[i] = c /\ waiters' = Without(waiters, i)
  /\ phase' = [phase EXCEPT ![c] = "idle"]

(* Every step does one of these. *)
LEMMA LockSteps ==
  ASSUME TypeOK, [Next]_vars
  PROVE  \/ SameStanding
         \/ \E c \in Callers :
              Refused(c) \/ Joins(c) \/ Enters(c) \/ Leaves(c) \/ Quits(c)
<1>1. CASE UNCHANGED vars
  BY <1>1 DEF vars, lockVars, callVars, SameStanding
<1>2. CASE Tick
  BY <1>2 DEF Tick, lockVars, SameStanding
<1>3. ASSUME NEW c \in Callers, phase[c] \in Working, Advance(c)
      PROVE  SameStanding \/ Leaves(c)
  BY <1>3 DEF Advance, TryNext, Exhausted, SameStanding, Leaves, TypeOK, Working
<1>4. ASSUME NEW c \in Callers, NEW o \in {"result", "cancelled", "escaped"},
             phase[c] \in Working, Return(c, o), Release
      PROVE  Leaves(c)
  BY <1>4 DEF Return, Release, Leaves
<1>5. ASSUME NEW c \in Callers, NoCandidates(c) \/ Retry(c)
      PROVE  Refused(c) \/ SameStanding
  BY <1>5 DEF NoCandidates, Retry, lockVars, Refused, SameStanding
<1>6. ASSUME NEW c \in Callers, Call(c) \/ InnerDeadline(c)
      PROVE  SameStanding
  BY <1>6 DEF Call, Start, InnerDeadline, lockVars, SameStanding, TypeOK, Working
<1>7. ASSUME NEW c \in Callers, Enqueue(c)
      PROVE  Joins(c)
  BY <1>7 DEF Enqueue, Joins
<1>8. ASSUME NEW c \in Callers, Acquire(c)
      PROVE  Enters(c)
  BY <1>8 DEF Acquire, Enters
<1>9. ASSUME NEW c \in Callers, CancelQueued(c)
      PROVE  Quits(c)
  BY <1>9 DEF CancelQueued, Return, Quits
<1>10. ASSUME NEW c \in Callers,
              SkipCooling(c) \/ SkipPreflight(c) \/ Fail(c) \/ MalformedAgain(c)
              \/ Closed(c) \/ OuterDeadline(c)
       PROVE  SameStanding \/ Leaves(c)
  BY <1>3, <1>10 DEF SkipCooling, SkipPreflight, Start, Fail, MalformedAgain, Closed,
                     OuterDeadline, FailAttempt, OnCall, Working
<1>11. ASSUME NEW c \in Callers, Succeed(c) \/ Drop(c) \/ CancelCall(c)
       PROVE  Leaves(c)
  BY <1>4, <1>11 DEF Succeed, Drop, CancelCall, OnCall, Working
<1> QED
  BY <1>1, <1>2, <1>5, <1>6, <1>7, <1>8, <1>9, <1>10, <1>11 DEF Next, TryCandidate

(* Every step preserves the mutual exclusion. *)
LEMMA SerializedStep == Inv /\ [Next]_vars => Serialized'
<1> SUFFICES ASSUME Inv, [Next]_vars PROVE Serialized'
  OBVIOUS
<1> USE CallersAssumption
<1>0. TypeOK /\ Serialized
  BY DEF Inv
<1>1. CASE SameStanding
  BY <1>0, <1>1 DEF SameStanding, Serialized
<1>2. ASSUME NEW c \in Callers, Joins(c) PROVE Serialized'
  <2>1. waiters \in Seq(Callers) /\ \A i \in 1..Len(waiters) : waiters[i] # c
    BY <1>0, <1>2 DEF Joins, Serialized, TypeOK
  <2>2. /\ Len(waiters') = Len(waiters) + 1
        /\ waiters'[Len(waiters) + 1] = c
        /\ \A i \in 1..Len(waiters) : waiters'[i] = waiters[i]
    BY <2>1, <1>2 DEF Joins
  <2>3. \A d \in Callers : phase'[d] = IF d = c THEN "queued" ELSE phase[d]
    BY <1>0, <1>2 DEF Joins, TypeOK
  <2>4. \A d \in Callers : phase'[d] \in Working <=> holder' = d
    BY <1>0, <1>2, <2>3 DEF Joins, Serialized, Working
  <2>5. \A d \in Callers : phase'[d] = "queued" <=> \E i \in 1..Len(waiters') : waiters'[i] = d
    <3> SUFFICES ASSUME NEW d \in Callers
                 PROVE  phase'[d] = "queued" <=> \E i \in 1..Len(waiters') : waiters'[i] = d
      OBVIOUS
    <3>1. CASE d = c
      BY <2>1, <2>2, <2>3, <3>1
    <3>2. CASE d # c
      BY <1>0, <2>1, <2>2, <2>3, <3>2 DEF Serialized
    <3> QED
      BY <3>1, <3>2
  <2>6. \A i, j \in 1..Len(waiters') : waiters'[i] = waiters'[j] => i = j
    BY <1>0, <2>1, <2>2 DEF Serialized
  <2> QED
    BY <2>4, <2>5, <2>6 DEF Serialized
<1>3. ASSUME NEW c \in Callers, Enters(c) PROVE Serialized'
  <2>1. /\ waiters \in Seq(Callers)
        /\ Len(waiters) \in Nat \ {0}
        /\ waiters[1] = c
        /\ Len(waiters') = Len(waiters) - 1
        /\ \A i \in 1..Len(waiters) - 1 : waiters'[i] = waiters[i + 1]
    BY <1>0, <1>3 DEF Enters, TypeOK
  <2>2. phase[c] = "queued"
    BY <1>0, <2>1 DEF Serialized
  <2>3. \A d \in Callers : phase'[d] = IF d = c THEN "trying" ELSE phase[d]
    BY <1>0, <1>3 DEF Enters, TypeOK
  <2>4. \A d \in Callers : phase'[d] \in Working <=> holder' = d
    BY <1>0, <1>3, <2>3 DEF Enters, Serialized, Working
  <2>5. \A d \in Callers : phase'[d] = "queued" <=> \E i \in 1..Len(waiters') : waiters'[i] = d
    <3> SUFFICES ASSUME NEW d \in Callers
                 PROVE  phase'[d] = "queued" <=> \E i \in 1..Len(waiters') : waiters'[i] = d
      OBVIOUS
    <3>1. CASE d = c
      <4>1. \A i \in 1..Len(waiters') : waiters'[i] # c
        BY <1>0, <2>1 DEF Serialized
      <4> QED
        BY <2>3, <3>1, <4>1
    <3>2. CASE d # c
      <4>1. ASSUME NEW i \in 1..Len(waiters), waiters[i] = d
            PROVE  \E k \in 1..Len(waiters') : waiters'[k] = d
        <5>1. i # 1
          BY <2>1, <3>2, <4>1
        <5>2. i - 1 \in 1..Len(waiters) - 1 /\ (i - 1) + 1 = i
          BY <2>1, <5>1
        <5> QED
          BY <2>1, <4>1, <5>2
      <4>2. ASSUME NEW i \in 1..Len(waiters'), waiters'[i] = d
            PROVE  \E k \in 1..Len(waiters) : waiters[k] = d
        BY <2>1, <4>2
      <4> QED
        BY <1>0, <2>3, <3>2, <4>1, <4>2 DEF Serialized
    <3> QED
      BY <3>1, <3>2
  <2>6. \A i, j \in 1..Len(waiters') : waiters'[i] = waiters'[j] => i = j
    <3> SUFFICES ASSUME NEW i \in 1..Len(waiters'), NEW j \in 1..Len(waiters'),
                        waiters'[i] = waiters'[j]
                 PROVE  i = j
      OBVIOUS
    <3>1. /\ i + 1 \in 1..Len(waiters) /\ j + 1 \in 1..Len(waiters)
          /\ waiters[i + 1] = waiters[j + 1]
      BY <2>1
    <3>2. i + 1 = j + 1
      BY <1>0, <3>1 DEF Serialized
    <3> QED
      BY <2>1, <3>2
  <2> QED
    BY <2>4, <2>5, <2>6 DEF Serialized
<1>4. ASSUME NEW c \in Callers, Leaves(c) PROVE Serialized'
  <2>1. holder = c
    BY <1>0, <1>4 DEF Leaves, Serialized
  <2>2. \A d \in Callers : phase'[d] = IF d = c THEN "idle" ELSE phase[d]
    BY <1>0, <1>4 DEF Leaves, TypeOK
  <2>3. phase[c] # "queued"
    BY <1>4 DEF Leaves, Working
  <2> QED
    BY <1>0, <1>4, <2>1, <2>2, <2>3 DEF Leaves, Serialized, Working
<1>5. ASSUME NEW c \in Callers, Quits(c) PROVE Serialized'
  <2>1. PICK k \in 1..Len(waiters) : waiters[k] = c /\ waiters' = Without(waiters, k)
    BY <1>5 DEF Quits
  <2>2. /\ waiters \in Seq(Callers)
        /\ Len(waiters) \in Nat
        /\ Len(waiters') = Len(waiters) - 1
        /\ \A j \in 1..Len(waiters) - 1 :
             waiters'[j] = IF j < k THEN waiters[j] ELSE waiters[j + 1]
    <3>1. waiters \in Seq(Callers)
      BY <1>0 DEF TypeOK
    <3>2. /\ Len(Without(waiters, k)) = Len(waiters) - 1
          /\ \A j \in 1..Len(waiters) - 1 :
               Without(waiters, k)[j] = IF j < k THEN waiters[j] ELSE waiters[j + 1]
      BY <3>1, WithoutProperties
    <3> QED
      BY <2>1, <3>1, <3>2
  <2>3. \A d \in Callers : phase'[d] = IF d = c THEN "idle" ELSE phase[d]
    BY <1>0, <1>5 DEF Quits, TypeOK
  <2>4. \A d \in Callers : phase'[d] \in Working <=> holder' = d
    BY <1>0, <1>5, <2>3 DEF Quits, Serialized, Working
  <2>5. \A d \in Callers : phase'[d] = "queued" <=> \E i \in 1..Len(waiters') : waiters'[i] = d
    <3> SUFFICES ASSUME NEW d \in Callers
                 PROVE  phase'[d] = "queued" <=> \E i \in 1..Len(waiters') : waiters'[i] = d
      OBVIOUS
    <3>1. CASE d = c
      <4>1. \A j \in 1..Len(waiters') : waiters'[j] # c
        BY <1>0, <2>1, <2>2 DEF Serialized
      <4> QED
        BY <2>3, <3>1, <4>1
    <3>2. CASE d # c
      <4>1. ASSUME NEW i \in 1..Len(waiters), waiters[i] = d
            PROVE  \E j \in 1..Len(waiters') : waiters'[j] = d
        <5>1. i # k
          BY <2>1, <3>2, <4>1
        <5>2. CASE i < k
          BY <2>2, <4>1, <5>2
        <5>3. CASE i > k
          <6>1. i - 1 \in 1..Len(waiters) - 1 /\ (i - 1) + 1 = i /\ ~ (i - 1 < k)
            BY <2>2, <5>3
          <6> QED
            BY <2>2, <4>1, <6>1
        <5> QED
          BY <5>1, <5>2, <5>3
      <4>2. ASSUME NEW j \in 1..Len(waiters'), waiters'[j] = d
            PROVE  \E i \in 1..Len(waiters) : waiters[i] = d
        BY <2>2, <4>2
      <4> QED
        BY <1>0, <2>3, <3>2, <4>1, <4>2 DEF Serialized
    <3> QED
      BY <3>1, <3>2
  <2>6. \A i, j \in 1..Len(waiters') : waiters'[i] = waiters'[j] => i = j
    BY <1>0, <2>1, <2>2 DEF Serialized
  <2> QED
    BY <2>4, <2>5, <2>6 DEF Serialized
<1>6. ASSUME NEW c \in Callers, Refused(c) PROVE Serialized'
  BY <1>0, <1>6 DEF Refused, Serialized
<1> QED
  BY <1>0, <1>1, <1>2, <1>3, <1>4, <1>5, <1>6, LockSteps
(* A queued request has a chain to try, and keeps it. *)
LEMMA ChainsStep == Inv /\ [Next]_vars => ChainsNonEmpty'
<1> SUFFICES ASSUME Inv, [Next]_vars PROVE ChainsNonEmpty'
  OBVIOUS
<1>0. TypeOK /\ ChainsNonEmpty
  BY DEF Inv
<1>1. CASE UNCHANGED vars
  BY <1>0, <1>1 DEF vars, callVars, ChainsNonEmpty
<1>2. CASE Tick
  BY <1>0, <1>2 DEF Tick, ChainsNonEmpty
<1>3. ASSUME NEW c \in Callers, NoCandidates(c) PROVE ChainsNonEmpty'
  BY <1>0, <1>3 DEF NoCandidates, ChainsNonEmpty, TypeOK
<1>4. ASSUME NEW c \in Callers, Enqueue(c) PROVE ChainsNonEmpty'
  BY <1>0, <1>4 DEF Enqueue, ChainsNonEmpty, TypeOK
<1>5. ASSUME NEW c \in Callers, phase[c] # "idle", UNCHANGED job,
             \E p \in Phases : phase' = [phase EXCEPT ![c] = p]
      PROVE  ChainsNonEmpty'
  BY <1>0, <1>5 DEF ChainsNonEmpty, TypeOK
<1>6. ASSUME NEW c \in Callers, NEW o, Return(c, o) PROVE ChainsNonEmpty'
  BY <1>0, <1>6 DEF Return, ChainsNonEmpty, TypeOK
<1>7. ASSUME NEW c \in Callers, Acquire(c) PROVE ChainsNonEmpty'
  <2>1. 1 \in 1..Len(waiters) /\ waiters[1] = c
    BY <1>0, <1>7 DEF Acquire, TypeOK
  <2>2. phase[c] = "queued"
    BY <2>1 DEF Inv, Serialized
  <2> QED
    BY <1>5, <1>7, <2>2 DEF Acquire, Phases, Working
<1>8. ASSUME NEW c \in Callers, phase[c] \in Working, Advance(c) PROVE ChainsNonEmpty'
  BY <1>5, <1>8 DEF Advance, TryNext, Exhausted, Phases, Working
<1>9. ASSUME NEW c \in Callers, TryCandidate(c) PROVE ChainsNonEmpty'
  BY <1>5, <1>8, <1>9 DEF TryCandidate, SkipCooling, SkipPreflight, Call, Start, Phases, Working
<1>10. ASSUME NEW c \in Callers,
              Fail(c) \/ MalformedAgain(c) \/ Closed(c) \/ OuterDeadline(c)
       PROVE  ChainsNonEmpty'
  BY <1>8, <1>10
  DEF Fail, MalformedAgain, Closed, OuterDeadline, FailAttempt, OnCall, Working
<1>11. ASSUME NEW c \in Callers, Retry(c) PROVE ChainsNonEmpty'
  BY <1>0, <1>11 DEF Retry, ChainsNonEmpty
<1>12. ASSUME NEW c \in Callers, InnerDeadline(c) PROVE ChainsNonEmpty'
  BY <1>5, <1>12 DEF InnerDeadline, Phases, Working
<1> QED
  BY <1>1, <1>2, <1>3, <1>4, <1>6, <1>7, <1>9, <1>10, <1>11, <1>12
  DEF Next, Succeed, Drop, CancelQueued, CancelCall

(* The inductive invariant: the types need the lock, since a candidate is
   read off the chain of whoever the lock lets in. *)
THEOREM Invariance == SafeSpec => []Inv
<1>1. Inv /\ [Next]_vars => Inv'
  BY TypeStep, SerializedStep, ChainsStep DEF Inv
<1> QED
  BY InitInv, <1>1, PTL DEF SafeSpec

(* The types of the variables, and that a candidate being tried is one of
   its chain. *)
THEOREM TypeCorrect == SafeSpec => []TypeOK
<1>1. Inv => TypeOK
  BY DEF Inv
<1> QED
  BY <1>1, Invariance, PTL

(* Whatever the number of callers and however they are cancelled, at most
   one of them is past the lock and the others stand in line once. *)
THEOREM OneChainAtATime == SafeSpec => []Serialized
<1>1. Inv => Serialized
  BY DEF Inv
<1> QED
  BY <1>1, Invariance, PTL

(* Whoever is past the lock is there alone. *)
LEMMA OnlyOneWorks ==
  ASSUME Serialized, NEW c \in Callers, NEW d \in Callers,
         phase[c] \in Working, phase[d] \in Working
  PROVE  c = d
  BY DEF Serialized

-----------------------------------------------------------------------------
(***************************************************************************)
(* The failure memory.                                                     *)
(***************************************************************************)
CoolInv == CountWithinThreshold /\ NoCallDuringCooldown

WithinThreshold(h) ==
  /\ h.fails <= Threshold
  /\ h.fails = Threshold <=> h.left # NoExpiry
  /\ h.left <= Cooldown

(* What each of the store's operations makes of one record. *)
LEMMA RecordSteps ==
  ASSUME NEW h \in Health, WithinThreshold(h)
  PROVE  /\ WithinThreshold(Healthy)
         /\ Healthy.left = NoExpiry
         /\ ~ InCooldown(h) => WithinThreshold(AfterCheck(h)) /\ AfterCheck(h).left = NoExpiry
         /\ h.left = NoExpiry => WithinThreshold(AfterFailure(h))
         /\ WithinThreshold([h EXCEPT !.left = Less(@)])
         /\ h.left = NoExpiry => Less(h.left) = NoExpiry
<1>0. h.fails \in Nat /\ h.left \in Nat \cup {NoExpiry}
  BY DEF Health
<1>1. WithinThreshold(Healthy) /\ Healthy.left = NoExpiry
  BY TimesAssumption DEF WithinThreshold, Healthy, NoExpiry
<1>2. ~ InCooldown(h) => WithinThreshold(AfterCheck(h)) /\ AfterCheck(h).left = NoExpiry
  BY <1>0, <1>1 DEF InCooldown, AfterCheck, NoExpiry
<1>3. h.left = NoExpiry => WithinThreshold(AfterFailure(h))
  BY <1>0, TimesAssumption DEF WithinThreshold, AfterFailure, NoExpiry
<1>4. Less(h.left) <= Cooldown /\ (Less(h.left) = NoExpiry <=> h.left = NoExpiry)
  BY <1>0, TimesAssumption DEF WithinThreshold, Less, NoExpiry
<1>5. [h EXCEPT !.left = Less(@)] = [fails |-> h.fails, left |-> Less(h.left)]
  BY DEF Health
<1>6. WithinThreshold([h EXCEPT !.left = Less(@)])
  BY <1>4, <1>5 DEF WithinThreshold
<1> QED
  BY <1>1, <1>2, <1>3, <1>4, <1>6

(* The step of one request that rewrites one record, on which nobody is
   being called afterwards unless its cooldown is over. *)
LEMMA CoolUpdate ==
  ASSUME TypeOK, Serialized, CoolInv, NEW c \in Callers, phase[c] \in Working,
         NEW h, WithinThreshold(h), health' = [health EXCEPT ![bucket(c)] = h],
         \A d \in Callers \ {c} : phase'[d] = phase[d],
         phase'[c] \in OnCall =>
           bucket(c)' = bucket(c) /\ h.left = NoExpiry
  PROVE  CoolInv'
<1>1. bucket(c) \in Buckets
  BY BucketType
<1>2. \A b \in Buckets : health'[b] = IF b = bucket(c) THEN h ELSE health[b]
  BY <1>1 DEF TypeOK
<1>3. CountWithinThreshold'
  BY <1>2 DEF CoolInv, CountWithinThreshold, WithinThreshold
<1>4. NoCallDuringCooldown'
  <2> SUFFICES ASSUME NEW d \in Callers, phase'[d] \in OnCall
               PROVE  (health[bucket(d)].left)' = NoExpiry
    BY DEF NoCallDuringCooldown
  <2>1. d = c
    BY OnlyOneWorks DEF OnCall, Working
  <2> QED
    BY <1>1, <1>2, <2>1
<1> QED
  BY <1>3, <1>4 DEF CoolInv
(* Every step preserves the bounds of counts and cooldowns. *)
LEMMA CoolStep == Inv /\ CoolInv /\ [Next]_vars => CoolInv'
<1> SUFFICES ASSUME Inv, CoolInv, [Next]_vars PROVE CoolInv'
  OBVIOUS
<1>0. TypeOK /\ Serialized
  BY DEF Inv
<1>a. \A b \in Buckets : health[b] \in Health /\ WithinThreshold(health[b])
  BY <1>0 DEF TypeOK, CoolInv, CountWithinThreshold, WithinThreshold
<1>b. ASSUME NEW c \in Callers, phase[c] \in Working
      PROVE  /\ bucket(c) \in Buckets
             /\ health[bucket(c)] \in Health
             /\ WithinThreshold(health[bucket(c)])
             /\ phase[c] \in OnCall => health[bucket(c)].left = NoExpiry
  BY <1>0, <1>a, <1>b, BucketType DEF CoolInv, NoCallDuringCooldown
<1>c. WithinThreshold(Healthy)
  BY <1>0, <1>a, TimesAssumption DEF WithinThreshold, Healthy, NoExpiry
(* Steps that change no record and begin no call. *)
<1>1. ASSUME UNCHANGED health,
             \A c \in Callers : phase'[c] \in OnCall =>
               phase[c] \in OnCall /\ UNCHANGED <<job[c], attempt[c].pos>>
      PROVE  CoolInv'
  <2>1. CountWithinThreshold'
    BY <1>1 DEF CoolInv, CountWithinThreshold
  <2>2. NoCallDuringCooldown'
    BY <1>1 DEF CoolInv, NoCallDuringCooldown, bucket, candidate
  <2> QED
    BY <2>1, <2>2 DEF CoolInv
<1>2. CASE UNCHANGED vars
  BY <1>1, <1>2 DEF vars, callVars
<1>3. CASE Tick
  <2>1. \A b \in Buckets : health'[b] = [health[b] EXCEPT !.left = Less(@)]
    BY <1>3 DEF Tick
  <2>2. CountWithinThreshold'
    <3>1. ASSUME NEW b \in Buckets PROVE WithinThreshold(health'[b])
      BY <1>a, <2>1, RecordSteps
    <3> QED
      BY <3>1 DEF CountWithinThreshold, WithinThreshold
  <2>3. \A c \in Callers : job'[c] = job[c] /\ phase'[c] = phase[c] /\ attempt'[c].pos = attempt[c].pos
    BY <1>0, <1>3 DEF Tick, TypeOK, Attempts
  <2>4. \A c \in Callers : bucket(c)' = bucket(c)
    BY <2>3 DEF bucket, candidate
  <2>5. NoCallDuringCooldown'
    <3> SUFFICES ASSUME NEW c \in Callers, phase[c] \in OnCall
                 PROVE  (health[bucket(c)].left)' = NoExpiry
      BY <2>3 DEF NoCallDuringCooldown
    <3>1. phase[c] \in Working
      BY DEF OnCall, Working
    <3>2. health'[bucket(c)].left = Less(health[bucket(c)].left)
      BY <1>b, <2>1, <3>1 DEF Health
    <3> QED
      BY <1>b, <2>4, <3>1, <3>2, RecordSteps
  <2> QED
    BY <2>2, <2>5 DEF CoolInv
<1>4. ASSUME NEW c \in Callers, NoCandidates(c) PROVE CoolInv'
  BY <1>0, <1>1, <1>4 DEF NoCandidates, OnCall, TypeOK
<1>5. ASSUME NEW c \in Callers, Enqueue(c) PROVE CoolInv'
  BY <1>0, <1>1, <1>5 DEF Enqueue, OnCall, TypeOK
<1>6. ASSUME NEW c \in Callers, Acquire(c) PROVE CoolInv'
  BY <1>0, <1>1, <1>6 DEF Acquire, OnCall, TypeOK
<1>7. ASSUME NEW c \in Callers, CancelQueued(c) PROVE CoolInv'
  BY <1>0, <1>1, <1>7 DEF CancelQueued, Return, OnCall, TypeOK
<1>8. ASSUME NEW c \in Callers, Drop(c) PROVE CoolInv'
  BY <1>0, <1>1, <1>8 DEF Drop, Return, OnCall, TypeOK
<1>9. ASSUME NEW c \in Callers, Retry(c) PROVE CoolInv'
  <2>1. \A d \in Callers : attempt'[d].pos = attempt[d].pos
    BY <1>0, <1>9 DEF Retry, TypeOK, Attempts
  <2> QED
    BY <1>1, <1>9, <2>1 DEF Retry
<1>10. ASSUME NEW c \in Callers, InnerDeadline(c) PROVE CoolInv'
  BY <1>0, <1>1, <1>10 DEF InnerDeadline, OnCall, TypeOK
(* The end of an attempt begins no call. *)
<1>11. ASSUME NEW c \in Callers, Advance(c)
       PROVE  /\ \A d \in Callers \ {c} : phase'[d] = phase[d] /\ UNCHANGED <<job[d], attempt[d]>>
              /\ phase'[c] \notin OnCall
  BY <1>0, <1>11 DEF Advance, TryNext, Exhausted, OnCall, TypeOK
<1>12. ASSUME NEW c \in Callers, SkipCooling(c) PROVE CoolInv'
  BY <1>1, <1>11, <1>12 DEF SkipCooling
<1>13. ASSUME NEW c \in Callers, SkipPreflight(c) PROVE CoolInv'
  <2>1. phase[c] \in Working
    BY <1>13 DEF SkipPreflight, Start, Working
  <2>2. /\ health' = [health EXCEPT ![bucket(c)] = AfterCheck(health[bucket(c)])]
        /\ ~ InCooldown(health[bucket(c)])
    BY <1>13 DEF SkipPreflight
  <2> QED
    BY <1>0, <1>b, <1>11, <1>13, <2>1, <2>2, RecordSteps, CoolUpdate DEF SkipPreflight
<1>14. ASSUME NEW c \in Callers, Call(c) PROVE CoolInv'
  <2>1. phase[c] \in Working /\ \A d \in Callers \ {c} : phase'[d] = phase[d]
    BY <1>0, <1>14 DEF Call, Start, Working, TypeOK
  <2>2. /\ health' = [health EXCEPT ![bucket(c)] = AfterCheck(health[bucket(c)])]
        /\ ~ InCooldown(health[bucket(c)])
    BY <1>14 DEF Call
  <2>3. bucket(c)' = bucket(c)
    BY <1>0, <1>14 DEF Call, bucket, candidate, TypeOK, Attempts
  <2> QED
    BY <1>0, <1>b, <2>1, <2>2, <2>3, RecordSteps, CoolUpdate
<1>15. ASSUME NEW c \in Callers, phase[c] \in OnCall, RecordFailure(c),
              \A d \in Callers \ {c} : phase'[d] = phase[d],
              phase'[c] \notin OnCall
       PROVE  CoolInv'
  <2>1. phase[c] \in Working
    BY <1>15 DEF OnCall, Working
  <2>2. health' = [health EXCEPT ![bucket(c)] = AfterFailure(health[bucket(c)])]
    BY <1>15 DEF RecordFailure
  <2>3. WithinThreshold(AfterFailure(health[bucket(c)]))
    BY <1>b, <1>15, <2>1, RecordSteps
  <2> QED
    BY <1>0, <1>15, <2>1, <2>2, <2>3, CoolUpdate
<1>16. ASSUME NEW c \in Callers, NEW e, phase[c] \in OnCall, FailAttempt(c, e) PROVE CoolInv'
  BY <1>11, <1>15, <1>16 DEF FailAttempt
<1>17. ASSUME NEW c \in Callers, CancelCall(c) PROVE CoolInv'
  BY <1>0, <1>15, <1>17 DEF CancelCall, Return, OnCall, TypeOK
<1>18. ASSUME NEW c \in Callers, Succeed(c) PROVE CoolInv'
  <2>1. phase[c] \in Working
    BY <1>18 DEF Succeed, Working
  <2>2. \A d \in Callers \ {c} : phase'[d] = phase[d]
    BY <1>0, <1>18 DEF Succeed, Return, TypeOK
  <2>3. phase'[c] \notin OnCall /\ health' = [health EXCEPT ![bucket(c)] = Healthy]
    BY <1>0, <1>18 DEF Succeed, Return, OnCall, TypeOK
  <2> QED
    BY <1>0, <1>c, <2>1, <2>2, <2>3, CoolUpdate
<1> QED
  BY <1>2, <1>3, <1>4, <1>5, <1>6, <1>7, <1>8, <1>9, <1>10, <1>12, <1>13, <1>14, <1>16,
     <1>17, <1>18
  DEF Next, TryCandidate, Fail, MalformedAgain, Closed, OuterDeadline, OnCall

(* The bounds hold of every behaviour. *)
LEMMA CoolInvariance == SafeSpec => []CoolInv
<1>1. Init => CoolInv
  BY TimesAssumption
  DEF Init, CoolInv, CountWithinThreshold, NoCallDuringCooldown, Healthy, NoExpiry, OnCall
<1>2. Inv /\ CoolInv /\ [Next]_vars => CoolInv'
  BY CoolStep
<1> QED
  BY <1>1, <1>2, Invariance, PTL DEF SafeSpec

(* For every threshold and any interleaving of requests, a count passes the
   threshold never, and reaches it exactly when a cooldown begins.  It rests
   on the lock: the check that precedes a call and the failure that follows
   it are those of one request, with no other in between. *)
THEOREM CountsStayWithinThreshold == SafeSpec => []CountWithinThreshold
<1>1. CoolInv => CountWithinThreshold
  BY DEF CoolInv
<1> QED
  BY <1>1, CoolInvariance, PTL

(* Nor is a candidate in cooldown ever being called. *)
THEOREM CooldownsAreRespected == SafeSpec => []NoCallDuringCooldown
<1>1. CoolInv => NoCallDuringCooldown
  BY DEF CoolInv
<1> QED
  BY <1>1, CoolInvariance, PTL
-----------------------------------------------------------------------------
(***************************************************************************)
(* What no step may do.                                                    *)
(***************************************************************************)

(* The lock is held from a chain's first candidate to the request's outcome,
   for any chains and whatever becomes of the candidates. *)
THEOREM LockSpansTheChain == SafeSpec => HeldToTheOutcome
<1>1. ASSUME Inv, [Next]_vars, NEW c \in Callers, holder = c, holder' # c
      PROVE  holder' = NoCaller /\ phase'[c] = "idle" /\ answer'[c] # "none"
  <2>1. TypeOK /\ phase[c] \in Working
    BY <1>1 DEF Inv, Serialized
  <2>2. PICK d \in Callers : Enters(d) \/ Leaves(d)
    BY <1>1, <2>1, LockSteps DEF SameStanding, Refused, Joins, Quits
  <2>3. Leaves(d)
    BY <1>1, <2>2, CallersAssumption DEF Enters
  <2>4. d = c
    BY <1>1, <2>1, <2>3, OnlyOneWorks DEF Inv, Leaves
  <2> QED
    BY <2>1, <2>3, <2>4 DEF Leaves, TypeOK
<1>2. Inv /\ [Next]_vars =>
        [\A c \in Callers : holder = c /\ holder' # c
           => holder' = NoCaller /\ phase'[c] = "idle" /\ answer'[c] # "none"]_vars
  BY <1>1
<1> QED
  BY <1>2, Invariance, PTL DEF SafeSpec, HeldToTheOutcome

(* The delegate path is a queue that serves one request at a time, in the
   order of arrival, for any number of callers: the safety part of
   ImplementsSerialQueue.  (Its fairness is checked by TLC only.) *)
THEOREM ChainImplementsSerialQueue == SafeSpec => Abstract!SafeSpec
<1>1. Init => Abstract!Init
  BY DEF Init, Abstract!Init
<1>2. Inv /\ [Next]_vars => [Abstract!Next]_(Abstract!vars)
  <2> SUFFICES ASSUME Inv, [Next]_vars PROVE Abstract!Next \/ UNCHANGED Abstract!vars
    OBVIOUS
  <2>0. TypeOK /\ Serialized
    BY DEF Inv
  <2>1. CASE SameStanding
    BY <2>1 DEF SameStanding, Abstract!vars
  <2>2. ASSUME NEW c \in Callers, phase[c] = "idle" PROVE Abstract!Absent(c)
    BY <2>0, <2>2 DEF Serialized, Working, Abstract!Absent, Abstract!Queued
  <2>3. ASSUME NEW c \in Callers, Refused(c) PROVE Abstract!Refuse(c)
    BY <2>2, <2>3 DEF Refused, Abstract!Refuse
  <2>4. ASSUME NEW c \in Callers, Joins(c) PROVE Abstract!Arrive(c)
    BY <2>2, <2>4 DEF Joins, Abstract!Arrive
  <2>5. ASSUME NEW c \in Callers, Enters(c) PROVE Abstract!Start(c)
    BY <2>5 DEF Enters, Abstract!Start
  <2>6. ASSUME NEW c \in Callers, Leaves(c) PROVE Abstract!Finish(c)
    BY <2>0, <2>6 DEF Leaves, Serialized, Abstract!Finish
  <2>7. ASSUME NEW c \in Callers, Quits(c) PROVE Abstract!Withdraw(c)
    BY <2>7 DEF Quits, Without, Abstract!Withdraw, Abstract!Without
  <2> QED
    BY <2>0, <2>1, <2>3, <2>4, <2>5, <2>6, <2>7, LockSteps DEF Abstract!Next
<1> QED
  BY <1>1, <1>2, Invariance, PTL DEF SafeSpec, Abstract!SafeSpec

-----------------------------------------------------------------------------
(***************************************************************************)
(* The two lists that an exhausted chain reports.                          *)
(***************************************************************************)

(* What has been tried is a prefix of the chain, and the records are those  *)
(* of a prefix of what has been tried.                                     *)
Listed(chain, tried, given) ==
  /\ Len(tried) <= Len(chain)
  /\ \A i \in 1..Len(tried) : tried[i] = chain[i]
  /\ Len(given) <= Len(tried)
  /\ \A i \in 1..Len(given) : given[i].candidate = tried[i]

(* How long the two are at each place. *)
Accounted(c) ==
  /\ Listed(job[c].chain, attempted[c], skips[c])
  /\ phase[c] = "queued" => Len(attempted[c]) = 0
  /\ phase[c] = "trying" => Len(attempted[c]) = attempt[c].pos - 1 /\ Len(skips[c]) = Len(attempted[c])
  /\ phase[c] \in OnCall => Len(attempted[c]) = attempt[c].pos /\ Len(skips[c]) = Len(attempted[c]) - 1
  /\ phase[c] # "idle" => answer[c] # "exhausted"
  /\ answer[c] = "exhausted" =>
       Len(attempted[c]) = Len(job[c].chain) /\ Len(skips[c]) = Len(attempted[c])

AccountInv == \A c \in Callers : Accounted(c)

(* A candidate that is tried is the next of the chain. *)
LEMMA TriedNext ==
  ASSUME NEW chain \in Seq(Candidates), NEW tried \in Seq(Candidates), NEW given \in Seq(Skips),
         Listed(chain, tried, given), Len(tried) < Len(chain),
         NEW x \in Candidates, x = chain[Len(tried) + 1]
  PROVE  Listed(chain, Append(tried, x), given) /\ Len(Append(tried, x)) = Len(tried) + 1
<1>1. /\ Len(Append(tried, x)) = Len(tried) + 1
      /\ \A i \in 1..Len(tried) : Append(tried, x)[i] = tried[i]
      /\ Append(tried, x)[Len(tried) + 1] = x
  OBVIOUS
<1>2. Len(tried) \in Nat /\ Len(given) \in Nat /\ Len(chain) \in Nat
  OBVIOUS
<1> HIDE DEF Listed
<1> DEFINE more == Append(tried, x)
<1>3. Len(more) = Len(tried) + 1 /\ more[Len(tried) + 1] = x
      /\ \A i \in 1..Len(tried) : more[i] = tried[i]
  BY <1>1
<1> HIDE DEF more
<1>4. Listed(chain, more, given)
  BY <1>2, <1>3 DEF Listed
<1> QED
  BY <1>3, <1>4 DEF more

(* A candidate given up is the one tried last. *)
LEMMA GivenUp ==
  ASSUME NEW chain \in Seq(Candidates), NEW tried \in Seq(Candidates), NEW given \in Seq(Skips),
         Listed(chain, tried, given), Len(given) < Len(tried),
         NEW e \in Skips, e.candidate = tried[Len(given) + 1]
  PROVE  Listed(chain, tried, Append(given, e)) /\ Len(Append(given, e)) = Len(given) + 1
<1>1. /\ Len(Append(given, e)) = Len(given) + 1
      /\ \A i \in 1..Len(given) : Append(given, e)[i] = given[i]
      /\ Append(given, e)[Len(given) + 1] = e
  OBVIOUS
<1>2. Len(tried) \in Nat /\ Len(given) \in Nat
  OBVIOUS
<1> DEFINE more == Append(given, e)
<1>3. Len(more) = Len(given) + 1 /\ more[Len(given) + 1] = e
      /\ \A i \in 1..Len(given) : more[i] = given[i]
  BY <1>1
<1> HIDE DEF more
<1>4. Listed(chain, tried, more)
  BY <1>2, <1>3 DEF Listed
<1> QED
  BY <1>3, <1>4 DEF more

(* A request that a step leaves alone. *)
LEMMA StaysAccounted ==
  ASSUME NEW c \in Callers, Accounted(c),
         UNCHANGED <<phase[c], answer[c], job[c], attempt[c].pos, attempted[c], skips[c]>>
  PROVE  Accounted(c)'
  BY DEF Accounted

(* A request with nothing to account for. *)
LEMMA NothingToAccount ==
  ASSUME NEW c \in Callers, job'[c] \in Jobs, attempted'[c] = <<>>, skips'[c] = <<>>,
         phase'[c] \in {"idle", "queued"}, answer'[c] # "exhausted"
  PROVE  Accounted(c)'
<1>1. Len(attempted'[c]) = 0 /\ Len(skips'[c]) = 0 /\ Len(job'[c].chain) \in Nat
  BY DEF Jobs
<1> QED
  BY <1>1 DEF Accounted, Listed, OnCall

(* The end of an attempt, when all that were tried have their record. *)
LEMMA AdvanceAccounts ==
  ASSUME TypeOK, NEW c \in Callers, phase[c] \in Working, answer[c] # "exhausted", Advance(c),
         Listed(job[c].chain, attempted'[c], skips'[c]),
         Len(attempted'[c]) = attempt[c].pos, Len(skips'[c]) = attempt[c].pos
  PROVE  /\ Accounted(c)'
         /\ \A d \in Callers \ {c} :
              UNCHANGED <<phase[d], answer[d], job[d], attempt[d].pos>>
<1>1. attempt[c].pos \in 1..Len(job[c].chain) /\ Len(job[c].chain) \in Nat
  BY DEF TypeOK, Jobs
<1>2. job' = job
  BY DEF Advance
<1>3. CASE attempt[c].pos < Len(job[c].chain) /\ TryNext(c)
  <2>1. phase'[c] = "trying" /\ answer'[c] = answer[c]
    BY <1>3 DEF TryNext, TypeOK
  <2>2. attempt'[c].pos = attempt[c].pos + 1
    BY <1>3 DEF TryNext, TypeOK, NoAttempt
  <2>3. Accounted(c)'
    BY <1>1, <1>2, <2>1, <2>2 DEF Accounted, OnCall
  <2> QED
    BY <1>2, <1>3, <2>3 DEF TryNext, TypeOK
<1>4. CASE ~ (attempt[c].pos < Len(job[c].chain)) /\ Exhausted(c)
  <2>1. phase'[c] = "idle" /\ answer'[c] = "exhausted"
    BY <1>4 DEF Exhausted, TypeOK
  <2>2. attempt[c].pos = Len(job[c].chain)
    BY <1>1, <1>4
  <2>3. Accounted(c)'
    BY <1>1, <1>2, <2>1, <2>2 DEF Accounted, OnCall
  <2> QED
    BY <1>2, <1>4, <2>3 DEF Exhausted, TypeOK
<1> QED
  BY <1>3, <1>4 DEF Advance

(* Skipped before a call: tried and given up in one step. *)
LEMMA SkipAccounts ==
  ASSUME Inv, AccountInv, NEW c \in Callers, NEW e \in Errors, Start(c), Skip(c, e), Advance(c)
  PROVE  AccountInv'
<1>1. TypeOK /\ Accounted(c) /\ phase[c] = "trying" /\ phase[c] \in Working
  BY DEF Inv, AccountInv, Start, Working
<1> DEFINE chain == job[c].chain
           x == candidate(c)
           s == [candidate |-> x, error |-> e]
<1>2. /\ chain \in Seq(Candidates) /\ attempted[c] \in Seq(Candidates) /\ skips[c] \in Seq(Skips)
      /\ attempt[c].pos \in 1..Len(chain) /\ attempt[c].pos \in Nat
  BY <1>1 DEF TypeOK, Jobs, Attempts
<1>3. x \in Candidates /\ x = chain[attempt[c].pos] /\ s \in Skips
  BY <1>1, BucketType DEF candidate, Skips
<1>4. attempted' = [attempted EXCEPT ![c] = Append(attempted[c], x)]
      /\ skips' = [skips EXCEPT ![c] = Append(skips[c], s)]
  BY DEF Start, Skip
<1>5. attempted'[c] = Append(attempted[c], x) /\ skips'[c] = Append(skips[c], s)
      /\ \A d \in Callers \ {c} : attempted'[d] = attempted[d] /\ skips'[d] = skips[d]
  BY <1>1, <1>4 DEF TypeOK
<1>6. /\ Len(attempted[c]) = attempt[c].pos - 1 /\ Len(skips[c]) = Len(attempted[c])
      /\ Listed(chain, attempted[c], skips[c]) /\ answer[c] # "exhausted"
  BY <1>1 DEF Accounted
<1>7. Len(attempted[c]) < Len(chain) /\ x = chain[Len(attempted[c]) + 1]
  BY <1>2, <1>3, <1>6
<1> HIDE DEF chain, x, s
<1>8. Listed(chain, Append(attempted[c], x), skips[c])
      /\ Len(Append(attempted[c], x)) = attempt[c].pos
      /\ Append(attempted[c], x) \in Seq(Candidates)
  <2>1. Listed(chain, attempted[c], skips[c]) /\ Len(attempted[c]) = attempt[c].pos - 1
    BY <1>6
  <2>2. /\ Listed(chain, Append(attempted[c], x), skips[c])
        /\ Len(Append(attempted[c], x)) = Len(attempted[c]) + 1
    BY <1>2, <1>3, <1>7, <2>1, TriedNext
  <2>3. Append(attempted[c], x) \in Seq(Candidates)
    BY <1>2, <1>3
  <2> QED
    BY <1>2, <2>1, <2>2, <2>3
<1>9. s.candidate = Append(attempted[c], x)[Len(skips[c]) + 1]
  <2>1. s.candidate = x
    BY DEF s
  <2> QED
    BY <1>2, <1>3, <1>6, <2>1
<1>10. Listed(chain, attempted'[c], skips'[c]) /\ Len(skips'[c]) = attempt[c].pos
  <2> DEFINE more == Append(attempted[c], x)
  <2>1. /\ Len(skips[c]) < Len(more) /\ more \in Seq(Candidates)
        /\ s.candidate = more[Len(skips[c]) + 1] /\ Listed(chain, more, skips[c])
    BY <1>2, <1>6, <1>8, <1>9
  <2> HIDE DEF more
  <2>2. Listed(chain, more, Append(skips[c], s)) /\ Len(Append(skips[c], s)) = Len(skips[c]) + 1
    BY <1>2, <1>3, <2>1, GivenUp
  <2> QED
    BY <1>2, <1>5, <1>6, <2>2 DEF more
<1>11. Accounted(c)' /\ \A d \in Callers \ {c} :
          UNCHANGED <<phase[d], answer[d], job[d], attempt[d].pos>>
  BY <1>1, <1>5, <1>6, <1>8, <1>10, AdvanceAccounts DEF chain
<1> QED
  BY <1>5, <1>11, StaysAccounted DEF AccountInv

(* A call that fails: given up what was tried. *)
LEMMA FailAccounts ==
  ASSUME Inv, AccountInv, NEW c \in Callers, NEW e \in Errors, phase[c] \in OnCall, FailAttempt(c, e)
  PROVE  AccountInv'
<1>1. TypeOK /\ Accounted(c) /\ phase[c] \in Working /\ phase[c] # "idle"
  BY DEF Inv, AccountInv, OnCall, Working
<1> DEFINE chain == job[c].chain
           s == [candidate |-> candidate(c), error |-> e]
<1>2. /\ chain \in Seq(Candidates) /\ attempted[c] \in Seq(Candidates) /\ skips[c] \in Seq(Skips)
      /\ attempt[c].pos \in 1..Len(chain) /\ attempt[c].pos \in Nat
  BY <1>1 DEF TypeOK, Jobs, Attempts
<1>3. s \in Skips /\ s.candidate = chain[attempt[c].pos]
  BY <1>1, BucketType DEF candidate, Skips
<1>4. skips' = [skips EXCEPT ![c] = Append(skips[c], s)] /\ attempted' = attempted /\ Advance(c)
  BY DEF FailAttempt, Skip
<1>5. skips'[c] = Append(skips[c], s) /\ \A d \in Callers \ {c} : skips'[d] = skips[d]
  BY <1>1, <1>4 DEF TypeOK
<1>6. /\ Len(attempted[c]) = attempt[c].pos /\ Len(skips[c]) = attempt[c].pos - 1
      /\ Listed(chain, attempted[c], skips[c]) /\ answer[c] # "exhausted"
  BY <1>1, <1>2 DEF Accounted
<1>7. Len(skips[c]) < Len(attempted[c]) /\ s.candidate = attempted[c][Len(skips[c]) + 1]
  <2> HIDE DEF chain, s
  <2>1. attempt[c].pos \in 1..Len(attempted[c]) /\ Len(skips[c]) + 1 = attempt[c].pos
    BY <1>2, <1>6
  <2>2. attempted[c][attempt[c].pos] = chain[attempt[c].pos]
    BY <1>6, <2>1 DEF Listed
  <2> QED
    BY <1>2, <1>3, <1>6, <2>1, <2>2
<1> HIDE DEF chain, s
<1>8. Listed(chain, attempted'[c], skips'[c]) /\ Len(skips'[c]) = attempt[c].pos
  <2>1. Listed(chain, attempted[c], skips[c]) /\ Len(skips[c]) = attempt[c].pos - 1
    BY <1>6
  <2>2. /\ Listed(chain, attempted[c], Append(skips[c], s))
        /\ Len(Append(skips[c], s)) = Len(skips[c]) + 1
    BY <1>2, <1>3, <1>7, <2>1, GivenUp
  <2> QED
    BY <1>2, <1>4, <1>5, <2>1, <2>2
<1>9. Accounted(c)' /\ \A d \in Callers \ {c} :
          UNCHANGED <<phase[d], answer[d], job[d], attempt[d].pos>>
  BY <1>1, <1>4, <1>6, <1>8, AdvanceAccounts DEF chain
<1> QED
  BY <1>4, <1>5, <1>9, StaysAccounted DEF AccountInv

(* A call is made: tried, and nothing given up. *)
LEMMA CallAccounts ==
  ASSUME Inv, AccountInv, NEW c \in Callers, Call(c)
  PROVE  AccountInv'
<1>1. TypeOK /\ Accounted(c) /\ phase[c] = "trying" /\ phase[c] \in Working
  BY DEF Inv, AccountInv, Call, Start, Working
<1> DEFINE chain == job[c].chain
           x == candidate(c)
<1>2. /\ chain \in Seq(Candidates) /\ attempted[c] \in Seq(Candidates) /\ skips[c] \in Seq(Skips)
      /\ attempt[c].pos \in 1..Len(chain) /\ attempt[c].pos \in Nat
  BY <1>1 DEF TypeOK, Jobs, Attempts
<1>3. x \in Candidates /\ x = chain[attempt[c].pos]
  BY <1>1, BucketType DEF candidate
<1>4. attempted' = [attempted EXCEPT ![c] = Append(attempted[c], x)]
      /\ UNCHANGED <<answer, job, skips>>
  BY DEF Call, Start
<1>5. attempted'[c] = Append(attempted[c], x)
      /\ \A d \in Callers \ {c} : attempted'[d] = attempted[d]
  BY <1>1, <1>4 DEF TypeOK
<1>6. /\ Len(attempted[c]) = attempt[c].pos - 1 /\ Len(skips[c]) = Len(attempted[c])
      /\ Listed(chain, attempted[c], skips[c]) /\ answer[c] # "exhausted"
  BY <1>1 DEF Accounted
<1>7. Len(attempted[c]) < Len(chain) /\ x = chain[Len(attempted[c]) + 1]
  BY <1>2, <1>3, <1>6
<1>8. phase'[c] = "calling" /\ attempt'[c].pos = attempt[c].pos
      /\ \A d \in Callers \ {c} : phase'[d] = phase[d] /\ attempt'[d] = attempt[d]
  BY <1>1 DEF Call, TypeOK, Attempts
<1> HIDE DEF chain, x
<1>9. Listed(chain, attempted'[c], skips[c]) /\ Len(attempted'[c]) = attempt[c].pos
  <2>1. /\ Listed(chain, Append(attempted[c], x), skips[c])
        /\ Len(Append(attempted[c], x)) = Len(attempted[c]) + 1
    BY <1>2, <1>3, <1>6, <1>7, TriedNext
  <2> QED
    BY <1>2, <1>5, <1>6, <2>1
<1>10. Accounted(c)'
  BY <1>2, <1>4, <1>6, <1>8, <1>9 DEF Accounted, OnCall, chain
<1> QED
  BY <1>4, <1>5, <1>8, <1>10, StaysAccounted DEF AccountInv

(* Who gets the lock was waiting for it. *)
LEMMA NextIsQueued ==
  ASSUME TypeOK, Serialized, NEW c \in Callers, Acquire(c)
  PROVE  phase[c] = "queued"
<1>1. waiters \in Seq(Callers) /\ waiters # <<>> /\ c = Head(waiters)
  BY DEF TypeOK, Acquire
<1>2. 1 \in 1..Len(waiters) /\ waiters[1] = c
  BY <1>1
<1> QED
  BY <1>2 DEF Serialized

(* Every step keeps the account. *)
LEMMA AccountStep == Inv /\ AccountInv /\ [Next]_vars => AccountInv'
<1> SUFFICES ASSUME Inv, AccountInv, [Next]_vars PROVE AccountInv'
  OBVIOUS
<1>0. TypeOK /\ TypeOK'
  BY TypeStep DEF Inv
<1>1. ASSUME \A c \in Callers :
               UNCHANGED <<phase[c], answer[c], job[c], attempt[c].pos, attempted[c], skips[c]>>
      PROVE  AccountInv'
  BY <1>1, StaysAccounted DEF AccountInv
<1>2. CASE UNCHANGED vars
  BY <1>1, <1>2 DEF vars, callVars
<1>3. CASE Tick
  <2>1. ASSUME NEW c \in Callers PROVE attempt'[c].pos = attempt[c].pos
    <3>1. attempt'[c] = [attempt[c] EXCEPT !.inner = Less(@), !.outer = Less(@)]
      BY <1>3 DEF Tick
    <3>2. attempt[c] \in Attempts
      BY <1>0 DEF TypeOK
    <3> QED
      BY <3>1, <3>2 DEF Attempts
  <2> QED
    BY <1>1, <1>3, <2>1 DEF Tick
<1>4. ASSUME NEW c \in Callers, job'[c] \in Jobs, attempted'[c] = <<>>, skips'[c] = <<>>,
             phase'[c] \in {"idle", "queued"}, answer'[c] # "exhausted",
             \A d \in Callers \ {c} :
               UNCHANGED <<phase[d], answer[d], job[d], attempt[d].pos, attempted[d], skips[d]>>
      PROVE  AccountInv'
  BY <1>4, NothingToAccount, StaysAccounted DEF AccountInv
<1>5. ASSUME NEW c \in Callers, NoCandidates(c) \/ Enqueue(c) PROVE AccountInv'
  <2>1. job'[c] \in Jobs
    BY <1>0 DEF TypeOK
  <2> QED
    BY <1>0, <1>4, <1>5, <2>1 DEF NoCandidates, Enqueue, TypeOK
<1>6. ASSUME NEW c \in Callers, NEW o, o # "exhausted", Return(c, o) PROVE AccountInv'
  <2>1. job'[c] \in Jobs
    BY <1>0 DEF TypeOK
  <2> QED
    BY <1>0, <1>4, <1>6, <2>1 DEF Return, TypeOK
<1>7. ASSUME NEW c \in Callers, Succeed(c) \/ Drop(c) \/ CancelQueued(c) \/ CancelCall(c)
      PROVE  AccountInv'
  BY <1>6, <1>7 DEF Succeed, Drop, CancelQueued, CancelCall
<1>8. ASSUME NEW c \in Callers, Acquire(c) PROVE AccountInv'
  <2>1. phase[c] = "queued"
    BY <1>0, <1>8, NextIsQueued DEF Inv
  <2>2. /\ Accounted(c) /\ Len(attempted[c]) = 0 /\ Len(skips[c]) \in Nat
        /\ Len(skips[c]) <= Len(attempted[c]) /\ answer[c] # "exhausted"
    <3>1. Accounted(c) /\ skips[c] \in Seq(Skips)
      BY <1>0 DEF AccountInv, TypeOK
    <3>2. Listed(job[c].chain, attempted[c], skips[c]) /\ Len(attempted[c]) = 0
          /\ answer[c] # "exhausted"
      BY <2>1, <3>1 DEF Accounted
    <3> QED
      BY <3>1, <3>2 DEF Listed
  <2>3. /\ phase'[c] = "trying" /\ attempt'[c].pos = 1
        /\ UNCHANGED <<answer, job, attempted, skips>>
        /\ \A d \in Callers \ {c} : phase'[d] = phase[d] /\ attempt'[d].pos = attempt[d].pos
    <3>1. attempt' = [attempt EXCEPT ![c].pos = 1] /\ attempt \in [Callers -> Attempts]
      BY <1>0, <1>8 DEF Acquire, TypeOK
    <3>2. attempt'[c].pos = 1 /\ \A d \in Callers \ {c} : attempt'[d] = attempt[d]
      BY <3>1 DEF Attempts
    <3> QED
      BY <1>0, <1>8, <3>2 DEF Acquire, TypeOK
  <2>4. Accounted(c)'
    BY <2>2, <2>3 DEF Accounted, OnCall
  <2> QED
    BY <2>3, <2>4, StaysAccounted DEF AccountInv
<1>9. ASSUME NEW c \in Callers, SkipCooling(c) \/ SkipPreflight(c) PROVE AccountInv'
  BY <1>9, SkipAccounts DEF SkipCooling, SkipPreflight, Errors
<1>10. ASSUME NEW c \in Callers, Call(c) PROVE AccountInv'
  BY <1>10, CallAccounts
<1>11. ASSUME NEW c \in Callers, Fail(c) \/ MalformedAgain(c) \/ Closed(c) \/ OuterDeadline(c)
       PROVE  AccountInv'
  BY <1>11, FailAccounts DEF Fail, MalformedAgain, Closed, OuterDeadline, Errors, OnCall
<1>12. ASSUME NEW c \in Callers, Retry(c) PROVE AccountInv'
  <2>1. \A d \in Callers : attempt'[d].pos = attempt[d].pos
    BY <1>0, <1>12 DEF Retry, TypeOK, Attempts
  <2> QED
    BY <1>1, <1>12, <2>1 DEF Retry
<1>13. ASSUME NEW c \in Callers, InnerDeadline(c) PROVE AccountInv'
  <2>1. /\ phase[c] = "calling" /\ phase'[c] = "closing"
        /\ UNCHANGED <<answer, job, attempt, attempted, skips>>
        /\ \A d \in Callers \ {c} : phase'[d] = phase[d]
    BY <1>0, <1>13 DEF InnerDeadline, TypeOK
  <2>2. Accounted(c)'
    BY <2>1 DEF AccountInv, Accounted, OnCall
  <2> QED
    BY <2>1, <2>2, StaysAccounted DEF AccountInv
<1> QED
  BY <1>2, <1>3, <1>5, <1>7, <1>8, <1>9, <1>10, <1>11, <1>12, <1>13 DEF Next, TryCandidate

(* For chains of any length: a chain that is reported exhausted has tried
   every candidate, in order, and has a record of each. *)
THEOREM NobodySkippedSilently == SafeSpec => []EveryCandidateAccountedFor
<1>1. Init => AccountInv
  <2> SUFFICES ASSUME Init, NEW c \in Callers PROVE Accounted(c)
    BY DEF AccountInv
  <2>1. /\ attempted[c] = <<>> /\ skips[c] = <<>> /\ phase[c] = "idle" /\ answer[c] = "none"
        /\ job[c].chain = <<>>
    BY DEF Init, NoJob
  <2> QED
    BY <2>1 DEF Accounted, Listed, OnCall
<1>2. Inv /\ AccountInv => EveryCandidateAccountedFor
  <2> SUFFICES ASSUME Inv, AccountInv, NEW c \in Callers
               PROVE  /\ attempted[c] = SubSeq(job[c].chain, 1, Len(attempted[c]))
                      /\ \A i \in 1..Len(skips[c]) : skips[c][i].candidate = attempted[c][i]
                      /\ phase[c] = "trying" =>
                           Len(attempted[c]) = attempt[c].pos - 1 /\ Len(skips[c]) = Len(attempted[c])
                      /\ phase[c] \in OnCall =>
                           Len(attempted[c]) = attempt[c].pos /\ Len(skips[c]) = Len(attempted[c]) - 1
                      /\ answer[c] = "exhausted" =>
                           Len(attempted[c]) = Len(job[c].chain) /\ Len(skips[c]) = Len(attempted[c])
    BY DEF EveryCandidateAccountedFor
  <2>1. job[c].chain \in Seq(Candidates) /\ attempted[c] \in Seq(Candidates)
    BY DEF Inv, TypeOK, Jobs
  <2>2. Accounted(c)
    BY DEF AccountInv
  <2>3. attempted[c] = SubSeq(job[c].chain, 1, Len(attempted[c]))
    BY <2>1, <2>2 DEF Accounted, Listed
  <2> QED
    BY <2>2, <2>3 DEF Accounted, Listed
<1> QED
  BY <1>1, <1>2, AccountStep, Invariance, PTL DEF SafeSpec

(* Whichever deadline, or the candidate itself, ends a call that does not
   succeed, and whatever others do: it is one failure. *)
THEOREM OneFailurePerCall == SafeSpec => EachFailureCountedOnce
<1>1. ASSUME Inv, [Next]_vars, NEW c \in Callers, phase[c] \in OnCall, phase'[c] \notin OnCall,
             answer'[c] \in {"none", "exhausted"}
      PROVE  health'[bucket(c)].fails = health[bucket(c)].fails + 1
  <2>1. TypeOK /\ phase[c] \in Working /\ bucket(c) \in Buckets
    BY <1>1, BucketType DEF Inv, OnCall, Working
  <2>2. \E e \in Errors : FailAttempt(c, e)
    <3>1. ASSUME NEW d \in Callers, NEW e, phase[d] \in OnCall, FailAttempt(d, e), d # c PROVE FALSE
      BY <1>1, <2>1, <3>1 DEF FailAttempt, Advance, TryNext, Exhausted, TypeOK
    <3>2. ASSUME NEW d \in Callers, NEW e, Skip(d, e), Advance(d), phase[d] = "trying" PROVE FALSE
      BY <1>1, <2>1, <3>2 DEF Advance, TryNext, Exhausted, TypeOK, OnCall
    <3>3. ASSUME NEW d \in Callers, NEW o \in {"result", "escaped", "cancelled"}, Return(d, o) PROVE FALSE
      BY <1>1, <2>1, <3>3 DEF Return, TypeOK
    <3>4. ASSUME NEW d \in Callers,
                 NoCandidates(d) \/ Enqueue(d) \/ Acquire(d) \/ Call(d) \/ Retry(d) \/ InnerDeadline(d)
          PROVE  FALSE
      <4>1. phase'[c] = phase[c] \/ phase'[c] = "closing" \/ (d = c /\ phase[c] \notin OnCall) \/ Acquire(d)
        BY <1>1, <2>1, <3>4
        DEF NoCandidates, Enqueue, Call, Start, Retry, InnerDeadline, TypeOK, OnCall
      <4>2. CASE Acquire(d)
        <5>1. phase[d] = "queued"
          BY <1>1, <2>1, <4>2, NextIsQueued DEF Inv
        <5> QED
          BY <1>1, <2>1, <4>2, <5>1 DEF Acquire, TypeOK, OnCall
      <4> QED
        BY <1>1, <4>1, <4>2 DEF OnCall
    <3>5. ASSUME Tick \/ UNCHANGED vars PROVE FALSE
      BY <1>1, <3>5 DEF Tick, vars, callVars
    <3>6. PICK d \in Callers :
            \/ NoCandidates(d) \/ Enqueue(d) \/ Acquire(d) \/ Call(d) \/ Retry(d) \/ InnerDeadline(d)
            \/ SkipCooling(d) \/ SkipPreflight(d)
            \/ Fail(d) \/ MalformedAgain(d) \/ Closed(d) \/ OuterDeadline(d)
            \/ Succeed(d) \/ Drop(d) \/ CancelQueued(d) \/ CancelCall(d)
      BY <1>1, <3>5 DEF Next, TryCandidate
    <3>7. CASE Fail(d) \/ MalformedAgain(d) \/ Closed(d) \/ OuterDeadline(d)
      BY <3>1, <3>7 DEF Fail, MalformedAgain, Closed, OuterDeadline, Errors, OnCall
    <3>8. CASE SkipCooling(d) \/ SkipPreflight(d)
      BY <3>2, <3>8 DEF SkipCooling, SkipPreflight, Start
    <3>9. CASE Succeed(d) \/ Drop(d) \/ CancelQueued(d) \/ CancelCall(d)
      BY <3>3, <3>9 DEF Succeed, Drop, CancelQueued, CancelCall
    <3> QED
      BY <3>4, <3>6, <3>7, <3>8, <3>9
  <2>3. health' = [health EXCEPT ![bucket(c)] = AfterFailure(health[bucket(c)])]
    BY <2>2 DEF FailAttempt, RecordFailure
  <2> QED
    BY <2>1, <2>3 DEF TypeOK, AfterFailure
<1>2. Inv /\ [Next]_vars =>
        [\A c \in Callers : phase[c] \in OnCall /\ phase'[c] \notin OnCall
           /\ answer'[c] \in {"none", "exhausted"}
             => health'[bucket(c)].fails = health[bucket(c)].fails + 1]_vars
  BY <1>1
<1> QED
  BY <1>2, Invariance, PTL DEF SafeSpec, EachFailureCountedOnce

(* A candidate's count is its own: only the end of a call to it, for its task
   type, or the end of its cooldown moves it. *)
THEOREM OthersLeaveTheCountAlone == SafeSpec => CountMovesByOwnCalls
<1>1. ASSUME Inv, [Next]_vars, NEW b \in Buckets, health'[b].fails # health[b].fails
      PROVE  \E c \in Callers :
               /\ holder = c
               /\ bucket(c) = b
               /\ \/ phase[c] \in OnCall /\ phase'[c] \notin OnCall
                  \/ health[b].left = 0 /\ health'[b] = Healthy
  <2>1. TypeOK /\ Serialized /\ health[b] \in Health
    BY <1>1 DEF Inv, TypeOK
  <2>2. ASSUME NEW c \in Callers, phase[c] \in Working, NEW h,
               health' = [health EXCEPT ![bucket(c)] = h]
        PROVE  holder = c /\ bucket(c) = b /\ health'[b] = h
    BY <1>1, <2>1, <2>2, BucketType DEF Serialized, TypeOK
  <2>3. ASSUME Tick PROVE FALSE
    <3>1. health'[b] = [health[b] EXCEPT !.left = Less(@)]
      BY <2>3 DEF Tick
    <3> QED
      BY <1>1, <2>1, <3>1 DEF Health
  <2>4. health' # health
    BY <1>1
  <2>5. PICK c \in Callers : \/ SkipPreflight(c) \/ Call(c) \/ Succeed(c) \/ Fail(c)
                             \/ MalformedAgain(c) \/ Closed(c) \/ OuterDeadline(c) \/ CancelCall(c)
    <3>1. ~ UNCHANGED vars
      BY <2>4 DEF vars
    <3>2. ASSUME NEW c \in Callers,
                 \/ NoCandidates(c) \/ Enqueue(c) \/ Acquire(c) \/ SkipCooling(c) \/ Retry(c)
                 \/ Drop(c) \/ InnerDeadline(c) \/ CancelQueued(c)
          PROVE  FALSE
      BY <2>4, <3>2 DEF NoCandidates, Enqueue, Acquire, SkipCooling, Retry, Drop, InnerDeadline,
                        CancelQueued
    <3>3. PICK c \in Callers :
            \/ NoCandidates(c) \/ Enqueue(c) \/ Acquire(c) \/ SkipCooling(c) \/ Retry(c)
            \/ Drop(c) \/ InnerDeadline(c) \/ CancelQueued(c)
            \/ SkipPreflight(c) \/ Call(c) \/ Succeed(c) \/ Fail(c)
            \/ MalformedAgain(c) \/ Closed(c) \/ OuterDeadline(c) \/ CancelCall(c)
      BY <1>1, <2>3, <3>1 DEF Next, TryCandidate
    <3> QED
      BY <3>2, <3>3
  <2>6. CASE SkipPreflight(c) \/ Call(c)
    <3>1. phase[c] \in Working
      BY <2>6 DEF SkipPreflight, Call, Start, Working
    <3>2. health' = [health EXCEPT ![bucket(c)] = AfterCheck(health[bucket(c)])]
      BY <2>6 DEF SkipPreflight, Call
    <3>3. holder = c /\ bucket(c) = b /\ health'[b] = AfterCheck(health[b])
      BY <2>2, <3>1, <3>2
    <3> QED
      BY <1>1, <3>3 DEF AfterCheck
  <2>7. CASE Succeed(c) \/ Fail(c) \/ MalformedAgain(c) \/ Closed(c) \/ OuterDeadline(c) \/ CancelCall(c)
    <3>1. phase[c] \in OnCall /\ phase[c] \in Working
      BY <2>7 DEF Succeed, Fail, MalformedAgain, Closed, OuterDeadline, CancelCall, OnCall, Working
    <3>2. \/ health' = [health EXCEPT ![bucket(c)] = Healthy]
          \/ health' = [health EXCEPT ![bucket(c)] = AfterFailure(health[bucket(c)])]
      BY <2>7 DEF Succeed, Fail, MalformedAgain, Closed, OuterDeadline, CancelCall, FailAttempt,
                  RecordFailure
    <3>3. phase'[c] \in {"trying", "idle"}
      BY <2>1, <2>7 DEF Succeed, Fail, MalformedAgain, Closed, OuterDeadline, CancelCall, FailAttempt,
                        Advance, TryNext, Exhausted, Return, TypeOK
    <3> QED
      BY <2>2, <3>1, <3>2, <3>3 DEF OnCall
  <2> QED
    BY <2>5, <2>6, <2>7
<1>2. Inv /\ [Next]_vars =>
        [\A b \in Buckets : health'[b].fails # health[b].fails =>
           \E c \in Callers :
             /\ holder = c
             /\ bucket(c) = b
             /\ \/ phase[c] \in OnCall /\ phase'[c] \notin OnCall
                \/ health[b].left = 0 /\ health'[b] = Healthy]_vars
  BY <1>1
<1> QED
  BY <1>2, Invariance, PTL DEF SafeSpec, CountMovesByOwnCalls
-----------------------------------------------------------------------------
(***************************************************************************)
(* The walk of a request down its chain, with the lock, the clocks, the    *)
(* retries and the failure memory left out.                                *)
(***************************************************************************)
Nobody == [at |-> "free", chain |-> <<>>, pos |-> 0]

(* Where a caller's request stands.  A caller that was told that its chain *)
(* is exhausted still has the chain.                                       *)
Standing(c) ==
  CASE phase[c] = "queued" -> [at |-> "queued", chain |-> job[c].chain, pos |-> 0]
    [] phase[c] \in Working ->
         [at |-> "calling", chain |-> job[c].chain, pos |-> attempt[c].pos]
    [] phase[c] = "idle" /\ answer[c] = "exhausted" ->
         [at |-> "exhausted", chain |-> job[c].chain, pos |-> Len(job[c].chain)]
    [] OTHER -> Nobody

standings == [c \in Callers |-> Standing(c)]
Arrivals == [at : {"queued"}, chain : UNION {ChainsFor[t] : t \in TaskTypes}, pos : {0}]

Walk == INSTANCE ChainWalk WITH
  Requests <- Callers, Free <- Nobody, Incoming <- Arrivals, request <- standings

(* The standings, place by place. *)
LEMMA StandingAt ==
  ASSUME NEW c \in Callers
  PROVE  /\ phase[c] = "queued" =>
              Standing(c) = [at |-> "queued", chain |-> job[c].chain, pos |-> 0]
         /\ phase[c] \in Working =>
              Standing(c) = [at |-> "calling", chain |-> job[c].chain, pos |-> attempt[c].pos]
         /\ phase[c] = "idle" /\ answer[c] = "exhausted" =>
              Standing(c) = [at |-> "exhausted", chain |-> job[c].chain,
                             pos |-> Len(job[c].chain)]
         /\ phase[c] = "idle" /\ answer[c] # "exhausted" => Standing(c) = Nobody
  BY DEF Standing, Working

(* What a step does to one caller shows in that caller's standing only. *)
LEMMA OneStands ==
  ASSUME NEW c \in Callers,
         \A d \in Callers \ {c} :
           /\ phase'[d] = phase[d] /\ answer'[d] = answer[d] /\ job'[d] = job[d]
           /\ attempt'[d].pos = attempt[d].pos
  PROVE  standings' = [standings EXCEPT ![c] = Standing(c)']
<1>1. ASSUME NEW d \in Callers, d # c PROVE Standing(d)' = Standing(d)
  BY <1>1 DEF Standing
<1> QED
  BY <1>1 DEF standings

(* Where every caller stands as before, nothing is seen. *)
LEMMA NobodyMoves ==
  ASSUME \A d \in Callers : Standing(d)' = Standing(d)
  PROVE  UNCHANGED standings
  BY DEF standings

(* An attempt that is over is a step down the chain, or its end. *)
LEMMA AdvanceWalks ==
  ASSUME Inv, NEW c \in Callers, phase[c] \in Working, Advance(c)
  PROVE  Walk!Advance(c)
<1>1. /\ TypeOK /\ job[c] \in Jobs /\ job' = job
      /\ Len(job[c].chain) \in Nat /\ attempt[c].pos \in 1..Len(job[c].chain)
  BY DEF Inv, TypeOK, Jobs, Advance
<1>2. Standing(c) = [at |-> "calling", chain |-> job[c].chain, pos |-> attempt[c].pos]
  BY StandingAt
<1>3. standings[c] = Standing(c)
  BY DEF standings
<1>4. standings' = [standings EXCEPT ![c] = Standing(c)']
  BY <1>1, OneStands DEF Advance, TryNext, Exhausted, TypeOK
<1>5. CASE attempt[c].pos < Len(job[c].chain)
  <2>1. phase'[c] = "trying" /\ attempt'[c].pos = attempt[c].pos + 1
    BY <1>1, <1>5 DEF Advance, TryNext, TypeOK, NoAttempt
  <2>2. Standing(c)' = [at |-> "calling", chain |-> job[c].chain, pos |-> attempt[c].pos + 1]
    BY <1>1, <2>1 DEF Standing, Working
  <2>3. standings[c].at = "calling" /\ standings[c].pos < Len(standings[c].chain)
    BY <1>2, <1>3, <1>5
  <2>4. Standing(c)' = [standings[c] EXCEPT !.pos = standings[c].pos + 1]
    BY <1>2, <1>3, <2>2
  <2> QED
    BY <1>4, <2>3, <2>4 DEF Walk!Advance
<1>6. CASE ~ attempt[c].pos < Len(job[c].chain)
  <2>1. phase'[c] = "idle" /\ answer'[c] = "exhausted"
    BY <1>1, <1>6 DEF Advance, Exhausted, TypeOK
  <2>2. Standing(c)' = [at |-> "exhausted", chain |-> job[c].chain, pos |-> Len(job[c].chain)]
    BY <1>1, <2>1 DEF Standing, Working
  <2>3. attempt[c].pos = Len(job[c].chain)
    BY <1>1, <1>6
  <2>4. standings[c].at = "calling" /\ standings[c].pos >= Len(standings[c].chain)
    BY <1>1, <1>2, <1>3, <2>3
  <2>5. Standing(c)' = [standings[c] EXCEPT !.at = "exhausted"]
    BY <1>2, <1>3, <2>2, <2>3
  <2> QED
    BY <1>4, <2>4, <2>5 DEF Walk!Advance
<1> QED
  BY <1>5, <1>6

(* A return from execute_chain leaves nothing of the request. *)
LEMMA ReturnWalks ==
  ASSUME Inv, NEW c \in Callers, NEW o, o # "exhausted", Return(c, o)
  PROVE  Walk!End(c)
<1>1. phase'[c] = "idle" /\ answer'[c] # "exhausted"
  BY DEF Return, Inv, TypeOK
<1>2. Standing(c)' = Nobody
  BY <1>1 DEF Standing, Working
<1>3. standings' = [standings EXCEPT ![c] = Standing(c)']
  BY OneStands DEF Return, Inv, TypeOK
<1> QED
  BY <1>2, <1>3 DEF Walk!End

(* For any number of callers and chains of any length: a request waits, is  *)
(* served alone, goes down its chain candidate by candidate, and is called *)
(* exhausted behind the last one only, whatever deadlines, retries,        *)
(* cooldowns and cancellations do on the way (delegate/chain.py:142-204).  *)
THEOREM ChainImplementsChainWalk == SafeSpec => Walk!Spec
<1>1. Init => Walk!Init
  BY DEF Init, Walk!Init, standings, Standing, Working
<1>2. Inv /\ [Next]_vars => [Walk!Next]_standings
  <2> SUFFICES ASSUME Inv, [Next]_vars PROVE Walk!Next \/ UNCHANGED standings
    OBVIOUS
  <2>0. /\ TypeOK /\ Serialized
        /\ \A c \in Callers : standings[c] = Standing(c)
    BY DEF Inv, standings
  <2>1. CASE UNCHANGED vars
    BY <2>1 DEF vars, callVars, standings, Standing
  <2>2. CASE Tick
    <3>1. ASSUME NEW d \in Callers PROVE Standing(d)' = Standing(d)
      <4>1. attempt'[d].pos = attempt[d].pos
        BY <2>0, <2>2 DEF Tick, TypeOK, Attempts
      <4> QED
        BY <2>2, <4>1 DEF Tick, Standing
    <3> QED
      BY <3>1, NobodyMoves
  <2>3. ASSUME NEW c \in Callers, Call(c) \/ Retry(c) \/ InnerDeadline(c)
        PROVE  UNCHANGED standings
    <3>1. /\ phase[c] \in Working /\ phase'[c] \in Working /\ job' = job
          /\ attempt'[c].pos = attempt[c].pos
      BY <2>0, <2>3 DEF Call, Start, Retry, InnerDeadline, Working, TypeOK, Attempts
    <3>2. standings' = [standings EXCEPT ![c] = Standing(c)']
      BY <2>0, <2>3, OneStands DEF Call, Start, Retry, InnerDeadline, TypeOK
    <3>3. Standing(c)' = Standing(c)
      BY <3>1 DEF Standing, Working
    <3> QED
      BY <3>2, <3>3 DEF standings
  <2>4. ASSUME NEW c \in Callers, NoCandidates(c)
        PROVE  Walk!Next \/ UNCHANGED standings
    <3>1. phase[c] = "idle" /\ phase'[c] = "idle" /\ answer'[c] = "no_candidates"
      BY <2>0, <2>4 DEF NoCandidates, TypeOK
    <3>2. Standing(c)' = Nobody
      BY <3>1 DEF Standing, Working
    <3>3. standings' = [standings EXCEPT ![c] = Nobody]
      <4>1. standings' = [standings EXCEPT ![c] = Standing(c)']
        BY <2>0, <2>4, OneStands DEF NoCandidates, TypeOK
      <4> QED
        BY <3>2, <4>1
    <3>4. CASE answer[c] = "exhausted"
      <4>1. standings[c].at = "exhausted"
        BY <2>0, <3>1, <3>4, StandingAt
      <4> QED
        BY <3>3, <4>1 DEF Walk!Reply, Walk!End, Walk!Next
    <3>5. CASE answer[c] # "exhausted"
      <4>1. standings[c] = Nobody
        BY <2>0, <3>1, <3>5, StandingAt
      <4> QED
        BY <3>3, <4>1 DEF standings
    <3> QED
      BY <3>4, <3>5
  <2>5. ASSUME NEW c \in Callers, Enqueue(c)
        PROVE  Walk!Next
    <3>1. PICK t \in TaskTypes : \E chain \in ChainsFor[t] \ {<<>>} :
            phase[c] = "idle" /\ phase'[c] = "queued" /\ job'[c].chain = chain
      BY <2>0, <2>5 DEF Enqueue, TypeOK
    <3>0. PICK chain \in ChainsFor[t] \ {<<>>} :
            phase[c] = "idle" /\ phase'[c] = "queued" /\ job'[c].chain = chain
      BY <3>1
    <3> DEFINE new == [at |-> "queued", chain |-> chain, pos |-> 0]
    <3>2. Standing(c)' = new
      BY <3>0 DEF Standing, Working
    <3>3. standings' = [standings EXCEPT ![c] = new]
      <4>1. standings' = [standings EXCEPT ![c] = Standing(c)']
        BY <2>0, <2>5, OneStands DEF Enqueue, TypeOK
      <4> QED
        BY <3>2, <4>1
    <3>4. standings[c].at \in {"free", "exhausted"}
      <4>1. Standing(c).at \in {"free", "exhausted"}
        BY <3>0, StandingAt DEF Nobody
      <4> QED
        BY <2>0, <4>1
    <3>5. new \in Arrivals
      BY <3>0 DEF Arrivals
    <3>6. Walk!Accept(c, new)
      BY <3>0, <3>3, <3>4 DEF Walk!Accept
    <3> HIDE DEF new
    <3> QED
      BY <3>5, <3>6 DEF Walk!Next
  <2>6. ASSUME NEW c \in Callers, Acquire(c)
        PROVE  Walk!Take(c)
    <3>1. phase[c] = "queued" /\ phase'[c] = "trying" /\ job' = job /\ attempt'[c].pos = 1
      <4>1. phase[c] = "queued"
        BY <2>0, <2>6, NextIsQueued
      <4> QED
        BY <2>0, <2>6, <4>1 DEF Acquire, TypeOK, Attempts
    <3>2. standings[c] = [at |-> "queued", chain |-> job[c].chain, pos |-> 0]
      BY <2>0, <3>1, StandingAt
    <3>3. Standing(c)' = [at |-> "calling", chain |-> job[c].chain, pos |-> 1]
      BY <3>1 DEF Standing, Working
    <3>4. standings' = [standings EXCEPT ![c] = Standing(c)']
      BY <2>0, <2>6, OneStands DEF Acquire, TypeOK
    <3>5. ASSUME NEW d \in Callers PROVE standings[d].at # "calling"
      <4>1. phase[d] \notin Working
        BY <2>0, <2>6, CallersAssumption DEF Acquire, Serialized
      <4>2. phase[d] \in {"idle", "queued"}
        BY <2>0, <4>1 DEF TypeOK, Phases
      <4> QED
        BY <2>0, <4>2, StandingAt DEF Nobody
    <3> DEFINE taken == [standings[c] EXCEPT !.at = "calling"]
               new   == [taken EXCEPT !.pos = 1]
    <3>6. Standing(c)' = new
      <4>1. taken = [at |-> "calling", chain |-> job[c].chain, pos |-> 0]
        BY <3>2
      <4> HIDE DEF taken
      <4> QED
        BY <3>3, <4>1
    <3>7. standings' = [standings EXCEPT ![c].at = "calling", ![c].pos = 1]
      <4>1. [standings EXCEPT ![c] = taken][c] = taken
        BY DEF standings
      <4> HIDE DEF taken
      <4>2. [[standings EXCEPT ![c] = taken] EXCEPT ![c] = new] = [standings EXCEPT ![c] = new]
        BY DEF standings
      <4> QED
        BY <3>4, <3>6, <4>1, <4>2 DEF taken
    <3> QED
      BY <3>2, <3>5, <3>7 DEF Walk!Take
  <2>7. ASSUME NEW c \in Callers, CancelQueued(c)
        PROVE  Walk!Withdraw(c)
    <3>1. standings[c].at = "queued"
      BY <2>0, <2>7, StandingAt DEF CancelQueued
    <3> QED
      BY <2>7, <3>1, ReturnWalks DEF CancelQueued, Walk!Withdraw
  <2>8. ASSUME NEW c \in Callers, Succeed(c) \/ Drop(c) \/ CancelCall(c)
        PROVE  Walk!Reply(c)
    <3>1. phase[c] \in Working
      BY <2>8 DEF Succeed, Drop, CancelCall, OnCall, Working
    <3>2. standings[c].at = "calling"
      BY <2>0, <3>1, StandingAt
    <3>3. Walk!End(c)
      BY <2>8, ReturnWalks DEF Succeed, Drop, CancelCall
    <3> QED
      BY <3>2, <3>3 DEF Walk!Reply
  <2>9. ASSUME NEW c \in Callers,
               \/ SkipCooling(c) \/ SkipPreflight(c)
               \/ Fail(c) \/ MalformedAgain(c) \/ Closed(c) \/ OuterDeadline(c)
        PROVE  Walk!Advance(c)
    BY <2>9, AdvanceWalks
    DEF SkipCooling, SkipPreflight, Start, Fail, MalformedAgain, Closed, OuterDeadline,
        FailAttempt, OnCall, Working
  <2> QED
    BY <2>1, <2>2, <2>3, <2>4, <2>5, <2>6, <2>7, <2>8, <2>9 DEF Next, TryCandidate, Walk!Next
<1> QED
  BY <1>1, <1>2, Invariance, PTL DEF SafeSpec, Walk!Spec
=============================================================================
