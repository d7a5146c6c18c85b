---------------------------- MODULE DaemonProofs ----------------------------
(***************************************************************************)
(* Proofs about GraphRouting, for any calls and any interval: whatever the *)
(* server does and in whatever order probes begin, end and are dropped.    *)
(* Then the daemon put together keeps what its parts promise: every        *)
(* behaviour of Daemon is one of GraphRouting and one of DaemonToken.      *)
(***************************************************************************)
EXTENDS Daemon, TLAPS

Verdicts == Reasons \cup {"none", "found"}
CallType == [at : Places, age : 0..Interval, verdict : Verdicts]
CallsTyped == call \in [Calls -> CallType]

(* What each place of a call says about its verdict. *)
VerdictFits == \A c \in Calls :
    /\ call[c].at = "learn" => call[c].verdict \in Reasons \cup {"found"}
    /\ call[c].verdict = "unconfigured" => ~ target

(* A daemon that is not up has no engine and no calls, and checks only what *)
(* is configured.                                                           *)
OnlyWhenUp == /\ boot # "up" => ~ primary
              /\ ~ Up => \A c \in Calls : call[c].at = "idle" /\ call[c].verdict = "none"
              /\ boot \in Checks => target

ReasonFits == /\ (Up /\ ~ primary) => (reason \in Reasons)
              /\ (reason = "unconfigured") => ~ target

CauseInv == TypeOK /\ VerdictFits /\ OnlyWhenUp /\ ReasonFits

(* No probe is younger than the time since the last one began. *)
OldestFirst == \A c \in Calls : ProbeUnderWay(c) => sinceProbe <= call[c].age

(* As long as no probe has outlasted the interval there is at most one, and *)
(* none that could unset an engine already found.                           *)
OneProbe == ~ slow => /\ \A c \in Calls : ProbeUnderWay(c) => call[c].age < Interval
                      /\ primary => \A c \in Calls : ~ ProbeUnderWay(c)

ProbeInv == CauseInv /\ OldestFirst /\ OneYoungProbe /\ OneProbe

-----------------------------------------------------------------------------
(* TypeOK, by its parts. *)
LEMMA TypeParts ==
  TypeOK <=> /\ CallsTyped
             /\ gortex \in Servers /\ boot \in Checks \cup {"off", "up"}
             /\ target \in BOOLEAN /\ primary \in BOOLEAN /\ reason \in Reasons \cup {"none"}
             /\ sinceProbe \in 0..Interval
             /\ graphify \in {"unasked", "missing", "kept"} /\ slow \in BOOLEAN
  BY DEF TypeOK, CallsTyped, CallType, Verdicts

(* The calls of a daemon that is off. *)
LEMMA IdleCalls == [c \in Calls |-> Idle] \in [Calls -> CallType]
<1>1. Idle \in CallType
  BY IntervalAssumption DEF Idle, CallType, Places, Verdicts
<1> QED
  BY <1>1

(* Entering a place changes one call, and starts its clock. *)
LEMMA EnterCall ==
  ASSUME CallsTyped, NEW c \in Calls, NEW place \in Places, NEW verdict \in Verdicts,
         Enter(c, place, verdict)
  PROVE  /\ CallsTyped'
         /\ call'[c].at = place /\ call'[c].age = 0 /\ call'[c].verdict = verdict
         /\ \A d \in Calls : d # c => call'[d] = call[d]
  BY IntervalAssumption DEF Enter, CallsTyped, CallType

(* The three ways a question about code begins. *)
LEMMA AskCall ==
  ASSUME CallsTyped, NEW c \in Calls, reason \in Reasons \cup {"none"},
         AskEngine(c) \/ AskProbe(c) \/ AskRefused(c)
  PROVE  /\ CallsTyped'
         /\ call'[c].age = 0
         /\ \A d \in Calls : d # c => call'[d] = call[d]
         /\ reason' = reason
         /\ \/ /\ call'[c].at = "ask" /\ call'[c].verdict = "none"
               /\ sinceProbe' = sinceProbe
            \/ /\ ~ primary /\ MayProbe /\ sinceProbe' = 0
               /\ \/ target /\ call'[c].at = "reach" /\ call'[c].verdict = "none"
                  \/ ~ target /\ call'[c].at = "learn" /\ call'[c].verdict = "unconfigured"
            \/ /\ ~ primary /\ sinceProbe' = sinceProbe
               /\ call'[c].at = "refused" /\ call'[c].verdict = Cause
<1>1. CASE AskEngine(c)
  <2>1. "ask" \in Places /\ "none" \in Verdicts
    BY DEF Places, Verdicts
  <2> QED
    BY <1>1, <2>1, EnterCall DEF AskEngine
<1>2. CASE AskProbe(c)
  <2>1. /\ (IF target THEN "reach" ELSE "learn") \in Places
        /\ (IF target THEN "none" ELSE "unconfigured") \in Verdicts
    BY DEF Places, Probing, Checks, Verdicts, Reasons
  <2>2. Enter(c, IF target THEN "reach" ELSE "learn",
                 IF target THEN "none" ELSE "unconfigured")
    BY <1>2 DEF AskProbe
  <2>3. /\ CallsTyped'
        /\ call'[c].at = (IF target THEN "reach" ELSE "learn") /\ call'[c].age = 0
        /\ call'[c].verdict = (IF target THEN "none" ELSE "unconfigured")
        /\ \A d \in Calls : d # c => call'[d] = call[d]
    BY <2>1, <2>2, EnterCall
  <2> QED
    BY <1>2, <2>3 DEF AskProbe
<1>3. CASE AskRefused(c)
  <2>1. "refused" \in Places /\ Cause \in Verdicts
    BY DEF Places, Verdicts, Cause, Reasons
  <2> QED
    BY <1>3, <2>1, EnterCall DEF AskRefused
<1> QED
  BY <1>1, <1>2, <1>3

(* One check of a probe keeps its age and ends it at "learn". *)
LEMMA ProbeCall ==
  ASSUME CallsTyped, NEW c \in Calls, Probe(c)
  PROVE  /\ CallsTyped'
         /\ \A d \in Calls : d # c => call'[d] = call[d]
         /\ call'[c].age = call[c].age
         /\ ProbeUnderWay(c) /\ ProbeUnderWay(c)'
         /\ \/ call'[c].at \in Checks /\ call'[c].verdict = call[c].verdict
            \/ /\ call'[c].at = "learn"
               /\ call'[c].verdict \in (Reasons \cup {"found"}) \ {"unconfigured"}
<1> DEFINE next == Conclusion(call[c].at)
<1>1. call[c].at \in Checks /\ call[c] \in CallType
  BY DEF Probe, CallsTyped
<1>2. next \in Checks \/ next \in (Reasons \cup {"found"}) \ {"unconfigured"}
  BY <1>1 DEF Conclusion, Reachable, Compatible, Capable, Checks, Reasons
<1>3. "learn" \notin Checks /\ Checks \subseteq Places /\ "learn" \in Places
      /\ Reasons \cup {"found"} \subseteq Verdicts
  BY DEF Checks, Places, Probing, Verdicts
<1> HIDE DEF next
<1>4. CASE next \in Checks
  <2>1. call' = [call EXCEPT ![c].at = next]
    BY <1>4 DEF Probe, next
  <2>2. call'[c] = [call[c] EXCEPT !.at = next] /\ \A d \in Calls : d # c => call'[d] = call[d]
    BY <2>1 DEF CallsTyped
  <2>3. call'[c].at = next /\ call'[c].age = call[c].age /\ call'[c].verdict = call[c].verdict
    BY <1>1, <2>2 DEF CallType
  <2>4. CallsTyped'
    BY <1>1, <1>3, <1>4, <2>1 DEF CallsTyped, CallType
  <2> QED
    BY <1>1, <1>4, <2>2, <2>3, <2>4 DEF ProbeUnderWay, Probing
<1>5. CASE next \notin Checks
  <2>1. call' = [call EXCEPT ![c].at = "learn", ![c].verdict = next]
    BY <1>5 DEF Probe, next
  <2>2. call'[c] = [call[c] EXCEPT !.at = "learn", !.verdict = next]
        /\ \A d \in Calls : d # c => call'[d] = call[d]
    BY <2>1 DEF CallsTyped
  <2>3. call'[c].at = "learn" /\ call'[c].age = call[c].age /\ call'[c].verdict = next
    BY <1>1, <2>2 DEF CallType
  <2>4. CallsTyped'
    BY <1>1, <1>2, <1>3, <1>5, <2>1 DEF CallsTyped, CallType
  <2> QED
    BY <1>1, <1>2, <1>5, <2>2, <2>3, <2>4 DEF ProbeUnderWay, Probing
<1> QED
  BY <1>4, <1>5

(* A verdict is applied to the engine and ends the probe. *)
LEMMA LearnCall ==
  ASSUME CallsTyped, VerdictFits, NEW c \in Calls, Learn(c)
  PROVE  /\ CallsTyped'
         /\ \A d \in Calls : d # c => call'[d] = call[d]
         /\ ProbeUnderWay(c) /\ ~ ProbeUnderWay(c)'
         /\ \/ primary' /\ reason' = "none" /\ call'[c].at = "ask" /\ call'[c].verdict = "none"
            \/ /\ ~ primary' /\ reason' = call[c].verdict /\ call[c].verdict \in Reasons
               /\ call'[c].at = "refused" /\ call'[c].verdict = call[c].verdict
         /\ primary' \in BOOLEAN
<1>1. call[c].at = "learn" /\ call[c].verdict \in Reasons \cup {"found"}
  BY DEF Learn, VerdictFits
<1>2. CASE call[c].verdict = "found"
  <2>1. primary' = TRUE /\ reason' = "none" /\ Enter(c, "ask", "none")
    BY <1>2 DEF Learn
  <2>2. "ask" \in Places /\ "none" \in Verdicts
    BY DEF Places, Verdicts
  <2> QED
    BY <1>1, <2>1, <2>2, EnterCall DEF ProbeUnderWay, Probing, Checks
<1>3. CASE call[c].verdict # "found"
  <2>1. primary' = FALSE /\ reason' = call[c].verdict /\ Enter(c, "refused", call[c].verdict)
    BY <1>3 DEF Learn
  <2>2. "refused" \in Places /\ call[c].verdict \in Verdicts /\ call[c].verdict \in Reasons
    BY <1>1, <1>3 DEF Places, Verdicts
  <2> QED
    BY <1>1, <2>1, <2>2, EnterCall DEF ProbeUnderWay, Probing, Checks
<1> QED
  BY <1>2, <1>3

(* The steps that only end a call, or begin the extraction of a document. *)
LEMMA OtherCall ==
  ASSUME CallsTyped, NEW c \in Calls,
         Answer(c) \/ Extract(c) \/ Return(c) \/ Cancel(c) \/ Document(c)
  PROVE  /\ CallsTyped'
         /\ \A d \in Calls : \/ call'[d] = call[d]
                             \/ /\ call'[d].at \in {"idle", "extract"}
                                /\ call'[d].verdict = "none"
                                /\ call'[d].at = "extract" => Up
         /\ UNCHANGED <<gortex, configVars, engineVars, sinceProbe, slow>>
         /\ graphify' \in {graphify, "missing", "kept"}
<1>1. "idle" \in Places /\ "extract" \in Places /\ "none" \in Verdicts
  BY DEF Places, Verdicts
<1>2. CASE Enter(c, "idle", "none") /\ UNCHANGED <<gortex, configVars, engineVars, sinceProbe, graphify, slow>>
  BY <1>1, <1>2, EnterCall
<1>3. CASE Document(c)
  <2>1. CASE UNCHANGED call
    BY <1>3, <2>1 DEF Document, OutOfScope, NotInstalled, Installed, CallsTyped
  <2>2. CASE Installed(c)
    BY <1>1, <1>3, <2>2, EnterCall DEF Document, Installed
  <2> QED
    BY <1>3, <2>1, <2>2 DEF Document, OutOfScope, NotInstalled
<1> QED
  BY <1>2, <1>3 DEF Answer, Extract, Return, Cancel

(* A tick makes the probes older, and nothing else. *)
LEMMA TickCall ==
  ASSUME CallsTyped, Tick
  PROVE  /\ CallsTyped'
         /\ \A c \in Calls : /\ call'[c].at = call[c].at
                             /\ call'[c].verdict = call[c].verdict
                             /\ call'[c].age = (IF ProbeUnderWay(c) THEN Older(call[c].age)
                                                                    ELSE call[c].age)
<1>1. \A c \in Calls : call[c] \in CallType /\ Older(call[c].age) \in 0..Interval
  BY IntervalAssumption DEF CallsTyped, CallType, Older
<1>2. \A c \in Calls : call'[c] = IF ProbeUnderWay(c)
                                  THEN [call[c] EXCEPT !.age = Older(call[c].age)]
                                  ELSE call[c]
  BY DEF Tick
<1>3. ASSUME NEW c \in Calls
      PROVE  /\ call'[c].at = call[c].at /\ call'[c].verdict = call[c].verdict
             /\ call'[c].age = (IF ProbeUnderWay(c) THEN Older(call[c].age) ELSE call[c].age)
             /\ call'[c] \in CallType
  <2>1. CASE ProbeUnderWay(c)
    <3>1. call'[c] = [call[c] EXCEPT !.age = Older(call[c].age)]
      BY <1>2, <2>1
    <3> QED
      BY <1>1, <2>1, <3>1 DEF CallType
  <2>2. CASE ~ ProbeUnderWay(c)
    BY <1>1, <1>2, <2>2
  <2> QED
    BY <2>1, <2>2
<1>4. call' = [c \in Calls |-> call'[c]]
  BY DEF Tick
<1> QED
  BY <1>3, <1>4 DEF CallsTyped
-----------------------------------------------------------------------------
(***************************************************************************)
(* The cause of having no engine.                                          *)
(***************************************************************************)
LEMMA InitCause == Init => CauseInv
<1> SUFFICES ASSUME Init PROVE CauseInv
  OBVIOUS
<1>0. CallsTyped
  BY IdleCalls DEF Init, CallsTyped
<1>1. TypeOK
  <2>1. sinceProbe \in 0..Interval
    BY IntervalAssumption DEF Init
  <2> QED
    BY <1>0, <2>1, TypeParts, Zenon DEF Init
<1>2. \A c \in Calls : call[c].at = "idle" /\ call[c].verdict = "none"
  BY DEF Init, Idle
<1> QED
  BY <1>1, <1>2 DEF Init, CauseInv, VerdictFits, OnlyWhenUp, ReasonFits, Up, Checks

(* Starting and stopping: no call is under way in either. *)
LEMMA BootCause == ASSUME CauseInv, Start \/ BootCheck \/ Stop PROVE CauseInv'
<1>1. CASE Start
  <2>1. TypeOK'
    BY <1>1 DEF CauseInv, TypeOK, Start, Checks, Reasons
  <2>2. ~ Up /\ \A c \in Calls : call'[c].at = "idle" /\ call'[c].verdict = "none"
    BY <1>1 DEF CauseInv, OnlyWhenUp, Start, Up
  <2>3. VerdictFits'
    BY <1>1, <2>2 DEF CauseInv, VerdictFits, Start
  <2>4. OnlyWhenUp' /\ ReasonFits'
    BY <1>1, <2>2 DEF CauseInv, OnlyWhenUp, ReasonFits, Start, Up, Checks, Reasons
  <2> QED
    BY <2>1, <2>3, <2>4 DEF CauseInv
<1>2. CASE BootCheck
  <2> DEFINE next == Conclusion(boot)
  <2>1. /\ next \in Checks \/ next \in (Reasons \cup {"found"}) \ {"unconfigured"}
        /\ boot \in Checks /\ target
    BY <1>2 DEF Conclusion, Reachable, Compatible, Capable, Checks, Reasons, BootCheck, CauseInv, OnlyWhenUp
  <2>2. /\ boot' = IF next \in Checks THEN next ELSE "up"
        /\ primary' = (next = "found")
        /\ reason' = IF next \in Reasons THEN next ELSE "none"
        /\ UNCHANGED <<gortex, target, sinceProbe, call, graphify, slow>>
    BY <1>2 DEF BootCheck
  <2> HIDE DEF next
  <2>3. TypeOK'
    BY <2>1, <2>2 DEF CauseInv, TypeOK
  <2>4. VerdictFits' /\ OnlyWhenUp'
    BY <2>1, <2>2 DEF CauseInv, VerdictFits, OnlyWhenUp, Up, Checks
  <2>5. ReasonFits'
    BY <2>1, <2>2 DEF ReasonFits, Up, Checks, Reasons
  <2> QED
    BY <2>3, <2>4, <2>5 DEF CauseInv
<1>3. CASE Stop
  <2>0. CallsTyped'
    BY <1>3, IdleCalls DEF Stop, CallsTyped, CallType
  <2>1. TypeOK'
    <3>1. gortex' \in Servers
      BY <1>3, TypeParts DEF Stop, CauseInv
    <3>2. sinceProbe' \in 0..Interval
      BY <1>3, IntervalAssumption DEF Stop
    <3> QED
      BY <1>3, <2>0, <3>1, <3>2, Zenon DEF Stop, TypeOK, CallsTyped, CallType, Verdicts
  <2>2. \A c \in Calls : call'[c].at = "idle" /\ call'[c].verdict = "none"
    BY <1>3 DEF Stop, Idle
  <2> QED
    BY <1>3, <2>1, <2>2 DEF Stop, CauseInv, VerdictFits, OnlyWhenUp, ReasonFits, Up, Checks
<1> QED
  BY <1>1, <1>2, <1>3

(* A question, a check of its probe, and the verdict. *)
LEMMA CallCause ==
  ASSUME CauseInv, NEW c \in Calls, Ask(c) \/ Probe(c) \/ Learn(c)
  PROVE  CauseInv'
<1> USE DEF CauseInv
<1>0. CallsTyped /\ reason \in Reasons \cup {"none"}
  BY DEF TypeOK, CallsTyped, CallType, Verdicts
<1>1. CASE Ask(c)
  <2>1. Up /\ UNCHANGED <<gortex, boot, target, primary, graphify, slow>>
    BY <1>1 DEF Ask
  <2>2. /\ CallsTyped' /\ reason' = reason /\ sinceProbe' \in {0, sinceProbe}
        /\ \A d \in Calls : d # c => call'[d] = call[d]
    BY <1>0, <1>1, AskCall DEF Ask
  <2>3. \/ call'[c].at # "learn" /\ call'[c].verdict = "none"
        \/ ~ target /\ call'[c].at = "learn" /\ call'[c].verdict = "unconfigured"
        \/ ~ primary /\ call'[c].at = "refused" /\ call'[c].verdict = Cause
    BY <1>0, <1>1, AskCall DEF Ask
  <2>4. TypeOK'
    BY <2>1, <2>2, IntervalAssumption DEF TypeOK, CallsTyped, CallType, Verdicts
  <2>5. ~ primary => (Cause = reason /\ (Cause = "unconfigured" => ~ target))
    BY <2>1 DEF ReasonFits, Cause, Up, Reasons
  <2>6. VerdictFits'
    BY <2>1, <2>2, <2>3, <2>5 DEF VerdictFits, Reasons
  <2>7. OnlyWhenUp' /\ ReasonFits'
    BY <2>1, <2>2 DEF OnlyWhenUp, ReasonFits, Up, Checks
  <2> QED
    BY <2>4, <2>6, <2>7
<1>2. CASE Probe(c)
  <2>1. UNCHANGED <<gortex, configVars, engineVars, sinceProbe, graphify, slow>> /\ Up
    BY <1>2 DEF Probe, OnlyWhenUp, Checks
  <2>2. /\ CallsTyped'
        /\ \A d \in Calls : d # c => call'[d] = call[d]
        /\ \/ call'[c].at # "learn" /\ call'[c].verdict = call[c].verdict
           \/ /\ call'[c].at = "learn"
              /\ call'[c].verdict \in (Reasons \cup {"found"}) \ {"unconfigured"}
    BY <1>0, <1>2, ProbeCall DEF Checks
  <2>3. TypeOK'
    BY <2>1, <2>2 DEF TypeOK, CallsTyped, CallType, Verdicts, configVars, engineVars
  <2>4. VerdictFits'
    BY <2>1, <2>2 DEF VerdictFits, configVars
  <2>5. OnlyWhenUp' /\ ReasonFits'
    BY <2>1, <2>2 DEF OnlyWhenUp, ReasonFits, Up, Checks, configVars, engineVars
  <2> QED
    BY <2>3, <2>4, <2>5
<1>3. CASE Learn(c)
  <2>1. UNCHANGED <<gortex, configVars, sinceProbe, graphify, slow>> /\ Up
    BY <1>3 DEF Learn, OnlyWhenUp
  <2>2. /\ CallsTyped'
        /\ \A d \in Calls : d # c => call'[d] = call[d]
        /\ primary' \in BOOLEAN
        /\ \/ primary' /\ reason' = "none" /\ call'[c].at = "ask" /\ call'[c].verdict = "none"
           \/ /\ ~ primary' /\ reason' = call[c].verdict /\ call[c].verdict \in Reasons
              /\ call'[c].at = "refused" /\ call'[c].verdict = call[c].verdict
    BY <1>0, <1>3, LearnCall
  <2>3. TypeOK'
    BY <2>1, <2>2 DEF TypeOK, CallsTyped, CallType, Verdicts, configVars
  <2>4. VerdictFits'
    BY <2>1, <2>2 DEF VerdictFits, configVars
  <2>5. OnlyWhenUp' /\ ReasonFits'
    BY <2>1, <2>2 DEF VerdictFits, OnlyWhenUp, ReasonFits, Up, Checks, configVars
  <2> QED
    BY <2>3, <2>4, <2>5
<1> QED
  BY <1>1, <1>2, <1>3

(* Everything else leaves the engine and its cause alone. *)
LEMMA OtherCause ==
  ASSUME CauseInv,
         \/ \E c \in Calls : Answer(c) \/ Extract(c) \/ Return(c) \/ Cancel(c) \/ Document(c)
         \/ Tick \/ ServerChanges \/ UNCHANGED vars
  PROVE  CauseInv'
<1> USE DEF CauseInv
<1>0. CallsTyped
  BY DEF TypeOK, CallsTyped, CallType, Verdicts
<1>1. ASSUME NEW c \in Calls,
             Answer(c) \/ Extract(c) \/ Return(c) \/ Cancel(c) \/ Document(c)
      PROVE  CauseInv'
  <2>1. /\ CallsTyped'
        /\ \A d \in Calls : \/ call'[d] = call[d]
                            \/ /\ call'[d].at \in {"idle", "extract"}
                               /\ call'[d].verdict = "none"
                               /\ call'[d].at = "extract" => Up
        /\ UNCHANGED <<gortex, configVars, engineVars, sinceProbe, slow>>
        /\ graphify' \in {graphify, "missing", "kept"}
    BY <1>0, <1>1, OtherCall
  <2>2. TypeOK'
    BY <2>1 DEF TypeOK, CallsTyped, CallType, Verdicts, configVars, engineVars
  <2>3. VerdictFits'
    BY <2>1 DEF VerdictFits, configVars, Reasons
  <2>4. OnlyWhenUp' /\ ReasonFits'
    BY <2>1 DEF OnlyWhenUp, ReasonFits, Up, Checks, configVars, engineVars
  <2> QED
    BY <2>2, <2>3, <2>4
<1>2. CASE Tick
  <2>1. CallsTyped' /\ \A c \in Calls : call'[c].at = call[c].at /\ call'[c].verdict = call[c].verdict
    BY <1>0, <1>2, TickCall
  <2>2. UNCHANGED <<gortex, boot, target, primary, reason, graphify>> /\ sinceProbe' = Older(sinceProbe)
        /\ slow' \in BOOLEAN
    BY <1>2 DEF Tick, configVars, engineVars, TypeOK
  <2>3. Older(sinceProbe) \in 0..Interval
    BY IntervalAssumption DEF TypeOK, Older
  <2>4. TypeOK'
    BY <2>1, <2>2, <2>3 DEF TypeOK, CallsTyped, CallType, Verdicts
  <2>5. VerdictFits' /\ OnlyWhenUp' /\ ReasonFits'
    BY <2>1, <2>2 DEF VerdictFits, OnlyWhenUp, ReasonFits, Up
  <2> QED
    BY <2>4, <2>5
<1>3. CASE ServerChanges \/ UNCHANGED vars
  <2>1. UNCHANGED <<boot, target, primary, reason, sinceProbe, call, graphify, slow>>
        /\ (gortex' \in Servers \/ gortex' = gortex)
    BY <1>3 DEF ServerChanges, vars, configVars, engineVars
  <2>2. TypeOK'
    BY <2>1 DEF TypeOK
  <2>3. VerdictFits' /\ OnlyWhenUp' /\ ReasonFits'
    BY <2>1 DEF VerdictFits, OnlyWhenUp, ReasonFits, Up
  <2> QED
    BY <2>2, <2>3
<1> QED
  BY <1>1, <1>2, <1>3

(* Every step, by what it can disturb. *)
LEMMA Steps ==
  ASSUME [Next]_vars
  PROVE  \/ Start \/ BootCheck \/ Stop
         \/ \E c \in Calls : Ask(c) \/ Probe(c) \/ Learn(c)
         \/ \E c \in Calls : Answer(c) \/ Extract(c) \/ Return(c) \/ Cancel(c) \/ Document(c)
         \/ Tick \/ ServerChanges \/ UNCHANGED vars
  BY DEF Next, AskSome, CancelSome, Step

(* All steps together. *)
LEMMA CauseStep == CauseInv /\ [Next]_vars => CauseInv'
<1> SUFFICES ASSUME CauseInv, [Next]_vars PROVE CauseInv'
  OBVIOUS
<1> QED
  BY Steps, BootCause, CallCause, OtherCause

(* The types of RoutingEngine's state and of the calls, always. *)
THEOREM Typed == Spec => []TypeOK
<1>1. CauseInv => TypeOK
  BY DEF CauseInv
<1> QED
  BY <1>1, InitCause, CauseStep, PTL DEF Spec

(* A caller is told why there is no engine, and "unconfigured" only when the *)
(* configuration names none (router.py:96-113).                              *)
THEOREM CauseIsReal == Spec => []RealCause
<1>1. CauseInv => RealCause
  BY DEF CauseInv, RealCause, ReasonFits, VerdictFits
<1> QED
  BY <1>1, InitCause, CauseStep, PTL DEF Spec
-----------------------------------------------------------------------------
(***************************************************************************)
(* Probes that overlap.                                                    *)
(***************************************************************************)
LEMMA InitProbe == Init => ProbeInv
<1> SUFFICES ASSUME Init PROVE ProbeInv
  OBVIOUS
<1>1. \A c \in Calls : ~ ProbeUnderWay(c)
  BY DEF Init, Idle, ProbeUnderWay, Probing, Checks
<1> QED
  BY <1>1, InitCause DEF ProbeInv, OldestFirst, OneYoungProbe, OneProbe

(* Without calls there is nothing to show. *)
LEMMA NoProbes ==
  ASSUME \A c \in Calls : ~ ProbeUnderWay(c)'
  PROVE  OldestFirst' /\ OneYoungProbe' /\ OneProbe'
  BY DEF OldestFirst, OneYoungProbe, OneProbe

(* Before a daemon serves it has no calls. *)
LEMMA BootProbe ==
  ASSUME ProbeInv, Start \/ BootCheck \/ Stop
  PROVE  OldestFirst' /\ OneYoungProbe' /\ OneProbe'
<1>1. CASE Start \/ BootCheck
  <2>1. ~ Up /\ call' = call
    BY <1>1 DEF Start, BootCheck, Up, Checks
  <2>2. \A c \in Calls : call'[c].at = "idle"
    BY <2>1 DEF ProbeInv, CauseInv, OnlyWhenUp
  <2> QED
    BY <2>2, NoProbes DEF ProbeUnderWay, Probing, Checks
<1>2. CASE Stop
  <2>1. \A c \in Calls : call'[c].at = "idle"
    BY <1>2 DEF Stop, Idle
  <2> QED
    BY <2>1, NoProbes DEF ProbeUnderWay, Probing, Checks
<1> QED
  BY <1>1, <1>2

(* A step after which no probe is new and every probe has the age it had. *)
LEMMA FewerProbes ==
  ASSUME ProbeInv, sinceProbe' = sinceProbe, slow' = slow,
         \A c \in Calls : ProbeUnderWay(c)' => ProbeUnderWay(c) /\ call'[c].age = call[c].age,
         (primary' /\ ~ primary /\ ~ slow) => \A c \in Calls : ~ ProbeUnderWay(c)'
  PROVE  OldestFirst' /\ OneYoungProbe' /\ OneProbe'
  BY DEF ProbeInv, OldestFirst, OneYoungProbe, OneProbe

(* A probe begins only when every other has outlasted the interval. *)
LEMMA NewProbe ==
  ASSUME ProbeInv, NEW c \in Calls, ~ primary, MayProbe,
         sinceProbe' = 0, slow' = slow, primary' = primary, CallsTyped',
         call'[c].age = 0,
         \A d \in Calls : d # c => call'[d] = call[d]
  PROVE  OldestFirst' /\ OneYoungProbe' /\ OneProbe'
<1>1. \A d \in Calls : call[d].age \in 0..Interval /\ call'[d].age \in 0..Interval
  BY DEF ProbeInv, CauseInv, TypeOK, CallsTyped, CallType
<1>2. \A d \in Calls : ProbeUnderWay(d) => ~ (call[d].age < Interval)
  BY <1>1, IntervalAssumption DEF ProbeInv, OldestFirst, MayProbe
<1>3. \A d \in Calls : d # c => (ProbeUnderWay(d)' => ProbeUnderWay(d) /\ call'[d].age = call[d].age)
  BY DEF ProbeUnderWay
<1>4. OldestFirst'
  BY <1>1, IntervalAssumption DEF OldestFirst
<1>5. OneYoungProbe'
  BY <1>2, <1>3 DEF OneYoungProbe
<1>6. OneProbe'
  BY <1>2, <1>3, IntervalAssumption DEF ProbeInv, OneProbe
<1> QED
  BY <1>4, <1>5, <1>6

(* A call that begins, goes on with, or applies a probe. *)
LEMMA CallProbe ==
  ASSUME ProbeInv, NEW c \in Calls, Ask(c) \/ Probe(c) \/ Learn(c)
  PROVE  OldestFirst' /\ OneYoungProbe' /\ OneProbe'
<1>0. CallsTyped /\ VerdictFits /\ reason \in Reasons \cup {"none"}
  BY DEF ProbeInv, CauseInv, TypeOK, CallsTyped, CallType, Verdicts
<1>1. CASE Ask(c)
  <2>1. slow' = slow /\ primary' = primary
    BY <1>1 DEF Ask
  <2>2. /\ CallsTyped' /\ call'[c].age = 0
        /\ \A d \in Calls : d # c => call'[d] = call[d]
        /\ \/ call'[c].at \in {"ask", "refused"} /\ sinceProbe' = sinceProbe
           \/ ~ primary /\ MayProbe /\ sinceProbe' = 0
    BY <1>0, <1>1, AskCall DEF Ask
  <2>3. CASE call'[c].at \in {"ask", "refused"} /\ sinceProbe' = sinceProbe
    <3>1. \A d \in Calls : ProbeUnderWay(d)' => ProbeUnderWay(d) /\ call'[d].age = call[d].age
      BY <2>2, <2>3 DEF ProbeUnderWay, Probing, Checks
    <3> QED
      BY <2>1, <2>3, <3>1, FewerProbes
  <2>4. CASE ~ primary /\ MayProbe /\ sinceProbe' = 0
    BY <2>1, <2>2, <2>4, NewProbe
  <2> QED
    BY <2>2, <2>3, <2>4
<1>2. CASE Probe(c)
  <2>1. sinceProbe' = sinceProbe /\ slow' = slow /\ primary' = primary
    BY <1>2 DEF Probe, engineVars
  <2>2. \A d \in Calls : ProbeUnderWay(d)' => ProbeUnderWay(d) /\ call'[d].age = call[d].age
    BY <1>0, <1>2, ProbeCall DEF ProbeUnderWay
  <2> QED
    BY <2>1, <2>2, FewerProbes
<1>3. CASE Learn(c)
  <2>1. sinceProbe' = sinceProbe /\ slow' = slow
    BY <1>3 DEF Learn
  <2>2. /\ ProbeUnderWay(c) /\ ~ ProbeUnderWay(c)'
        /\ \A d \in Calls : d # c => (ProbeUnderWay(d)' => ProbeUnderWay(d) /\ call'[d].age = call[d].age)
    BY <1>0, <1>3, LearnCall DEF ProbeUnderWay
  <2>3. ~ slow => \A d \in Calls : ~ ProbeUnderWay(d)'
    BY <2>2 DEF ProbeInv, OneProbe, OneYoungProbe
  <2> QED
    BY <2>1, <2>2, <2>3, FewerProbes
<1> QED
  BY <1>1, <1>2, <1>3

(* The steps that begin no probe, and the clock. *)
LEMMA OtherProbe ==
  ASSUME ProbeInv,
         \/ \E c \in Calls : Answer(c) \/ Extract(c) \/ Return(c) \/ Cancel(c) \/ Document(c)
         \/ Tick \/ ServerChanges \/ UNCHANGED vars
  PROVE  OldestFirst' /\ OneYoungProbe' /\ OneProbe'
<1>0. CallsTyped
  BY DEF ProbeInv, CauseInv, TypeOK, CallsTyped, CallType, Verdicts
<1>1. ASSUME NEW c \in Calls,
             Answer(c) \/ Extract(c) \/ Return(c) \/ Cancel(c) \/ Document(c)
      PROVE  OldestFirst' /\ OneYoungProbe' /\ OneProbe'
  <2>1. /\ \A d \in Calls : call'[d] = call[d] \/ call'[d].at \in {"idle", "extract"}
        /\ UNCHANGED <<engineVars, sinceProbe, slow>>
    BY <1>0, <1>1, OtherCall
  <2>2. \A d \in Calls : ProbeUnderWay(d)' => ProbeUnderWay(d) /\ call'[d].age = call[d].age
    BY <2>1 DEF ProbeUnderWay, Probing, Checks
  <2>3. primary' = primary /\ sinceProbe' = sinceProbe /\ slow' = slow
    BY <2>1 DEF engineVars
  <2> QED
    BY <2>2, <2>3, FewerProbes
<1>2. CASE Tick
  <2>1. \A c \in Calls : /\ ProbeUnderWay(c)' <=> ProbeUnderWay(c)
                         /\ ProbeUnderWay(c) => call'[c].age = Older(call[c].age)
    BY <1>0, <1>2, TickCall DEF ProbeUnderWay
  <2>2. /\ sinceProbe' = Older(sinceProbe) /\ primary' = primary
        /\ slow' = (slow \/ \E c \in Calls : ProbeUnderWay(c) /\ call[c].age + 1 >= Interval)
    BY <1>2 DEF Tick, engineVars
  <2>3. sinceProbe \in 0..Interval /\ \A c \in Calls : call[c].age \in 0..Interval
    BY <1>0 DEF ProbeInv, CauseInv, TypeOK, CallsTyped, CallType
  <2>4. OldestFirst'
    BY <2>1, <2>2, <2>3, IntervalAssumption DEF ProbeInv, OldestFirst, Older
  <2>5. \A c \in Calls : (ProbeUnderWay(c) /\ call'[c].age < Interval) => call[c].age < Interval
    BY <2>1, <2>3, IntervalAssumption DEF Older
  <2>6. OneYoungProbe'
    BY <2>1, <2>5 DEF ProbeInv, OneYoungProbe
  <2>7. OneProbe'
    <3> SUFFICES ASSUME ~ slow' PROVE OneProbe'
      BY DEF OneProbe
    <3>1. ~ slow /\ \A c \in Calls : ProbeUnderWay(c) => ~ (call[c].age + 1 >= Interval)
      BY <2>2
    <3>2. \A c \in Calls : ProbeUnderWay(c) => call'[c].age < Interval
      BY <2>1, <2>3, <3>1, IntervalAssumption DEF Older
    <3> QED
      BY <2>1, <2>2, <3>1, <3>2 DEF ProbeInv, OneProbe
  <2> QED
    BY <2>4, <2>6, <2>7
<1>3. CASE ServerChanges \/ UNCHANGED vars
  <2>1. sinceProbe' = sinceProbe /\ slow' = slow /\ primary' = primary /\ call' = call
    BY <1>3 DEF ServerChanges, vars, engineVars
  <2> QED
    BY <2>1, FewerProbes DEF ProbeUnderWay
<1> QED
  BY <1>1, <1>2, <1>3

(* All steps together. *)
LEMMA ProbeStep == ProbeInv /\ [Next]_vars => ProbeInv'
<1> SUFFICES ASSUME ProbeInv, [Next]_vars PROVE ProbeInv'
  OBVIOUS
<1>1. CauseInv'
  BY CauseStep DEF ProbeInv
<1>2. OldestFirst' /\ OneYoungProbe' /\ OneProbe'
  BY Steps, BootProbe, CallProbe, OtherProbe
<1> QED
  BY <1>1, <1>2 DEF ProbeInv

(* However long probes take, at most one is younger than the interval: an   *)
(* absent engine costs one probe per interval (router.py:86-89).            *)
THEOREM ProbesAreRateLimited == Spec => []OneYoungProbe
<1>1. ProbeInv => OneYoungProbe
  BY DEF ProbeInv
<1> QED
  BY <1>1, InitProbe, ProbeStep, PTL DEF Spec

(* As long as no probe outlasts the interval, an engine once found is kept   *)
(* for the rest of the process's life (router.py:89-90).                     *)
THEOREM EngineIsKept == Spec => EngineKept
<1>1. ASSUME ProbeInv, [Next]_vars, primary, ~ slow'
      PROVE  primary' \/ boot' = "off"
  <2>1. CASE Start \/ BootCheck \/ Stop
    <3>1. CASE Start
      BY <1>1, <3>1 DEF Start
    <3>2. CASE BootCheck
      BY <1>1, <3>2 DEF ProbeInv, CauseInv, OnlyWhenUp, BootCheck, Checks
    <3>3. CASE Stop
      BY <3>3 DEF Stop
    <3> QED
      BY <2>1, <3>1, <3>2, <3>3
  <2>2. ASSUME NEW c \in Calls, Ask(c) \/ Probe(c)
        PROVE  primary'
    BY <1>1, <2>2 DEF Ask, Probe, engineVars
  <2>3. ASSUME NEW c \in Calls, Learn(c)
        PROVE  FALSE
    <3>1. slow' = slow /\ ProbeUnderWay(c)
      BY <2>3 DEF Learn, ProbeUnderWay, Probing
    <3> QED
      BY <1>1, <3>1 DEF ProbeInv, OneProbe
  <2>4. ASSUME NEW c \in Calls, Answer(c) \/ Extract(c) \/ Return(c) \/ Cancel(c) \/ Document(c)
        PROVE  primary'
    BY <1>1, <2>4 DEF Answer, Extract, Return, Cancel, Document, engineVars
  <2>5. CASE Tick \/ ServerChanges \/ UNCHANGED vars
    BY <1>1, <2>5 DEF Tick, ServerChanges, vars, engineVars
  <2> QED
    BY <1>1, <2>1, <2>2, <2>3, <2>4, <2>5, Steps
<1>2. ProbeInv /\ [Next]_vars => [(primary /\ ~ slow') => (primary' \/ boot' = "off")]_vars
  BY <1>1
<1> QED
  BY <1>2, InitProbe, ProbeStep, PTL DEF Spec, EngineKept

-----------------------------------------------------------------------------
(***************************************************************************)
(* The daemon and its parts.                                               *)
(***************************************************************************)
TokenProofs == INSTANCE DaemonTokenProofs WITH Procs <- {Server} \cup Clients

(* A daemon that has started has its token. *)
ServerHasToken == boot # "off" => Token!Has(Server)

ServerInv == ServerHasToken /\ TokenProofs!TokenInv

-----------------------------------------------------------------------------
(* A step of the daemon is a step of the routing, or leaves it alone. *)
LEMMA RoutingStep == [DaemonNext]_daemonVars => [Next]_vars
  BY DEF DaemonNext, daemonVars, StartDaemon, StopDaemon, StopEarly, TokenStep, ClientLeaves,
         Serve, Work, Next, AskSome, CancelSome

(* And a step of the processes on their way to the token, or leaves them. *)
LEMMA TokenPart == [DaemonNext]_daemonVars => [TokenProofs!Next]_TokenProofs!vars
<1>1. Token!Next <=> TokenProofs!Next
  BY DEF Token!Next, TokenProofs!Next, Token!Load, TokenProofs!Load, Token!Break,
         TokenProofs!Break, Token!Leave, TokenProofs!Leave, Token!Enter,
         TokenProofs!Enter, Token!Look, TokenProofs!Look, Token!Create,
         TokenProofs!Create, Token!Write, TokenProofs!Write, Token!Close,
         TokenProofs!Close, Token!Read, TokenProofs!Read, Token!ReadFails,
         TokenProofs!ReadFails, Token!Fail, TokenProofs!Fail, Token!Kill,
         TokenProofs!Kill, Token!Has, TokenProofs!Has, Token!Go, TokenProofs!Go,
         Token!Exists, TokenProofs!Exists, Token!NoFile, TokenProofs!NoFile,
         Token!Empty, TokenProofs!Empty, Token!EmptyFile, TokenProofs!EmptyFile,
         Token!Unused, TokenProofs!Unused, Token!NewToken, TokenProofs!NewToken,
         Token!Tokens, TokenProofs!Tokens, Token!history, TokenProofs!history
<1> QED
  BY <1>1 DEF DaemonNext, daemonVars, StartDaemon, StopDaemon, StopEarly, TokenStep, ClientLeaves,
         Serve, Work, Token!Next, tokenVars, TokenProofs!vars

(* The composition begins as its token part does. *)
LEMMA DaemonStarts == DaemonInit => TokenProofs!Init
  BY DEF DaemonInit, Token!Init, TokenProofs!Init, Token!NoFile, TokenProofs!NoFile,
         Token!Out, TokenProofs!Out, Token!Empty, TokenProofs!Empty

(* The daemon implements its routing: what GraphRouting's theorems say of   *)
(* every behaviour of theirs they say of every behaviour of the daemon.     *)
THEOREM DaemonIsRouting == DaemonSpec => Spec
<1>1. DaemonInit => Init
  BY DEF DaemonInit
<1> QED
  BY <1>1, RoutingStep, PTL DEF DaemonSpec, Spec

(* The daemon and its clients are processes of DaemonToken. *)
THEOREM DaemonIsToken == DaemonSpec => TokenProofs!Spec
  BY DaemonStarts, TokenPart, PTL DEF DaemonSpec, TokenProofs!Spec

(* Each variable of the composition keeps its type, whatever the parts do. *)
THEOREM DaemonTyped == DaemonSpec => []DaemonTypeOK
<1>1. TypeOK /\ TokenProofs!TypeOK => DaemonTypeOK
  BY DEF DaemonTypeOK, Token!TypeOK, TokenProofs!TypeOK, Token!NoFile, TokenProofs!NoFile,
     Token!EmptyFile, TokenProofs!EmptyFile, Token!Empty, TokenProofs!Empty, Token!Tokens,
     TokenProofs!Tokens
<1> QED
  BY <1>1, DaemonIsRouting, DaemonIsToken, Typed, TokenProofs!TokenTyped, PTL

(* Why a client of the daemon is told there is no engine (router.py:96-113). *)
THEOREM DaemonTellsTheCause == DaemonSpec => []RealCause
  BY DaemonIsRouting, CauseIsReal, PTL

(* An engine found is kept by a daemon whose probes are short (router.py:89). *)
THEOREM DaemonKeepsTheEngine == DaemonSpec => EngineKept
  BY DaemonIsRouting, EngineIsKept, PTL

-----------------------------------------------------------------------------
(***************************************************************************)
(* The daemon's token.                                                     *)
(***************************************************************************)

(* The daemon's process keeps its token until it ends. *)
LEMMA TokenStays ==
  ASSUME TokenProofs!TokenInv, NEW p \in {Server} \cup Clients, Token!Has(Server),
         Token!Load(p) \/ Token!Break(p) \/ (p # Server /\ Token!Leave(p))
  PROVE  Token!Has(Server)'
<1>1. DOMAIN process = {Server} \cup Clients
  BY DEF TokenProofs!TokenInv, TokenProofs!Typed
<1>2. CASE p = Server
  BY <1>2 DEF Token!Has, Token!Load, Token!Break, Token!Enter, Token!Look, Token!Create,
     Token!Write, Token!Close, Token!Read, Token!ReadFails, Token!Fail, Token!Kill
<1>3. CASE p # Server
  <2>1. \E place, t : Token!Go(p, place, t)
    <3>1. CASE Token!Create(p)
      BY <3>1 DEF Token!Create
    <3> QED
      BY <3>1 DEF Token!Load, Token!Break, Token!Leave, Token!Enter, Token!Look,
         Token!Write, Token!Close, Token!Read, Token!ReadFails, Token!Fail, Token!Kill
  <2> QED
    BY <1>1, <1>3, <2>1 DEF Token!Go, Token!Has
<1> QED
  BY <1>2, <1>3

(* A started daemon keeps its token until it stops. *)
LEMMA ServerStep == ServerInv /\ [DaemonNext]_daemonVars => ServerInv'
<1> SUFFICES ASSUME ServerInv, [DaemonNext]_daemonVars PROVE ServerInv'
  OBVIOUS
<1>1. TokenProofs!TokenInv /\ TokenProofs!TokenInv'
  BY TokenPart, TokenProofs!TokenStep DEF ServerInv
<1>2. ServerHasToken'
  <2>1. CASE StartDaemon
    BY <2>1 DEF StartDaemon, ServerHasToken, Token!Has, tokenVars
  <2>2. CASE StopDaemon \/ StopEarly
    BY <2>2 DEF StopDaemon, StopEarly, Stop, vars, ServerHasToken
  <2>3. CASE TokenStep
    BY <1>1, <2>3, TokenStays DEF TokenStep, ServerInv, ServerHasToken, vars
  <2>4. ASSUME NEW p \in Clients, ClientLeaves(p)
        PROVE  ServerHasToken'
    BY <1>1, <2>4, TokenStays, ServerIsNoClient DEF ClientLeaves, ServerInv, ServerHasToken, vars
  <2>5. CASE Serve \/ Work \/ UNCHANGED daemonVars
    <3>1. tokenVars' = tokenVars
      BY <2>5 DEF Serve, Work, daemonVars
    <3>2. boot' # "off" => boot # "off"
      <4>1. CASE BootCheck
        BY <4>1 DEF BootCheck, Checks
      <4>2. CASE Serve
        BY <4>2 DEF Serve, Ask, Document, configVars
      <4>3. ASSUME NEW c \in Calls, Step(c) \/ Cancel(c)
            PROVE  boot' = boot
        BY <4>3 DEF Step, Probe, Learn, Answer, Extract, Return, Cancel, configVars
      <4>4. CASE Tick \/ ServerChanges \/ UNCHANGED daemonVars
        BY <4>4 DEF Tick, ServerChanges, daemonVars, vars, configVars
      <4> QED
        BY <2>5, <4>1, <4>2, <4>3, <4>4 DEF Work, CancelSome
    <3> QED
      BY <3>1, <3>2 DEF ServerInv, ServerHasToken, Token!Has, tokenVars
  <2> QED
    BY <2>1, <2>2, <2>3, <2>4, <2>5 DEF DaemonNext
<1> QED
  BY <1>1, <1>2 DEF ServerInv

(* No client is turned away by a daemon that serves, however the two and    *)
(* others raced for the file (daemon_auth.py:48-50), unless one of the two  *)
(* read it empty or a token was removed after it was written.               *)
THEOREM ClientsAccepted == DaemonSpec => []ClientsAreAccepted
<1>1. DaemonInit => ServerInv
  <2>1. DaemonInit => TokenProofs!TokenInv
    BY DaemonStarts, TokenProofs!InitToken
  <2> QED
    BY <2>1 DEF DaemonInit, Init, ServerInv, ServerHasToken
<1>2. ServerInv => ClientsAreAccepted
  BY DEF ServerInv, ServerHasToken, TokenProofs!TokenInv, TokenProofs!HeldTokenIsTheFiles,
     ClientsAreAccepted, Accepted, Token!Has, TokenProofs!Has, Token!Empty, TokenProofs!Empty
<1> QED
  BY <1>1, <1>2, ServerStep, PTL DEF DaemonSpec

(* The file stays empty only if the process that created it was killed. *)
THEOREM EmptyOnlyAfterAKill == DaemonSpec => []EmptyFileIsBeingWritten
<1>1. TokenProofs!EmptyFileIsBeingWritten => EmptyFileIsBeingWritten
  BY DEF EmptyFileIsBeingWritten, Token!EmptyFileIsBeingWritten, Token!EmptyFile, Token!Empty,
     TokenProofs!EmptyFileIsBeingWritten, TokenProofs!EmptyFile, TokenProofs!Empty
<1> QED
  BY <1>1, DaemonIsToken, TokenProofs!OnlyAKillLeavesItEmpty, PTL
=============================================================================
