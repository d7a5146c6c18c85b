---------------------------- MODULE GraphRouting ----------------------------
(***************************************************************************)
(* The graph side of the daemon: how RoutingEngine (graph/router.py) finds *)
(* the user's gortex server, keeps it, and tells a caller why there is     *)
(* none.  The server is checked once when the daemon starts and, while     *)
(* none has been found, again by a call that asks, at most once in         *)
(* Interval.  A check is three requests to a server that comes, goes and   *)
(* is replaced in between, made in a thread while other calls go on; only  *)
(* its end is applied to the daemon's state.                               *)
(***************************************************************************)
EXTENDS Naturals

CONSTANTS Calls,     \* the tool calls the daemon can have under way
          Interval   \* ticks of the clock in _REPROBE_INTERVAL_SECONDS

ASSUME IntervalAssumption == Interval \in Nat \ {0}

VARIABLES gortex,      \* external: what answers at the configured address
          boot,        \* where the daemon is between "off" and "up"
          target,      \* the config it loaded has a [[graph.engines]] entry
          primary,     \* RoutingEngine._primary is set
          reason,      \* RoutingEngine._unavailable_reason
          sinceProbe,  \* the time since _last_reprobe_at, Interval at most
          call,        \* each call: where it is, its probe's age and verdict
          graphify,    \* the document extractor: not asked for, missing, kept
          slow         \* history: a probe of this daemon outlasted Interval

vars == <<gortex, boot, target, primary, reason, sinceProbe, call, graphify, slow>>
engineVars == <<primary, reason>>
configVars == <<boot, target>>

(* "old" is too old a version; "core" lacks the tools the daemon needs. *)
Servers == {"down", "core", "old", "facade"}
Reasons == {"unconfigured", "unreachable", "version-incompatible", "incapable"}
Checks == {"reach", "version", "surface"}
Probing == Checks \cup {"learn"}
Places == Probing \cup {"idle", "ask", "extract", "refused"}

Idle == [at |-> "idle", age |-> 0, verdict |-> "none"]
Up == boot = "up"
ProbeUnderWay(c) == call[c].at \in Probing

TypeOK == /\ gortex \in Servers
          /\ boot \in Checks \cup {"off", "up"}
          /\ target \in BOOLEAN
          /\ primary \in BOOLEAN
          /\ reason \in Reasons \cup {"none"}
          /\ sinceProbe \in 0..Interval
          /\ call \in [Calls -> [at : Places, age : 0..Interval,
                                 verdict : Reasons \cup {"none", "found"}]]
          /\ graphify \in {"unasked", "missing", "kept"}
          /\ slow \in BOOLEAN

-----------------------------------------------------------------------------
(* What one of the three checks of _resolve_graph_engine_target concludes: *)
(* the name of the next check, a reason to do without, or that all passed. *)
Reachable == IF gortex = "down" THEN "unreachable" ELSE "version"
Compatible == IF gortex = "old" THEN "version-incompatible" ELSE "surface"
Capable == IF gortex \in {"old", "facade"} THEN "found" ELSE "incapable"

Conclusion(check) == CASE check = "reach" -> Reachable
                       [] check = "version" -> Compatible
                       [] check = "surface" -> Capable

Init == /\ gortex \in Servers
        /\ boot = "off"
        /\ target = FALSE
        /\ primary = FALSE
        /\ reason = "none"
        /\ sinceProbe = Interval
        /\ call = [c \in Calls |-> Idle]
        /\ graphify = "unasked"
        /\ slow = FALSE

(* The daemon reads its configuration, once.  _last_reprobe_at is 0.0 on a *)
(* clock that counts from the machine's own start, so the first probe of a *)
(* daemon on a machine just started also waits.                            *)
Start == /\ boot = "off"
         /\ \E configured \in BOOLEAN :
              /\ target' = configured
              /\ boot' = IF configured THEN "reach" ELSE "up"
              /\ reason' = IF configured THEN "none" ELSE "unconfigured"
         /\ sinceProbe' \in 0..Interval
         /\ UNCHANGED <<gortex, primary, call, graphify, slow>>

(* The check at startup, before anything is served. *)
BootCheck == /\ boot \in Checks
             /\ LET next == Conclusion(boot) IN
                  /\ boot' = IF next \in Checks THEN next ELSE "up"
                  /\ primary' = (next = "found")
                  /\ reason' = IF next \in Reasons THEN next ELSE "none"
             /\ UNCHANGED <<gortex, target, sinceProbe, call, graphify, slow>>

(* The daemon is stopped or dies: it keeps nothing. *)
Stop == /\ boot # "off"
        /\ boot' = "off"
        /\ target' = FALSE
        /\ primary' = FALSE
        /\ reason' = "none"
        /\ sinceProbe' = Interval
        /\ call' = [c \in Calls |-> Idle]
        /\ graphify' = "unasked"
        /\ slow' = FALSE
        /\ UNCHANGED gortex

-----------------------------------------------------------------------------
Enter(c, place, verdict) ==
    call' = [call EXCEPT ![c] = [at |-> place, age |-> 0, verdict |-> verdict]]

(* What the error names: the last reason, "unconfigured" when there is none. *)
Cause == IF reason = "none" THEN "unconfigured" ELSE reason

(* Mutant: every call probes. *)
ProbeAlways == TRUE

MayProbe == sinceProbe = Interval

AskEngine(c) == /\ primary
                /\ Enter(c, "ask", "none")
                /\ UNCHANGED <<sinceProbe, reason>>

(* Mutant: the time of the probe is noted when it is over. *)
AskProbeNotedLate(c) == /\ ~ primary
                        /\ MayProbe
                        /\ Enter(c, "reach", "none")
                        /\ UNCHANGED <<sinceProbe, reason>>

(* The time is noted before the probe, so the others do not probe as well. *)
AskProbe(c) == /\ ~ primary
               /\ MayProbe
               /\ sinceProbe' = 0
               /\ Enter(c, IF target THEN "reach" ELSE "learn",
                           IF target THEN "none" ELSE "unconfigured")
               /\ UNCHANGED reason

AskRefused(c) == /\ ~ primary
                 /\ ~ MayProbe
                 /\ Enter(c, "refused", Cause)
                 /\ UNCHANGED <<sinceProbe, reason>>

(* RoutingEngine.search, or execute for anything that is not a document. *)
Ask(c) == /\ Up
          /\ call[c].at = "idle"
          /\ AskEngine(c) \/ AskProbe(c) \/ AskRefused(c)
          /\ UNCHANGED <<gortex, boot, target, primary, graphify, slow>>

(* One check of a call's probe, in a thread of its own. *)
Probe(c) == /\ call[c].at \in Checks
            /\ LET next == Conclusion(call[c].at) IN
                 call' = IF next \in Checks
                         THEN [call EXCEPT ![c].at = next]
                         ELSE [call EXCEPT ![c].at = "learn", ![c].verdict = next]
            /\ UNCHANGED <<gortex, configVars, engineVars, sinceProbe, graphify, slow>>

(* Mutant: the reason a probe returns is dropped. *)
LearnWithoutReason(c) ==
    /\ call[c].at = "learn"
    /\ primary' = (call[c].verdict = "found")
    /\ reason' = IF primary' THEN "none" ELSE reason
    /\ Enter(c, IF primary' THEN "ask" ELSE "refused",
                IF primary' THEN "none" ELSE Cause)
    /\ UNCHANGED <<gortex, configVars, sinceProbe, graphify, slow>>

(* Mutant: a probe that found the engine answers its own call only. *)
LearnForItselfOnly(c) ==
    /\ call[c].at = "learn"
    /\ reason' = IF call[c].verdict = "found" THEN reason ELSE call[c].verdict
    /\ Enter(c, IF call[c].verdict = "found" THEN "ask" ELSE "refused",
                IF call[c].verdict = "found" THEN "none" ELSE reason')
    /\ UNCHANGED <<gortex, configVars, primary, sinceProbe, graphify, slow>>

(* The verdict is applied, whatever has been learnt since the probe began. *)
Learn(c) == /\ call[c].at = "learn"
            /\ primary' = (call[c].verdict = "found")
            /\ reason' = IF primary' THEN "none" ELSE call[c].verdict
            /\ Enter(c, IF primary' THEN "ask" ELSE "refused",
                        IF primary' THEN "none" ELSE reason')
            /\ UNCHANGED <<gortex, configVars, sinceProbe, graphify, slow>>

(* The engine's own request: data, a "warming" no-data answer, or one of    *)
(* the failures that _call_tool turns into an error for this call.          *)
Answer(c) == /\ call[c].at = "ask"
             /\ Enter(c, "idle", "none")
             /\ UNCHANGED <<gortex, configVars, engineVars, sinceProbe, graphify, slow>>

(* execute for a document: out of scope, graphify missing, or extracted in  *)
(* a thread.  It needs no gortex.                                           *)
OutOfScope == UNCHANGED <<call, graphify>>
NotInstalled == /\ graphify # "kept"
                /\ graphify' = "missing"
                /\ UNCHANGED call
Installed(c) == graphify' = "kept" /\ Enter(c, "extract", "none")

Document(c) == /\ Up
               /\ call[c].at = "idle"
               /\ OutOfScope \/ NotInstalled \/ Installed(c)
               /\ UNCHANGED <<gortex, configVars, engineVars, sinceProbe, slow>>

Extract(c) == /\ call[c].at = "extract"
              /\ Enter(c, "idle", "none")
              /\ UNCHANGED <<gortex, configVars, engineVars, sinceProbe, graphify, slow>>

Return(c) == /\ call[c].at = "refused"
             /\ Enter(c, "idle", "none")
             /\ UNCHANGED <<gortex, configVars, engineVars, sinceProbe, graphify, slow>>

(* The client goes away: a probe's thread runs on, its verdict is dropped. *)
Cancel(c) == /\ call[c].at \notin {"idle", "refused"}
             /\ Enter(c, "idle", "none")
             /\ UNCHANGED <<gortex, configVars, engineVars, sinceProbe, graphify, slow>>

-----------------------------------------------------------------------------
(* Mutant: a clock that does not stop counting. *)
OlderUnbounded(t) == t + 1

Older(t) == IF t = Interval THEN Interval ELSE t + 1

Tick == /\ sinceProbe' = Older(sinceProbe)
        /\ call' = [c \in Calls |-> IF ProbeUnderWay(c)
                                    THEN [call[c] EXCEPT !.age = Older(call[c].age)]
                                    ELSE call[c]]
        /\ slow' = (slow \/ \E c \in Calls : ProbeUnderWay(c) /\ call[c].age + 1 >= Interval)
        /\ UNCHANGED <<gortex, configVars, engineVars, graphify>>

(* The user starts, stops, upgrades or reconfigures gortex. *)
ServerChanges == /\ gortex' \in Servers
                 /\ UNCHANGED <<configVars, engineVars, sinceProbe, call, graphify, slow>>

AskSome == \E c \in Calls : Ask(c)
CancelSome == \E c \in Calls : Cancel(c)
DropProbe == \E c \in Calls : ProbeUnderWay(c) /\ Cancel(c)
Step(c) == Probe(c) \/ Learn(c) \/ Answer(c) \/ Extract(c) \/ Return(c)

Next == \/ Start \/ BootCheck \/ Stop \/ Tick \/ ServerChanges
        \/ AskSome \/ CancelSome
        \/ \E c \in Calls : Step(c) \/ Document(c)

Spec == Init /\ [][Next]_vars

-----------------------------------------------------------------------------
(* A caller is told the real cause: a daemon without an engine knows why,  *)
(* and says "unconfigured" only when its configuration names no engine, in *)
(* whatever order probes begin, end and are dropped (router.py:96-113).    *)
RealCause == /\ (Up /\ ~ primary) => (reason \in Reasons)
             /\ Up => ((reason = "unconfigured") => ~ target)
             /\ \A c \in Calls : (call[c].at = "refused" /\ call[c].verdict = "unconfigured")
                                   => ~ target

(* While a probe is younger than the interval there is no other that is:   *)
(* an absent engine costs one probe per interval (router.py:86-89).        *)
OneYoungProbe == \A c, d \in Calls :
    (/\ ProbeUnderWay(c) /\ ProbeUnderWay(d)
     /\ call[c].age < Interval /\ call[d].age < Interval) => c = d

(* An engine once found is kept for the rest of the process's life, as     *)
(* router.py:89-90 says, as long as no probe outlasts the interval.        *)
EngineKept == [][(primary /\ ~ slow') => (primary' \/ boot' = "off")]_vars

(* A server that is there for good is found and kept, if calls keep asking *)
(* and those that probe do not for ever go away with their verdict.        *)
EngineFound == (/\ <>[](Up /\ target /\ gortex = "facade")
                /\ []<><<AskSome>>_vars
                /\ <>[][~ DropProbe]_vars) => <>[]primary
=============================================================================
