--------------------------- MODULE CircuitBreaker ---------------------------
(***************************************************************************)
(* CircuitBreaker (orchestrator/circuit_breaker.py): a stopwatch that can  *)
(* be paused, with the budget of one run.  Waits for a queued delegate     *)
(* call are to be wrapped in excluded(), which pauses it; the code has no  *)
(* such caller yet (Waiters is then empty), and its tests have one.        *)
(* pause() and resume() are modelled as the two ends of excluded(): a bare *)
(* resume() of a breaker that runs, which would drop its segment, has no   *)
(* caller and is not modelled.                                             *)
(***************************************************************************)
EXTENDS Integers

CONSTANTS
  Timeout,     \* timeout_seconds
  Waiters      \* callers of excluded()

ASSUME TimeoutAssumption == Timeout \in Nat \ {0}

VARIABLES
  now,         \* the monotonic clock, from the moment the breaker is made
  accumulated, \* _accumulated
  segment,     \* _segment_start
  paused,      \* _paused
  waiting,     \* the waiters inside excluded()
  begun,       \* ghost: when start() was first called
  active,      \* ghost: the time since then in which nobody waited
  overlapped   \* ghost: two waits have overlapped

breaker == <<now, accumulated, segment, paused, waiting, begun, active, overlapped>>

None == -1

BreakerTypeOK ==
  /\ now \in Nat
  /\ accumulated \in Nat
  /\ segment \in Nat \cup {None}
  /\ paused \in BOOLEAN
  /\ waiting \subseteq Waiters
  /\ begun \in Nat \cup {None}
  /\ active \in Nat
  /\ overlapped \in BOOLEAN

BreakerInit ==
  /\ now = 0 /\ accumulated = 0 /\ segment = None /\ paused = FALSE
  /\ waiting = {} /\ begun = None /\ active = 0 /\ overlapped = FALSE

(* The breaker is dropped with the scope that made it. *)
Discard ==
  /\ now' = 0 /\ accumulated' = 0 /\ segment' = None /\ paused' = FALSE
  /\ waiting' = {} /\ begun' = None /\ active' = 0 /\ overlapped' = FALSE

Running == segment # None /\ ~ paused

(* elapsed_seconds, remaining_seconds, and the condition of check() *)
Elapsed == accumulated + (IF Running THEN now - segment ELSE 0)
Remaining == IF Elapsed < Timeout THEN Timeout - Elapsed ELSE 0
Tripped == Elapsed > Timeout

Start ==
  /\ segment' = IF segment = None /\ ~ paused THEN now ELSE segment
  /\ begun' = IF begun = None THEN now ELSE begun
  /\ UNCHANGED <<now, accumulated, paused, waiting, active, overlapped>>

(* Mutant: the second pause counts the segment again. *)
PauseTwice(w) ==
  /\ w \notin waiting
  /\ waiting' = waiting \cup {w}
  /\ overlapped' = (overlapped \/ waiting # {})
  /\ paused' = TRUE
  /\ accumulated' = IF segment = None THEN accumulated ELSE accumulated + (now - segment)
  /\ UNCHANGED <<now, segment, begun, active>>

(* Mutant: the operands are swapped. *)
PauseSwapped(w) ==
  /\ w \notin waiting
  /\ waiting' = waiting \cup {w}
  /\ overlapped' = (overlapped \/ waiting # {})
  /\ paused' = TRUE
  /\ IF Running
     THEN accumulated' = accumulated + (segment - now) /\ segment' = None
     ELSE UNCHANGED <<accumulated, segment>>
  /\ UNCHANGED <<now, begun, active>>

(* Into excluded(): pause(). *)
Pause(w) ==
  /\ w \notin waiting
  /\ waiting' = waiting \cup {w}
  /\ overlapped' = (overlapped \/ waiting # {})
  /\ paused' = TRUE
  /\ IF Running
     THEN accumulated' = accumulated + (now - segment) /\ segment' = None
     ELSE UNCHANGED <<accumulated, segment>>
  /\ UNCHANGED <<now, begun, active>>

(* Out of excluded(): resume(), whoever else still waits. *)
Resume(w) ==
  /\ w \in waiting
  /\ waiting' = waiting \ {w}
  /\ paused' = FALSE
  /\ segment' = now
  /\ UNCHANGED <<now, accumulated, begun, active, overlapped>>

Tick ==
  /\ now' = now + 1
  /\ active' = IF begun # None /\ waiting = {} THEN active + 1 ELSE active
  /\ UNCHANGED <<accumulated, segment, paused, waiting, begun, overlapped>>

(* The breaker never counts more time than has passed since it was started *)
(* and, unless two waits have overlapped, counts exactly the time in which *)
(* nobody waited.                                                          *)
ElapsedIsActive ==
  begun # None =>
    /\ Elapsed <= now - begun
    /\ ~ overlapped => Elapsed = active
=============================================================================
