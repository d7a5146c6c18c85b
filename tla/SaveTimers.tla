------------------------------ MODULE SaveTimers ------------------------------
(* The threading.Timer objects of the save watcher (proactive/watchers.py). *)
EXTENDS Integers

CONSTANTS
  Timers,      \* threading.Timer objects, reused when their thread has ended
  NoTimer,     \* None
  Debounce     \* debounce_seconds

ASSUME TimersAssumption == NoTimer \notin Timers
ASSUME DebounceAssumption == Debounce \in Nat \ {0}
=============================================================================
