-------------------------- MODULE SaveWatcherProofs --------------------------
(***************************************************************************)
(* For any number of timers and any window: a check starts early only if a *)
(* save came too late to cancel a timer.                                   *)
(*                                                                         *)
(* The inductive invariant: as long as that has not happened, the only     *)
(* outstanding timer is the one whose handle is stored or about to be, so  *)
(* the next save cancels it; and what it has still to wait, added to the   *)
(* time since the last save, makes up the window.                          *)
(***************************************************************************)
EXTENDS SaveWatcher, TLAPS

(* The timer the next save will cancel. *)
Known(t) == \/ saver.at = "idle" /\ t = handle
            \/ saver.at = "storing" /\ t = saver.new

OneOutstanding == ~ raced => \A t \in Timers : Outstanding(t) => Known(t)

(* A timer that is due has nothing left to wait. *)
DueIsOver == \A t \in Timers : timer[t].at = "due" => timer[t].left = 0

WindowIsWaited ==
  ~ raced => \A t \in Timers : Outstanding(t) => sinceSave + timer[t].left >= Debounce

WatcherInv == TypeOK /\ OneOutstanding /\ DueIsOver /\ WindowIsWaited

-----------------------------------------------------------------------------
(* Nothing is outstanding when the watcher is made. *)
LEMMA InitWatcher == Init => WatcherInv
<1> SUFFICES ASSUME Init PROVE WatcherInv
  OBVIOUS
<1>1. Free \in [at : {"free", "waiting", "due", "firing"}, left : 0..Debounce]
  BY DebounceAssumption DEF Free
<1>2. TypeOK
  <2>1. timer \in [Timers -> [at : {"free", "waiting", "due", "firing"}, left : 0..Debounce]]
    BY <1>1 DEF Init
  <2>2. sinceSave \in 0..Debounce
    BY DebounceAssumption DEF Init
  <2> QED
    BY <2>1, <2>2 DEF Init, TypeOK
<1>3. OneOutstanding /\ DueIsOver /\ WindowIsWaited
  BY DEF Init, OneOutstanding, DueIsOver, WindowIsWaited, Outstanding, Free
<1> QED
  BY <1>2, <1>3 DEF WatcherInv

(* A save resets the window when nothing is outstanding any more. *)
LEMMA SaveKeeps == WatcherInv /\ Save => WatcherInv'
<1> SUFFICES ASSUME WatcherInv, Save PROVE WatcherInv'
  OBVIOUS
<1> USE TimersAssumption, DebounceAssumption DEF WatcherInv, TypeOK, Save
<1>1. \A t \in Timers : timer'[t] = timer[t] \/ timer'[t] = Free
  BY DEF AfterCancel
<1>2. TypeOK'
  <2>1. timer' \in [Timers -> [at : {"free", "waiting", "due", "firing"}, left : 0..Debounce]]
    BY DEF AfterCancel, Free
  <2> QED
    BY <2>1
<1>3. ~ raced' => \A t \in Timers : ~ Outstanding(t)'
  <2> SUFFICES ASSUME ~ raced', NEW t \in Timers, Outstanding(t)' PROVE FALSE
    OBVIOUS
  <2>1. timer'[t] = timer[t] /\ Outstanding(t)
    BY <1>1 DEF Outstanding, Free
  <2>2. timer[t].at = "waiting" /\ t = handle
    BY <2>1 DEF OneOutstanding, Outstanding, Known
  <2>3. timer'[t] = Free
    BY <2>2 DEF AfterCancel, Cancelled
  <2> QED
    BY <2>3 DEF Outstanding, Free
<1>4. DueIsOver'
  BY <1>1 DEF DueIsOver, Free
<1> QED
  BY <1>2, <1>3, <1>4 DEF OneOutstanding, WindowIsWaited

(* The new timer is the only one, and has the whole window before it. *)
LEMMA ScheduleKeeps ==
  ASSUME WatcherInv, NEW t \in Timers, Schedule(t)
  PROVE  WatcherInv'
<1> USE TimersAssumption, DebounceAssumption DEF WatcherInv, TypeOK, Schedule
<1>1. timer'[t] = [at |-> "waiting", left |-> Debounce]
  OBVIOUS
<1>2. \A u \in Timers : u # t => timer'[u] = timer[u]
  OBVIOUS
<1>3. ~ raced => \A u \in Timers : ~ Outstanding(u)
  BY DEF OneOutstanding, Known
<1>4. TypeOK'
  OBVIOUS
<1>5. OneOutstanding' /\ WindowIsWaited'
  BY <1>1, <1>2, <1>3 DEF OneOutstanding, WindowIsWaited, Outstanding, Known
<1>6. DueIsOver'
  BY <1>1, <1>2 DEF DueIsOver
<1> QED
  BY <1>4, <1>5, <1>6

(* Storing the handle changes who is known by it, not who is known. *)
LEMMA StoreKeeps == WatcherInv /\ Store => WatcherInv'
  BY DEF WatcherInv, TypeOK, Store, OneOutstanding, DueIsOver, WindowIsWaited, Outstanding, Known

(* A thread goes on; when it ends with nothing left outstanding the ghost  *)
(* raced may be forgotten.                                                 *)
LEMMA RunKeeps ==
  ASSUME WatcherInv, NEW t \in Timers, Run(t)
  PROVE  WatcherInv'
<1> USE TimersAssumption, DebounceAssumption DEF WatcherInv, TypeOK
<1>1. CASE Elapse(t)
  <2>1. /\ timer'[t].at = "due" /\ timer'[t].left = timer[t].left
        /\ \A u \in Timers : u # t => timer'[u] = timer[u]
    BY <1>1 DEF Elapse
  <2>2. TypeOK'
    BY <1>1 DEF Elapse
  <2>3. OneOutstanding' /\ DueIsOver' /\ WindowIsWaited'
    BY <1>1, <2>1 DEF Elapse, OneOutstanding, DueIsOver, WindowIsWaited, Outstanding, Known
  <2> QED
    BY <2>2, <2>3
<1>2. CASE Clear(t)
  <2>1. /\ timer'[t].at = "firing"
        /\ \A u \in Timers : u # t => timer'[u] = timer[u]
    BY <1>2 DEF Clear
  <2>2. TypeOK'
    BY <1>2 DEF Clear
  <2>3. OneOutstanding' /\ DueIsOver' /\ WindowIsWaited'
    BY <1>2, <2>1 DEF Clear, OneOutstanding, DueIsOver, WindowIsWaited, Outstanding, Known
  <2> QED
    BY <2>2, <2>3
<1>3. CASE CheckEnds(t)
  <2>1. /\ timer'[t] = Free
        /\ \A u \in Timers : u # t => timer'[u] = timer[u]
    BY <1>3 DEF CheckEnds
  <2>2. TypeOK'
    <3>1. timer' \in [Timers -> [at : {"free", "waiting", "due", "firing"}, left : 0..Debounce]]
      BY <1>3 DEF CheckEnds, Free
    <3>2. raced' \in BOOLEAN
      BY <1>3 DEF CheckEnds
    <3> QED
      BY <1>3, <3>1, <3>2 DEF CheckEnds
  <2>3. DueIsOver'
    BY <2>1 DEF DueIsOver, Free
  <2>4. CASE raced
    <3>1. ~ raced' => \A u \in Timers : ~ Outstanding(u)'
      BY <1>3, <2>1, <2>4 DEF CheckEnds, Quiet, Outstanding, Free
    <3> QED
      BY <2>2, <2>3, <3>1 DEF OneOutstanding, WindowIsWaited
  <2>5. CASE ~ raced
    BY <1>3, <2>1, <2>2, <2>3, <2>5
       DEF CheckEnds, OneOutstanding, WindowIsWaited, Outstanding, Known, Free
  <2> QED
    BY <2>4, <2>5
<1> QED
  BY <1>1, <1>2, <1>3 DEF Run

(* What a timer has waited the window has waited too. *)
LEMMA TickKeeps == WatcherInv /\ Tick => WatcherInv'
<1> SUFFICES ASSUME WatcherInv, Tick PROVE WatcherInv'
  OBVIOUS
<1> USE TimersAssumption, DebounceAssumption DEF WatcherInv, TypeOK, Tick
<1>1. \A t \in Timers :
        /\ timer'[t].at = timer[t].at
        /\ timer'[t].left = IF timer[t].left > 0 THEN timer[t].left - 1 ELSE 0
        /\ timer'[t] \in [at : {"free", "waiting", "due", "firing"}, left : 0..Debounce]
  OBVIOUS
<1>2. TypeOK'
  <2>1. timer' \in [Timers -> [at : {"free", "waiting", "due", "firing"}, left : 0..Debounce]]
    BY <1>1
  <2>2. sinceSave' \in 0..Debounce
    OBVIOUS
  <2> QED
    BY <2>1, <2>2
<1>3. OneOutstanding' /\ DueIsOver'
  BY <1>1 DEF OneOutstanding, DueIsOver, Outstanding, Known
<1>4. WindowIsWaited'
  BY <1>1 DEF WindowIsWaited, Outstanding
<1> QED
  BY <1>2, <1>3, <1>4

(* Every step of a thread and of the clock keeps the invariant. *)
LEMMA WatcherStep == WatcherInv /\ [Next]_vars => WatcherInv'
<1>1. WatcherInv /\ UNCHANGED vars => WatcherInv'
  BY DEF WatcherInv, vars, TypeOK, OneOutstanding, DueIsOver, WindowIsWaited, Outstanding, Known
<1> QED
  BY <1>1, SaveKeeps, ScheduleKeeps, StoreKeeps, RunKeeps, TickKeeps DEF Next, OnSave

(* The watcher's state always has its type. *)
THEOREM WatcherTyped == Spec => []TypeOK
<1>1. WatcherInv => TypeOK
  BY DEF WatcherInv
<1> QED
  BY <1>1, InitWatcher, WatcherStep, PTL DEF Spec

(* What on_save's docstring promises (watchers.py:379-383), as far as it   *)
(* can be kept: a check that starts has waited for the whole window since  *)
(* the last save, unless a save came too late to cancel a timer.           *)
THEOREM WatcherWaits == Spec => FiresAfterQuiet
<1>1. WatcherInv /\ [Next]_vars =>
        [\A t \in Timers : timer[t].at = "due" /\ timer'[t].at = "firing" /\ ~ raced
           => sinceSave >= Debounce]_vars
  BY DebounceAssumption DEF WatcherInv, TypeOK, DueIsOver, WindowIsWaited, Outstanding
<1> QED
  BY <1>1, InitWatcher, WatcherStep, PTL DEF Spec, FiresAfterQuiet
=============================================================================
