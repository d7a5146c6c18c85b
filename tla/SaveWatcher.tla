----------------------------- MODULE SaveWatcher -----------------------------
(***************************************************************************)
(* DebouncedSaveWatcher (proactive/watchers.py): a check starts once the   *)
(* saves have been quiet for debounce_seconds.  Two kinds of thread share  *)
(* the handle _cancel_pending without a lock: the one that reports saves,  *)
(* and the threading.Timer of each save, which forgets the handle when it  *)
(* fires.                                                                  *)
(*                                                                         *)
(* A timer counts down from the moment it is scheduled, which is before    *)
(* its handle is stored; once its thread has seen that it is not cancelled *)
(* it is due, and cancel() comes too late.                                 *)
(***************************************************************************)
EXTENDS SaveTimers

VARIABLES
  timer,       \* the thread of each timer, and how long it has to wait
  handle,      \* _cancel_pending: the timer that the next save cancels
  saver,       \* where the reporting thread stands in on_save
  sinceSave,   \* ghost: how long ago the last on_save was called, up to Debounce
  unchecked,   \* ghost: no check has started since the last on_save was called
  raced        \* ghost: a save came too late to cancel a timer that was due, which
               \* will forget another's handle; until all is quiet again

vars == <<timer, handle, saver, sinceSave, unchecked, raced>>

Free == [at |-> "free", left |-> 0]
Outstanding(t) == timer[t].at \in {"waiting", "due"}
Firing(t) == timer[t].at = "firing"

TypeOK ==
  /\ timer \in [Timers -> [at : {"free", "waiting", "due", "firing"}, left : 0..Debounce]]
  /\ handle \in Timers \cup {NoTimer}
  /\ saver \in [at : {"idle", "scheduling", "storing"}, new : Timers \cup {NoTimer}]
  /\ sinceSave \in 0..Debounce
  /\ unchecked \in BOOLEAN
  /\ raced \in BOOLEAN

Init ==
  /\ timer = [t \in Timers |-> Free]
  /\ handle = NoTimer
  /\ saver = [at |-> "idle", new |-> NoTimer]
  /\ sinceSave = Debounce
  /\ unchecked = FALSE
  /\ raced = FALSE

(***************************************************************************)
(* on_save                                                                 *)
(***************************************************************************)

(* timer.cancel(): without effect on a thread that is past its wait. *)
Cancelled(t) == t \in Timers /\ timer[t].at = "waiting"
AfterCancel == [t \in Timers |-> IF t = handle /\ Cancelled(t) THEN Free ELSE timer[t]]

(* Mutant: the earlier timer goes on. *)
SaveWithoutCancel ==
  /\ saver.at = "idle"
  /\ raced' = (raced \/ \E t \in Timers : timer[t].at = "due")
  /\ saver' = [saver EXCEPT !.at = "scheduling"]
  /\ sinceSave' = 0
  /\ unchecked' = TRUE
  /\ UNCHANGED <<timer, handle>>

(* One step from the test of the handle to its call (watchers.py:384-385): *)
(* CPython with its global lock switches threads only at a jump backwards  *)
(* or a call, so _fire cannot forget the handle in between.  A build of    *)
(* Python without that lock gives no such guarantee and is not modelled.   *)
Save ==
  /\ saver.at = "idle"
  /\ raced' = (raced \/ \E t \in Timers : timer[t].at = "due")
  /\ timer' = AfterCancel
  /\ saver' = [saver EXCEPT !.at = "scheduling"]
  /\ sinceSave' = 0
  /\ unchecked' = TRUE
  /\ UNCHANGED handle

(* _default_scheduler *)
Schedule(t) ==
  /\ saver.at = "scheduling"
  /\ timer[t] = Free
  /\ timer' = [timer EXCEPT ![t] = [at |-> "waiting", left |-> Debounce]]
  /\ saver' = [at |-> "storing", new |-> t]
  /\ UNCHANGED <<handle, sinceSave, unchecked, raced>>

(* Mutant: the handle that is cancelled is the one just stored. *)
StoreAndCancel ==
  /\ saver.at = "storing"
  /\ handle' = saver.new
  /\ timer' = [timer EXCEPT ![saver.new] = IF @.at = "waiting" THEN Free ELSE @]
  /\ saver' = [at |-> "idle", new |-> NoTimer]
  /\ UNCHANGED <<sinceSave, unchecked, raced>>

Store ==
  /\ saver.at = "storing"
  /\ handle' = saver.new
  /\ saver' = [at |-> "idle", new |-> NoTimer]
  /\ UNCHANGED <<timer, sinceSave, unchecked, raced>>

(***************************************************************************)
(* The timers                                                              *)
(***************************************************************************)

(* Timer.run after its wait: it is not cancelled, so it will call _fire. *)
Elapse(t) ==
  /\ timer[t].at = "waiting"
  /\ timer[t].left = 0
  /\ timer' = [timer EXCEPT ![t].at = "due"]
  /\ UNCHANGED <<handle, saver, sinceSave, unchecked, raced>>

(* _fire up to the call of on_fire. *)
Clear(t) ==
  /\ timer[t].at = "due"
  /\ timer' = [timer EXCEPT ![t].at = "firing"]
  /\ handle' = NoTimer
  /\ unchecked' = FALSE
  /\ UNCHANGED <<saver, sinceSave, raced>>

(* All that was outstanding is done, and the next save starts afresh. *)
Quiet(t) == saver.at = "idle" /\ \A u \in Timers \ {t} : ~ Outstanding(u)

(* on_fire returns or raises, and the thread ends. *)
CheckEnds(t) ==
  /\ timer[t].at = "firing"
  /\ timer' = [timer EXCEPT ![t] = Free]
  /\ raced' = (raced /\ ~ Quiet(t))
  /\ UNCHANGED <<handle, saver, sinceSave, unchecked>>

Tick ==
  /\ timer' = [t \in Timers |->
                 [timer[t] EXCEPT !.left = IF @ > 0 THEN @ - 1 ELSE 0]]
  /\ sinceSave' = IF sinceSave < Debounce THEN sinceSave + 1 ELSE sinceSave
  /\ UNCHANGED <<handle, saver, unchecked, raced>>

OnSave == Save \/ Store \/ \E t \in Timers : Schedule(t)
Run(t) == Elapse(t) \/ Clear(t) \/ CheckEnds(t)

Next == OnSave \/ Tick \/ \E t \in Timers : Run(t)

(* Threads run and time passes; that the file is saved again is not assumed. *)
Fairness ==
  /\ WF_vars(Store) /\ WF_vars(\E t \in Timers : Schedule(t))
  /\ WF_vars(Tick)
  /\ \A t \in Timers : WF_vars(Run(t))

Spec == Init /\ [][Next]_vars /\ Fairness

(***************************************************************************)
(* Properties                                                              *)
(***************************************************************************)

(* Unless a save came too late to cancel a timer, a check starts only when *)
(* the saves have been quiet for the whole window.                         *)
FiresAfterQuiet ==
  [][\A t \in Timers : timer[t].at = "due" /\ timer'[t].at = "firing" /\ ~ raced
       => sinceSave >= Debounce]_vars

(* Every save is followed by a check that starts after it, or by another   *)
(* save, however the threads interleave.                                   *)
EverySaveIsChecked ==
  unchecked /\ saver.at = "idle" ~> ~ unchecked \/ saver.at # "idle"
=============================================================================
