---------------------------- MODULE SerialQueue ----------------------------
(***************************************************************************)
(* What the daemon's single DelegateQueue promises its callers             *)
(* (delegate/queue.py): requests are served in the order they arrive, one  *)
(* at a time, each from its start to its outcome without another request   *)
(* being served in between, and a request that is being served always gets *)
(* an outcome.  Candidates, cooldowns, retries and clocks do not appear:   *)
(* DelegateChain is shown to implement this module.                        *)
(***************************************************************************)
EXTENDS Sequences, Naturals

CONSTANTS Callers,   \* the tasks of the daemon that may ask for a delegation
          NoCaller   \* nobody is being served

VARIABLES queue,     \* the callers that wait, in the order they will be served
          serving,   \* the caller being served, or NoCaller
          outcome    \* the outcome of each caller's last request

vars == <<queue, serving, outcome>>

Outcomes == {"none", "result", "exhausted", "no_candidates", "cancelled", "escaped"}

Queued(c) == \E i \in 1..Len(queue) : queue[i] = c
Absent(c) == serving # c /\ ~ Queued(c)
Without(s, i) == SubSeq(s, 1, i - 1) \o SubSeq(s, i + 1, Len(s))

Init == /\ queue = <<>>
        /\ serving = NoCaller
        /\ outcome = [c \in Callers |-> "none"]

(* A request arrives and waits behind those already there. *)
Arrive(c) == /\ Absent(c)
             /\ queue' = Append(queue, c)
             /\ outcome' = [outcome EXCEPT ![c] = "none"]
             /\ UNCHANGED serving

(* A request there is nobody to serve is refused and never waits. *)
Refuse(c) == /\ Absent(c)
             /\ outcome' = [outcome EXCEPT ![c] = "no_candidates"]
             /\ UNCHANGED <<queue, serving>>

(* The one that has waited longest is served next, and only when nobody is. *)
Start(c) == /\ serving = NoCaller
            /\ queue # <<>>
            /\ c = Head(queue)
            /\ serving' = c
            /\ queue' = Tail(queue)
            /\ UNCHANGED outcome

Finish(c) == /\ serving = c
             /\ serving' = NoCaller
             /\ \E o \in {"result", "exhausted", "cancelled", "escaped"} :
                  outcome' = [outcome EXCEPT ![c] = o]
             /\ UNCHANGED queue

(* A caller stops waiting; the others keep their order. *)
Withdraw(c) == /\ \E i \in 1..Len(queue) :
                    /\ queue[i] = c
                    /\ queue' = Without(queue, i)
               /\ outcome' = [outcome EXCEPT ![c] = "cancelled"]
               /\ UNCHANGED serving

Next == \E c \in Callers :
          Arrive(c) \/ Refuse(c) \/ Start(c) \/ Finish(c) \/ Withdraw(c)

SafeSpec == Init /\ [][Next]_vars
Spec == /\ SafeSpec
        /\ \A c \in Callers : WF_vars(Start(c)) /\ WF_vars(Finish(c))
=============================================================================
