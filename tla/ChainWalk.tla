------------------------------ MODULE ChainWalk ------------------------------
(***************************************************************************)
(* What becomes of the requests in a delegate daemon, seen from outside: a *)
(* request waits, is taken up when no other is, goes down its chain from   *)
(* the first candidate, and ends at any of them, or behind the last.       *)
(*                                                                         *)
(* DelegateChain implements this with a lock, deadlines and a failure      *)
(* memory; ProactiveChecks adds who asks, and for which candidates.        *)
(***************************************************************************)
EXTENDS Naturals, Sequences

CONSTANTS
  Requests,
  Free,       \* the request that is not there
  Incoming    \* the requests as they come

VARIABLE request

(* A caller that was told "exhausted" may ask again. *)
Accept(r, new) ==
  /\ request[r].at \in {"free", "exhausted"}
  /\ new.at = "queued" /\ new.pos = 0 /\ new.chain # <<>>
  /\ request' = [request EXCEPT ![r] = new]

Take(r) ==
  /\ request[r].at = "queued"
  /\ \A s \in Requests : request[s].at # "calling"
  /\ request' = [request EXCEPT ![r].at = "calling", ![r].pos = 1]

(* Mutant: off by one. *)
AdvancePast(r) ==
  /\ request[r].at = "calling"
  /\ \/ /\ request[r].pos <= Len(request[r].chain)
        /\ request' = [request EXCEPT ![r].pos = @ + 1]
     \/ /\ request[r].pos > Len(request[r].chain)
        /\ request' = [request EXCEPT ![r].at = "exhausted"]

(* The next candidate, or none is left. *)
Advance(r) ==
  /\ request[r].at = "calling"
  /\ \/ /\ request[r].pos < Len(request[r].chain)
        /\ request' = [request EXCEPT ![r].pos = @ + 1]
     \/ /\ request[r].pos >= Len(request[r].chain)
        /\ request' = [request EXCEPT ![r].at = "exhausted"]

End(r) == request' = [request EXCEPT ![r] = Free]

(* A result, an error that ends the chain, or the exhausted chain. *)
Reply(r) == request[r].at \in {"calling", "exhausted"} /\ End(r)

(* It is cancelled before its turn. *)
Withdraw(r) == request[r].at = "queued" /\ End(r)

(* The requests end with the daemon. *)
AllEnd == request' = [r \in Requests |-> Free]

Init == request = [r \in Requests |-> Free]

Next ==
  \/ AllEnd
  \/ \E r \in Requests :
       \/ Take(r) \/ Advance(r) \/ Reply(r) \/ Withdraw(r)
       \/ \E new \in Incoming : Accept(r, new)

Spec == Init /\ [][Next]_request
=============================================================================
