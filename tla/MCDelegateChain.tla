-------------------------- MODULE MCDelegateChain --------------------------
(***************************************************************************)
(* Two candidates: a is local and curated, b is not.  Requests of the      *)
(* general task type try a, then b.  Requests of the internal API's        *)
(* pre-resolved kind name local candidates themselves: none, a, or a twice *)
(* (a name may be repeated in the body of the request).                    *)
(***************************************************************************)
EXTENDS DelegateChain, TLC
CONSTANTS a, b, general, proactive

MCChains == [t \in TaskTypes |->
               IF t = general THEN {<<a, b>>} ELSE {<<>>, <<a, a>>}]

(* For the liveness run: one task type, with and without candidates. *)
MCOneChain == [t \in TaskTypes |-> {<<>>, <<a, b>>}]

Symmetry == Permutations(Callers)
=============================================================================
