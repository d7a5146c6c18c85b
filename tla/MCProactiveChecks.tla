--------------------------- MODULE MCProactiveChecks ---------------------------
(* Three versions of josu.toml that disagree about which candidate is local. *)
EXTENDS ProactiveChecks

CONSTANTS x, y, i1, i2, t1, t2, t3

Candidate(n, local) == [name |-> n, local |-> local, valid |-> TRUE]
Entry(t, names, explicit) ==
  [task |-> t, names |-> names, explicit |-> explicit, hosted |-> FALSE, valid |-> TRUE]

(* Paid first in both chains, but only one of them means it. *)
Mixed ==
  [candidates |-> <<Candidate(x, TRUE), Candidate(y, FALSE)>>,
   chains |-> <<Entry("check", <<y, x>>, TRUE), Entry("work", <<y, x>>, FALSE)>>,
   remote |-> TRUE]

(* The two have changed places, remote is not allowed, and y, which is *)
(* listed twice, is malformed once.                                    *)
Swapped ==
  [candidates |-> <<Candidate(y, TRUE), Candidate(x, TRUE), Candidate(x, FALSE),
                    [Candidate(y, FALSE) EXCEPT !.valid = FALSE]>>,
   chains |-> <<Entry("work", <<x, y, y>>, TRUE), Entry("check", <<x, y, y>>, FALSE)>>,
   remote |-> FALSE]

(* Work stays hosted, whatever a second chain for it says. *)
Hosted ==
  [candidates |-> <<Candidate(x, TRUE), Candidate(y, FALSE)>>,
   chains |-> <<[Entry("work", <<x, y>>, FALSE) EXCEPT !.hosted = TRUE],
                Entry("work", <<x>>, FALSE), Entry("check", <<x>>, FALSE)>>,
   remote |-> TRUE]

MCNames == {x, y}
MCDocuments == {Mixed, Swapped, Hosted, Missing, Invalid}

(***************************************************************************)
(* The parts share no variable, except that a commit asks whether the hook *)
(* runs.  So their steps commute, and it is enough to look at behaviours   *)
(* in which a part moves while the others rest: the installers with any    *)
(* script, the daemon with one hook that runs, and the watcher with        *)
(* nothing around it.                                                      *)
(***************************************************************************)
DaemonRests == loaded = Off /\ committed = NoCommit
InstallersRest == \A p \in Installers : install[p] = Hook!Idle
WatcherRests == Saves!Init

MCNext ==
  /\ Next
  /\ delegateVars' # delegateVars =>
       WatcherRests /\ InstallersRest /\ original = "none" /\ promised /\ ~ cut
  /\ hookVars' # hookVars => WatcherRests /\ DaemonRests
  /\ saveVars' # saveVars =>
       DaemonRests /\ InstallersRest /\ disk = Missing /\ ~ file.exists

MCSpec == Init /\ [][MCNext]_vars /\ Saves!Fairness
=============================================================================
