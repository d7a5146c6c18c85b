----------------------------- MODULE MarkerScan -----------------------------
(***************************************************************************)
(* The scan for abandoned worktrees, by which `josu cleanup` and `josu     *)
(* daemon start` begin, and the removal that `josu cleanup` offers         *)
(* (cli.py, fallback/quota.py).  JosuRun has one such process and whole    *)
(* markers; here there are several, and each marker is the JSON file it    *)
(* is: truncated and then written, read one after another, and no use to   *)
(* a reader in between.                                                    *)
(***************************************************************************)
EXTENDS Naturals

CONSTANTS
  Worktrees,   \* worktrees that josu creates
  Scanners,    \* processes
  MaxKills     \* how many of them may be killed

VARIABLES
  listed,      \* the worktrees `git worktree list` reports
  marker,      \* the marker file of each worktree
  scan,        \* where each process stands
  kills,       \* kills left
  cut          \* ghost: a process was killed after truncating a marker

scanVars == <<listed, marker, scan, kills, cut>>

Steps == {"idle", "reading", "marking", "writing", "rereading", "done", "removing", "failed"}
Scans ==
  [at : Steps,
   files : SUBSET Worktrees,    \* marker files still to be read
   found : SUBSET Worktrees,    \* records read
   todo : SUBSET Worktrees,     \* orphans still to be marked
   target : SUBSET Worktrees,   \* the one being marked or removed
   owed : SUBSET Worktrees,     \* ghost: what git reported
   alone : BOOLEAN]             \* ghost: no other process ran since this one began
NoScan == [at |-> "idle", files |-> {}, found |-> {}, todo |-> {}, target |-> {},
           owed |-> {}, alone |-> FALSE]

TypeOK ==
  /\ listed \subseteq Worktrees
  /\ marker \in [Worktrees -> {"absent", "empty", "whole"}]
  /\ scan \in [Scanners -> Scans]
  /\ kills \in 0..MaxKills
  /\ cut \in BOOLEAN

Init ==
  /\ listed \in SUBSET Worktrees
  /\ marker = [w \in Worktrees |-> "absent"]
  /\ scan = [s \in Scanners |-> NoScan]
  /\ kills = MaxKills
  /\ cut = FALSE

Marked == {w \in Worktrees : marker[w] # "absent"}
Busy(s) == scan[s].at \notin {"idle", "failed"}
Becomes(s, state) == scan' = [scan EXCEPT ![s] = state]

(* list_abandoned_worktrees: the names, ... *)
Begin(s) ==
  /\ scan[s].at = "idle"
  /\ scan' = [t \in Scanners |->
       IF t = s
       THEN [NoScan EXCEPT !.at = "reading", !.files = Marked,
                           !.alone = \A u \in Scanners \ {s} : ~ Busy(u)]
       ELSE [scan[t] EXCEPT !.alone = FALSE]]
  /\ UNCHANGED <<listed, marker, kills, cut>>

(* ... and then their contents.  json.loads raises on an empty file, and   *)
(* read_text on one that is gone.                                          *)
Read(s, w) ==
  /\ scan[s].at \in {"reading", "rereading"}
  /\ w \in scan[s].files
  /\ IF marker[w] = "whole"
     THEN Becomes(s, [scan[s] EXCEPT !.files = @ \ {w}, !.found = @ \cup {w}])
     ELSE Becomes(s, [scan[s] EXCEPT !.at = "failed"])
  /\ UNCHANGED <<listed, marker, kills, cut>>

(* Mutant: a worktree is marked again by every scan. *)
FindAll(s) ==
  /\ scan[s].at = "reading"
  /\ scan[s].files = {}
  /\ Becomes(s, [scan[s] EXCEPT !.at = IF listed = {} THEN "done" ELSE "marking",
                                !.todo = listed, !.owed = listed])
  /\ UNCHANGED <<listed, marker, kills, cut>>

(* find_orphaned_worktrees; with none, the records already read are it. *)
FindOrphans(s) ==
  /\ scan[s].at = "reading"
  /\ scan[s].files = {}
  /\ Becomes(s, [scan[s] EXCEPT !.at = IF listed \subseteq scan[s].found THEN "done" ELSE "marking",
                                !.todo = listed \ scan[s].found, !.owed = listed])
  /\ UNCHANGED <<listed, marker, kills, cut>>

(* mark_worktree_abandoned: write_text, of which the first half empties the *)
(* file, also one that another process has meanwhile written.              *)
Truncate(s, w) ==
  /\ scan[s].at = "marking"
  /\ w \in scan[s].todo
  /\ marker' = [marker EXCEPT ![w] = "empty"]
  /\ Becomes(s, [scan[s] EXCEPT !.at = "writing", !.target = {w}])
  /\ UNCHANGED <<listed, kills, cut>>

(* Mutant: the file is not closed. *)
WriteUnflushed(s) ==
  /\ scan[s].at = "writing"
  /\ Becomes(s, [scan[s] EXCEPT !.at = "marking", !.todo = @ \ scan[s].target, !.target = {}])
  /\ UNCHANGED <<listed, marker, kills, cut>>

Write(s) ==
  /\ scan[s].at = "writing"
  /\ marker' = [w \in Worktrees |-> IF w \in scan[s].target THEN "whole" ELSE marker[w]]
  /\ Becomes(s, [scan[s] EXCEPT !.at = "marking", !.todo = @ \ scan[s].target, !.target = {}])
  /\ UNCHANGED <<listed, kills, cut>>

Reread(s) ==
  /\ scan[s].at = "marking"
  /\ scan[s].todo = {}
  /\ Becomes(s, [scan[s] EXCEPT !.at = "rereading", !.files = Marked, !.found = {}])
  /\ UNCHANGED <<listed, marker, kills, cut>>

Report(s) ==
  /\ scan[s].at = "rereading"
  /\ scan[s].files = {}
  /\ Becomes(s, [scan[s] EXCEPT !.at = "done"])
  /\ UNCHANGED <<listed, marker, kills, cut>>

(* remove_abandoned_worktree, of a listed record: first the worktree, which *)
(* git refuses if it is gone; ...                                          *)
Remove(s, w) ==
  /\ scan[s].at = "done"
  /\ w \in scan[s].found \cap listed
  /\ listed' = listed \ {w}
  /\ Becomes(s, [scan[s] EXCEPT !.at = "removing", !.target = {w}])
  /\ UNCHANGED <<marker, kills, cut>>

(* ... then its marker. *)
Unlink(s) ==
  /\ scan[s].at = "removing"
  /\ marker' = [w \in Worktrees |-> IF w \in scan[s].target THEN "absent" ELSE marker[w]]
  /\ Becomes(s, [scan[s] EXCEPT !.at = "done", !.found = @ \ scan[s].target, !.target = {}])
  /\ UNCHANGED <<listed, kills, cut>>

(* The command exits, or the exception of a failed scan ends it. *)
End(s) ==
  /\ scan[s].at \in {"done", "failed"}
  /\ Becomes(s, NoScan)
  /\ UNCHANGED <<listed, marker, kills, cut>>

Kill(s) ==
  /\ Busy(s)
  /\ kills > 0
  /\ kills' = kills - 1
  /\ cut' = (cut \/ scan[s].at = "writing")
  /\ Becomes(s, NoScan)
  /\ UNCHANGED <<listed, marker>>

ScanStep(s) ==
  \/ Begin(s) \/ FindOrphans(s) \/ Write(s) \/ Reread(s) \/ Report(s) \/ End(s)
  \/ \E w \in Worktrees : Read(s, w) \/ Truncate(s, w)

RemoveStep(s) == Unlink(s) \/ \E w \in Worktrees : Remove(s, w)

Next == \E s \in Scanners : ScanStep(s) \/ RemoveStep(s) \/ Kill(s)

(* A scan fails only if another process ran beside it, or one was killed   *)
(* while it wrote a marker.                                                *)
NoScanFailsAlone ==
  \A s \in Scanners : scan[s].at = "failed" /\ scan[s].alone => cut

(* A scan that succeeds has a record of every worktree that git reported   *)
(* and that is still there.                                                *)
EveryLeftoverIsReported ==
  \A s \in Scanners : scan[s].at = "done" => scan[s].owed \cap listed \subseteq scan[s].found

ScansAreReliable == NoScanFailsAlone /\ EveryLeftoverIsReported
=============================================================================
