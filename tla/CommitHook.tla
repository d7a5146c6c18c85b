----------------------------- MODULE CommitHook -----------------------------
(***************************************************************************)
(* `josu init` (cli.py, proactive/watchers.py): it puts josu's block into  *)
(* .git/hooks/post-commit, behind a script that may be there already.  The *)
(* file is truncated, written and made executable in three steps, by any   *)
(* number of processes at once, and a kill may fall between them.          *)
(*                                                                         *)
(* Of a script only matters whether it can be chained to: a "plain" shell  *)
(* script can, an "opaque" one (no shell, or a bare exec in it) cannot.    *)
(***************************************************************************)
EXTENDS Naturals

CONSTANT Installers   \* the processes that run `josu init`

VARIABLES
  file,        \* the hook file: its foreign script and how often josu's block is in it
  exec,        \* its executable bit
  install,     \* where each install_commit_hook stands, and the text it will write
  promised,    \* some `josu init` has reported that the hook is installed
  original,    \* ghost: the file as it was before josu
  cut          \* ghost: a process was killed after truncating the file and
               \* before making it executable

vars == <<file, exec, install, promised, original, cut>>

Scripts == {"none", "plain", "opaque"}
Texts == [script : Scripts, blocks : 0..2]
Nothing == [script |-> "none", blocks |-> 0]   \* an empty file has neither
Absent == [exists |-> FALSE, text |-> Nothing]

Steps == {"idle", "found", "opening", "writing", "chmod"}

TypeOK ==
  /\ file \in [exists : BOOLEAN, text : Texts]
  /\ exec \in BOOLEAN
  /\ install \in [Installers -> [at : Steps, text : Texts]]
  /\ promised \in BOOLEAN
  /\ original \in Scripts
  /\ cut \in BOOLEAN

Idle == [at |-> "idle", text |-> Nothing]

Init ==
  /\ original \in Scripts
  /\ file = [exists |-> original # "none", text |-> [Nothing EXCEPT !.script = original]]
  /\ exec \in BOOLEAN
  /\ exec => file.exists
  /\ install = [p \in Installers |-> Idle]
  /\ promised = FALSE
  /\ cut = FALSE

Go(p, step, text) == install' = [install EXCEPT ![p] = [at |-> step, text |-> text]]
Stay == UNCHANGED <<file, exec, original, cut>>

(* _looks_safely_chainable *)
Chainable(text) == text.script = "plain"

(* hook_path.exists() *)
Begin(p) ==
  /\ install[p].at = "idle"
  /\ IF file.exists THEN Go(p, "found", Nothing)
                    ELSE Go(p, "opening", [Nothing EXCEPT !.blocks = 1])
  /\ UNCHANGED promised
  /\ Stay

(* Mutant: a block that is there already is not noticed. *)
ReadWithoutMarker(p) ==
  /\ install[p].at = "found"
  /\ IF Chainable(file.text) /\ file.text.blocks < 2
     THEN Go(p, "opening", [file.text EXCEPT !.blocks = @ + 1])
     ELSE Go(p, "idle", Nothing)
  /\ UNCHANGED promised
  /\ Stay

(* read_text: already installed, refused, or the script with josu's block *)
(* behind it.                                                             *)
Read(p) ==
  /\ install[p].at = "found"
  /\ \/ /\ file.text.blocks > 0
        /\ Go(p, "idle", Nothing)
        /\ promised' = TRUE
     \/ /\ file.text.blocks = 0
        /\ IF Chainable(file.text) THEN Go(p, "opening", [file.text EXCEPT !.blocks = 1])
                                   ELSE Go(p, "idle", Nothing)
        /\ UNCHANGED promised
  /\ Stay

(* write_text opens the file, which empties or creates it, ... *)
Open(p) ==
  /\ install[p].at = "opening"
  /\ file' = [exists |-> TRUE, text |-> Nothing]
  /\ Go(p, "writing", install[p].text)
  /\ UNCHANGED <<exec, promised, original, cut>>

(* ... and writes the text. *)
Write(p) ==
  /\ install[p].at = "writing"
  /\ file' = [file EXCEPT !.text = install[p].text]
  /\ Go(p, "chmod", install[p].text)
  /\ UNCHANGED <<exec, promised, original, cut>>

(* Mutant: only a new file is made executable. *)
ChmodIfNew(p) ==
  /\ install[p].at = "chmod"
  /\ exec' = (exec \/ install[p].text.script = "none")
  /\ Go(p, "idle", Nothing)
  /\ promised' = TRUE
  /\ UNCHANGED <<file, original, cut>>

(* _make_executable, and the report *)
Chmod(p) ==
  /\ install[p].at = "chmod"
  /\ exec' = TRUE
  /\ Go(p, "idle", Nothing)
  /\ promised' = TRUE
  /\ UNCHANGED <<file, original, cut>>

Kill(p) ==
  /\ install[p].at # "idle"
  /\ cut' = (cut \/ install[p].at \in {"writing", "chmod"})
  /\ Go(p, "idle", Nothing)
  /\ UNCHANGED <<file, exec, promised, original>>

Step(p) == Begin(p) \/ Read(p) \/ Open(p) \/ Write(p) \/ Chmod(p) \/ Kill(p)
Next == \E p \in Installers : Step(p)

Spec == Init /\ [][Next]_vars

(* What git does with the file after a commit. *)
Runs == file.text.blocks > 0 /\ exec

(***************************************************************************)
(* Properties                                                              *)
(***************************************************************************)

Busy(p) == install[p].at \in {"writing", "chmod"}
Settled == ~ cut /\ \A p \in Installers : ~ Busy(p)

(* Once `josu init` has said that the hook is installed, a commit runs it, *)
(* unless an installation was killed between truncating the file and       *)
(* making it executable.                                                   *)
InstalledHookRuns == promised /\ Settled => Runs

(* A script that was there before josu is still there, and josu's block is *)
(* behind it at most once, whoever runs `josu init` at the same time.      *)
ScriptIsKept ==
  Settled => file.text.script = original /\ file.text.blocks <= 1
=============================================================================
