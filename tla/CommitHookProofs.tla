--------------------------- MODULE CommitHookProofs ---------------------------
(***************************************************************************)
(* For any number of `josu init` at once: a hook reported as installed     *)
(* runs, and the script that was there before is kept, unless one of them  *)
(* was killed while it wrote.                                              *)
(*                                                                         *)
(* The inductive invariant: whoever is about to write holds the original   *)
(* script with one block, so it does not matter who writes last; a file    *)
(* that nobody is writing holds the original script, with the block once a *)
(* process has written it; and a block nobody is at work on is executable. *)
(***************************************************************************)
EXTENDS CommitHook, TLAPS

Writing(p) == install[p].at = "writing"
AtChmod(p) == install[p].at = "chmod"
NobodyWrites == \A p \in Installers : ~ Writing(p)

Before == [script |-> original, blocks |-> 0]
After == [script |-> original, blocks |-> 1]

(* Only three texts are ever in the file. *)
FileInv == /\ file.text \in {Nothing, Before, After}
           /\ original # "none" => file.exists

TextInv == \A p \in Installers :
             install[p].at \in {"opening", "writing", "chmod"} => install[p].text = After

(* An interrupted installation may leave anything. *)
KeptInv == ~ cut /\ NobodyWrites => file.text \in {Before, After}

WrittenInv ==
  ~ cut /\ NobodyWrites /\ (promised \/ \E p \in Installers : AtChmod(p)) => file.text = After

ExecInv == ~ cut /\ file.text = After => exec \/ \E p \in Installers : AtChmod(p)

HookInv == TypeOK /\ FileInv /\ TextInv /\ KeptInv /\ WrittenInv /\ ExecInv

-----------------------------------------------------------------------------
(* Before the first `josu init` the file is the developer's. *)
LEMMA InitHook == Init => HookInv
<1> SUFFICES ASSUME Init PROVE HookInv
  OBVIOUS
<1>1. \A p \in Installers : install[p] = Idle
  BY DEF Init
<1>2. file = [exists |-> original # "none", text |-> Before]
  <2>1. [Nothing EXCEPT !.script = original] = Before
    BY DEF Before, Nothing
  <2> QED
    BY <2>1 DEF Init
<1>3. TypeOK
  <2>1. Nothing \in Texts /\ Before \in Texts
    BY DEF Init, Texts, Scripts, Nothing, Before
  <2>2. Idle \in [at : Steps, text : Texts]
    BY <2>1 DEF Idle, Steps
  <2>3. file \in [exists : BOOLEAN, text : Texts]
    BY <1>2, <2>1
  <2>4. install \in [Installers -> [at : Steps, text : Texts]]
    BY <2>2 DEF Init
  <2> QED
    BY <2>3, <2>4 DEF Init, TypeOK
<1>4. file.text = Before /\ (original # "none" => file.exists) /\ Before # After
  <2>1. file.text = Before /\ (original # "none" => file.exists)
    BY <1>2
  <2>2. Before.blocks # After.blocks
    BY DEF Before, After
  <2> QED
    BY <2>1, <2>2
<1>5. \A p \in Installers : install[p].at = "idle"
  <2>1. Idle.at = "idle"
    BY DEF Idle
  <2> QED
    BY <1>1, <2>1
<1>6. FileInv /\ TextInv /\ KeptInv
  BY <1>4, <1>5 DEF FileInv, TextInv, KeptInv
<1>7. WrittenInv /\ ExecInv
  BY <1>4, <1>5 DEF Init, WrittenInv, ExecInv, AtChmod
<1> QED
  BY <1>3, <1>6, <1>7 DEF HookInv

(* What a step that writes nothing to the file does. *)
LEMMA GoParts ==
  ASSUME HookInv, NEW p \in Installers, NEW step \in Steps, NEW text \in Texts,
         Go(p, step, text)
  PROVE  /\ install' \in [Installers -> [at : Steps, text : Texts]]
         /\ install'[p] = [at |-> step, text |-> text]
         /\ \A q \in Installers : q # p => install'[q] = install[q]
  BY DEF HookInv, TypeOK, Go

(* Deciding what to write changes nothing for the others. *)
LEMMA ReadKeeps ==
  ASSUME HookInv, NEW p \in Installers, Begin(p) \/ Read(p)
  PROVE  HookInv'
<1> USE DEF HookInv
<1>0. Nothing \in Texts /\ After \in Texts /\ Before \in Texts
  BY DEF TypeOK, Texts, Scripts, Nothing, Before, After
<1>1. Stay
  BY DEF Begin, Read
<1>2. /\ install[p].at \in {"idle", "found"}
      /\ \E step \in {"idle", "found", "opening"}, text \in Texts :
           Go(p, step, text) /\ (step = "opening" => text = After)
  <2>1. CASE Begin(p)
    <3>1. CASE file.exists
      BY <1>0, <2>1, <3>1 DEF Begin
    <3>2. CASE ~ file.exists
      <4>1. [Nothing EXCEPT !.blocks = 1] = After
        BY <3>2 DEF FileInv, Nothing, After
      <4> QED
        BY <1>0, <2>1, <3>2, <4>1 DEF Begin
    <3> QED
      BY <3>1, <3>2
  <2>2. CASE Read(p)
    <3>1. CASE file.text.blocks = 0 /\ Chainable(file.text)
      <4>1. file.text = Before
        BY <3>1 DEF FileInv, Chainable, Nothing, After
      <4>2. [file.text EXCEPT !.blocks = 1] = After
        BY <4>1 DEF Before, After
      <4> QED
        BY <1>0, <2>2, <3>1, <4>2 DEF Read
    <3>2. CASE ~ (file.text.blocks = 0 /\ Chainable(file.text))
      BY <1>0, <2>2, <3>2 DEF Read
    <3> QED
      BY <3>1, <3>2
  <2> QED
    BY <2>1, <2>2
<1>3. promised' = promised \/ (promised' = TRUE /\ file.text = After)
  <2>1. CASE Begin(p)
    BY <2>1 DEF Begin
  <2>2. CASE Read(p)
    BY <2>2 DEF Read, FileInv, Nothing, Before
  <2> QED
    BY <2>1, <2>2
<1>4. PICK step \in {"idle", "found", "opening"}, text \in Texts :
        Go(p, step, text) /\ (step = "opening" => text = After)
  BY <1>2
<1>5. /\ install' \in [Installers -> [at : Steps, text : Texts]]
      /\ install'[p] = [at |-> step, text |-> text]
      /\ \A q \in Installers : q # p => install'[q] = install[q]
  BY <1>4, GoParts DEF Steps
<1>6. /\ NobodyWrites' <=> NobodyWrites
      /\ \A q \in Installers : AtChmod(q)' <=> AtChmod(q)
  BY <1>2, <1>5 DEF NobodyWrites, Writing, AtChmod
<1>7. TypeOK'
  BY <1>1, <1>3, <1>5 DEF Stay, TypeOK
<1>8. FileInv' /\ KeptInv' /\ ExecInv'
  BY <1>1, <1>6 DEF Stay, FileInv, KeptInv, ExecInv, Before, After
<1>9. TextInv'
  BY <1>1, <1>4, <1>5 DEF Stay, TextInv, After
<1>10. WrittenInv'
  BY <1>1, <1>3, <1>6 DEF Stay, WrittenInv, After
<1> QED
  BY <1>7, <1>8, <1>9, <1>10

(* From the truncation to the report: while a process is at it, the file *)
(* owes nothing to anyone, and afterwards it is complete.                *)
LEMMA WriteKeeps ==
  ASSUME HookInv, NEW p \in Installers, Open(p) \/ Write(p) \/ Chmod(p)
  PROVE  HookInv'
<1> USE DEF HookInv
<1>0. Nothing \in Texts /\ After \in Texts
  BY DEF TypeOK, Texts, Scripts, Nothing, After
<1>1. CASE Open(p)
  <2>1. /\ install' \in [Installers -> [at : Steps, text : Texts]]
        /\ install'[p] = [at |-> "writing", text |-> After]
        /\ \A q \in Installers : q # p => install'[q] = install[q]
    <3>1. install[p].text = After
      BY <1>1 DEF Open, TextInv
    <3> QED
      BY <1>0, <1>1, <3>1, GoParts DEF Open, Steps
  <2>2. ~ NobodyWrites'
    BY <2>1 DEF NobodyWrites, Writing
  <2>3. TypeOK' /\ FileInv'
    BY <1>0, <1>1, <2>1 DEF Open, TypeOK, FileInv
  <2>4. TextInv'
    BY <1>1, <2>1 DEF Open, TextInv, After
  <2>5. KeptInv' /\ WrittenInv' /\ ExecInv'
    BY <1>1, <2>2 DEF Open, KeptInv, WrittenInv, ExecInv, Nothing, After
  <2> QED
    BY <2>3, <2>4, <2>5
<1>2. CASE Write(p)
  <2>1. /\ install' \in [Installers -> [at : Steps, text : Texts]]
        /\ install'[p] = [at |-> "chmod", text |-> After]
        /\ \A q \in Installers : q # p => install'[q] = install[q]
        /\ file' = [file EXCEPT !.text = After]
    <3>1. install[p].text = After
      BY <1>2 DEF Write, TextInv
    <3> QED
      BY <1>0, <1>2, <3>1, GoParts DEF Write, Steps
  <2>2. AtChmod(p)'
    BY <2>1 DEF AtChmod
  <2>3. TypeOK'
    BY <1>0, <1>2, <2>1 DEF Write, TypeOK
  <2>4. file'.text = After /\ file'.exists = file.exists /\ After' = After
    BY <1>2, <2>1 DEF Write, TypeOK, After
  <2>5. TextInv'
    BY <1>2, <2>1, <2>4 DEF TextInv
  <2>6. FileInv' /\ KeptInv' /\ WrittenInv' /\ ExecInv'
    BY <1>2, <2>2, <2>4 DEF Write, FileInv, KeptInv, WrittenInv, ExecInv
  <2> QED
    BY <2>3, <2>5, <2>6
<1>3. CASE Chmod(p)
  <2>1. /\ install' \in [Installers -> [at : Steps, text : Texts]]
        /\ install'[p] = [at |-> "idle", text |-> Nothing]
        /\ \A q \in Installers : q # p => install'[q] = install[q]
    BY <1>0, <1>3, GoParts DEF Chmod, Steps
  <2>2. NobodyWrites' <=> NobodyWrites
    BY <1>3, <2>1 DEF Chmod, NobodyWrites, Writing
  <2>3. TypeOK' /\ FileInv' /\ TextInv'
    BY <1>3, <2>1 DEF Chmod, TypeOK, FileInv, TextInv, Before, After
  <2>4. KeptInv' /\ WrittenInv' /\ ExecInv'
    BY <1>3, <2>2 DEF Chmod, KeptInv, WrittenInv, ExecInv, AtChmod, Before, After
  <2> QED
    BY <2>3, <2>4
<1> QED
  BY <1>1, <1>2, <1>3

(* A process killed where it had the file half done says so in cut. *)
LEMMA KillKeeps ==
  ASSUME HookInv, NEW p \in Installers, Kill(p)
  PROVE  HookInv'
<1> USE DEF HookInv
<1>1. /\ install' \in [Installers -> [at : Steps, text : Texts]]
      /\ install'[p] = [at |-> "idle", text |-> Nothing]
      /\ \A q \in Installers : q # p => install'[q] = install[q]
  <2>1. Nothing \in Texts
    BY DEF Texts, Scripts, Nothing
  <2> QED
    BY <2>1, GoParts DEF Kill, Steps
<1>2. ~ cut' => /\ ~ cut
                /\ NobodyWrites' <=> NobodyWrites
                /\ \A q \in Installers : AtChmod(q)' <=> AtChmod(q)
  <2> SUFFICES ASSUME ~ cut' PROVE  /\ ~ cut
                                    /\ NobodyWrites' <=> NobodyWrites
                                    /\ \A q \in Installers : AtChmod(q)' <=> AtChmod(q)
    OBVIOUS
  <2>1. ~ cut /\ install[p].at \notin {"writing", "chmod"}
    BY DEF Kill, TypeOK
  <2>2. \A q \in Installers : (Writing(q)' <=> Writing(q)) /\ (AtChmod(q)' <=> AtChmod(q))
    BY <1>1, <2>1 DEF Writing, AtChmod
  <2> QED
    BY <2>1, <2>2 DEF NobodyWrites
<1>3. TypeOK'
  BY <1>1 DEF Kill, TypeOK
<1>4. FileInv' /\ TextInv'
  BY <1>1 DEF Kill, FileInv, TextInv, Before, After
<1>5. KeptInv' /\ WrittenInv' /\ ExecInv'
  BY <1>2 DEF Kill, KeptInv, WrittenInv, ExecInv, Before, After
<1> QED
  BY <1>3, <1>4, <1>5

(* Every step of every installer keeps the invariant. *)
LEMMA HookStep == HookInv /\ [Next]_vars => HookInv'
<1>1. HookInv /\ UNCHANGED vars => HookInv'
  BY DEF HookInv, vars, TypeOK, FileInv, TextInv, KeptInv, WrittenInv, ExecInv, NobodyWrites,
     Writing, AtChmod, Before, After
<1> QED
  BY <1>1, ReadKeeps, WriteKeeps, KillKeeps DEF Next, Step

(* The invariant holds throughout. *)
LEMMA HookHolds == Spec => []HookInv
  BY InitHook, HookStep, PTL DEF Spec

(* `josu init` keeps its word (watchers.py:474-493): when it has reported  *)
(* the hook as installed, a commit runs it.                                *)
THEOREM PromiseIsKept == Spec => []InstalledHookRuns
<1>1. HookInv => InstalledHookRuns
  BY DEF HookInv, WrittenInv, ExecInv, InstalledHookRuns, Settled, Busy, Runs, NobodyWrites,
     Writing, AtChmod, After
<1> QED
  BY <1>1, HookHolds, PTL

(* It never overwrites a script of somebody else's (watchers.py:484-489),  *)
(* and two of them leave one block.                                        *)
THEOREM ScriptSurvives == Spec => []ScriptIsKept
<1>1. HookInv => ScriptIsKept
  BY DEF HookInv, KeptInv, ScriptIsKept, Settled, Busy, NobodyWrites, Writing, Before, After
<1> QED
  BY <1>1, HookHolds, PTL
=============================================================================
