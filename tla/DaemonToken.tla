---------------------------- MODULE DaemonToken ----------------------------
(***************************************************************************)
(* The shared secret of the daemon and its clients (daemon_auth.py):       *)
(* load_or_create_daemon_token is run by every process that starts, the    *)
(* daemon, `josu run`, `josu delegate` and the commit hook, on one file    *)
(* that nobody locks.  Whoever finds no file creates it, exclusively, and  *)
(* writes its own token into it; everybody else reads it.  Creating and    *)
(* writing are two steps, and a process can be killed or interrupted at    *)
(* any of them.                                                            *)
(***************************************************************************)
EXTENDS Naturals

CONSTANTS Procs,      \* the processes that need the token
          MaxTokens   \* bound: different tokens in use at the same time

VARIABLES file,     \* the content of the token file, {} when there is none
          process,  \* each process: where it is, the token it has
          torn,     \* history: a process died between creating and writing
          undone    \* history: a token was removed after it had been written

vars == <<file, process, torn, undone>>
history == <<torn, undone>>

Empty == 0
Tokens == 1..MaxTokens
NoFile == {}
EmptyFile == {Empty}

Out == [at |-> "out", token |-> Empty]
TypeOK == /\ file \in {NoFile, EmptyFile} \cup {{t} : t \in Tokens}
          /\ process \in [Procs -> [at : {"out", "look", "create", "write", "close", "read", "has"},
                                    token : {Empty} \cup Tokens]]
          /\ torn \in BOOLEAN
          /\ undone \in BOOLEAN

Exists == file # NoFile
Has(p) == process[p].at = "has"

(* secrets.token_urlsafe: a token that nobody has and no file holds. *)
Unused == {t \in Tokens : t \notin file /\ \A p \in Procs : process[p].token # t}
NewToken == CHOOSE t \in Unused : TRUE

Go(p, place, token) == process' = [process EXCEPT ![p] = [at |-> place, token |-> token]]

Init == /\ file = NoFile
        /\ process = [p \in Procs |-> Out]
        /\ torn = FALSE
        /\ undone = FALSE

(* A process starts; the file may be there, or not yet. *)
Enter(p) == /\ process[p].at = "out"
            /\ Go(p, "look", Empty)
            /\ UNCHANGED <<file, history>>

Look(p) == /\ process[p].at = "look"
           /\ Go(p, IF Exists THEN "read" ELSE "create", Empty)
           /\ UNCHANGED <<file, history>>

(* Mutant: the file is opened for writing whoever created it. *)
CreateShared(p) == /\ process[p].at = "create"
                   /\ Unused # {}
                   /\ Go(p, "write", NewToken)
                   /\ file' = EmptyFile
                   /\ UNCHANGED history

(* O_EXCL: whoever comes second reads what the first has written so far. *)
Create(p) == /\ process[p].at = "create"
             /\ Unused # {}
             /\ IF Exists
                THEN Go(p, "read", Empty) /\ UNCHANGED file
                ELSE Go(p, "write", NewToken) /\ file' = EmptyFile
             /\ UNCHANGED history

Write(p) == /\ process[p].at = "write"
            /\ file' = {process[p].token}
            /\ Go(p, "close", process[p].token)
            /\ UNCHANGED history

Close(p) == /\ process[p].at = "close"
            /\ Go(p, "has", process[p].token)
            /\ UNCHANGED <<file, history>>

(* Reading an empty file is no error: the process goes on without a token. *)
Read(p) == /\ process[p].at = "read"
           /\ \E t \in file : Go(p, "has", t)
           /\ UNCHANGED <<file, history>>

(* The file seen by Look is gone again: the process ends with an error. *)
ReadFails(p) == /\ process[p].at = "read"
                /\ ~ Exists
                /\ Go(p, "out", Empty)
                /\ UNCHANGED <<file, history>>

(* Mutant: what a failed write leaves is not removed. *)
FailWithoutUnlink(p) == /\ process[p].at \in {"write", "close"}
                        /\ Go(p, "out", Empty)
                        /\ UNCHANGED <<file, history>>

(* The write fails, or Ctrl-C interrupts it or its close: the file that    *)
(* this process created is removed.                                        *)
Fail(p) == /\ process[p].at \in {"write", "close"}
           /\ file' = NoFile
           /\ undone' = (undone \/ process[p].at = "close")
           /\ Go(p, "out", Empty)
           /\ UNCHANGED torn

(* A process is killed before it has its token: nothing is cleaned up. *)
Kill(p) == /\ process[p].at \notin {"out", "has"}
           /\ torn' = (torn \/ process[p].at = "write")
           /\ Go(p, "out", Empty)
           /\ UNCHANGED <<file, undone>>

(* A process that has its token ends, or dies: the file stays. *)
Leave(p) == /\ Has(p)
            /\ Go(p, "out", Empty)
            /\ UNCHANGED <<file, history>>

Load(p) == \/ Enter(p) \/ Look(p) \/ Create(p) \/ Write(p) \/ Close(p)
           \/ Read(p) \/ ReadFails(p)
Break(p) == Fail(p) \/ Kill(p)

Next == \E p \in Procs : Load(p) \/ Break(p) \/ Leave(p)

Spec == Init /\ [][Next]_vars

-----------------------------------------------------------------------------
(* A process that has a token has the one in the file, so all that have one *)
(* have the same (daemon_auth.py:48-50 and 65-67), unless a write was       *)
(* undone after another process could read it.                              *)
HeldTokenIsTheFiles == \A p \in Procs :
    (Has(p) /\ process[p].token # Empty /\ ~ undone) => file = {process[p].token}

(* An empty token file, which gives every process that starts an empty      *)
(* token, is about to be filled or removed, unless its writer was killed.   *)
EmptyFileIsBeingWritten ==
    (file = EmptyFile) => (torn \/ \E p \in Procs : process[p].at = "write")
=============================================================================
