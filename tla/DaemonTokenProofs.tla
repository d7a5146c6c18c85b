------------------------- MODULE DaemonTokenProofs --------------------------
(***************************************************************************)
(* Proofs about DaemonToken, for any processes, killed or interrupted at   *)
(* any point.                                                              *)
(***************************************************************************)
EXTENDS DaemonToken, TLAPS

Places == {"out", "look", "create", "write", "close", "read", "has"}
ProcessType == [at : Places, token : {Empty} \cup Tokens]
Typed == process \in [Procs -> ProcessType]

Writing(p) == process[p].at \in {"write", "close"}

(* The process that creates the file is alone with it until it is done: the *)
(* file is empty, or it holds the token that this process will go on with.  *)
WriterOwns ==
    \A p \in Procs :
        /\ Writing(p) => /\ process[p].token # Empty
                         /\ \A q \in Procs : Writing(q) => q = p
        /\ process[p].at = "write" => file = EmptyFile
        /\ process[p].at = "close" => file = {process[p].token}

(* The file holds at most one token. *)
OneToken == file \in {NoFile, EmptyFile} \cup {{t} : t \in Tokens}

TokenInv == Typed /\ OneToken /\ WriterOwns /\ HeldTokenIsTheFiles /\ EmptyFileIsBeingWritten

-----------------------------------------------------------------------------
(* A generated token is not the empty one. *)
LEMMA NewTokenIsReal == ASSUME Unused # {} PROVE NewToken \in Tokens /\ NewToken # Empty
<1>1. NewToken \in Unused
  BY DEF NewToken
<1>2. Empty \notin Tokens
  BY DEF Empty, Tokens
<1> QED
  BY <1>1, <1>2 DEF Unused

(* Going to a place changes one process. *)
LEMMA GoProcess ==
  ASSUME Typed, NEW p \in Procs, NEW place \in Places, NEW t \in {Empty} \cup Tokens,
         Go(p, place, t)
  PROVE  /\ Typed'
         /\ process'[p].at = place /\ process'[p].token = t
         /\ \A q \in Procs : q # p => process'[q] = process[q]
  BY DEF Typed, ProcessType, Go

(* No process has begun, and there is no file. *)
LEMMA InitToken == Init => TokenInv
<1> SUFFICES ASSUME Init PROVE TokenInv
  OBVIOUS
<1>1. Out \in ProcessType /\ Out.at = "out"
  BY DEF Out, ProcessType, Places
<1>2. \A p \in Procs : process[p] = Out
  BY DEF Init
<1>3. Typed
  BY <1>1 DEF Init, Typed
<1> QED
  BY <1>1, <1>2, <1>3
  DEF Init, TokenInv, OneToken, WriterOwns, Writing, HeldTokenIsTheFiles, EmptyFileIsBeingWritten, Has,
      NoFile, EmptyFile

(* A process that goes on without touching the file, to a place where it    *)
(* does not write, with no token or with the one in the file.               *)
LEMMA MoveInv ==
  ASSUME TokenInv, NEW p \in Procs, NEW place \in Places \ {"write", "close"},
         NEW t \in {Empty} \cup Tokens, Go(p, place, t),
         place # "has" \/ t = Empty \/ undone \/ file = {t},
         file' = file, undone' = undone, torn => torn',
         process[p].at = "write" => torn'
  PROVE  TokenInv'
<1>1. /\ Typed' /\ process'[p].at = place /\ process'[p].token = t
      /\ \A q \in Procs : q # p => process'[q] = process[q]
  BY GoProcess DEF TokenInv
<1>2. \A q \in Procs : Writing(q)' => q # p /\ Writing(q)
  BY <1>1 DEF Writing
<1>3. WriterOwns'
  BY <1>1, <1>2 DEF TokenInv, WriterOwns, Writing
<1>4. HeldTokenIsTheFiles'
  BY <1>1 DEF TokenInv, HeldTokenIsTheFiles, Has
<1>5. EmptyFileIsBeingWritten'
  BY <1>1 DEF TokenInv, EmptyFileIsBeingWritten
<1> QED
  BY <1>1, <1>3, <1>4, <1>5 DEF TokenInv, OneToken

(* A reader takes what is in the file. *)
LEMMA ReadInv == ASSUME TokenInv, NEW p \in Procs, Read(p) PROVE TokenInv'
<1>1. PICK t \in file : Go(p, "has", t)
  BY DEF Read
<1>2. file = {t} /\ t \in {Empty} \cup Tokens
  BY DEF TokenInv, OneToken, NoFile, EmptyFile
<1> QED
  BY <1>1, <1>2, MoveInv DEF Read, Places, history

(* Whoever creates the file is its only writer. *)
LEMMA CreateInv == ASSUME TokenInv, NEW p \in Procs, Create(p) PROVE TokenInv'
<1>1. CASE Exists
  <2>1. Go(p, "read", Empty) /\ file' = file /\ UNCHANGED history /\ process[p].at = "create"
    BY <1>1 DEF Create
  <2> QED
    BY <2>1, MoveInv DEF Places, history
<1>2. CASE ~ Exists
  <2>1. Go(p, "write", NewToken) /\ file' = EmptyFile /\ UNCHANGED history
    BY <1>2 DEF Create
  <2>2. NewToken \in Tokens /\ NewToken # Empty
    BY NewTokenIsReal DEF Create
  <2>3. /\ Typed' /\ process'[p].at = "write" /\ process'[p].token = NewToken
        /\ \A q \in Procs : q # p => process'[q] = process[q]
    BY <2>1, <2>2, GoProcess DEF TokenInv, Places
  <2>4. file = {}
    BY <1>2 DEF Exists, NoFile
  <2>5. \A q \in Procs : ~ Writing(q)
    BY <2>4 DEF TokenInv, WriterOwns, Writing, EmptyFile
  <2>6. WriterOwns'
    BY <2>1, <2>2, <2>3, <2>5 DEF WriterOwns, Writing
  <2>7. HeldTokenIsTheFiles'
    BY <2>1, <2>3, <2>4 DEF TokenInv, HeldTokenIsTheFiles, Has, history
  <2>8. EmptyFileIsBeingWritten'
    BY <2>3 DEF EmptyFileIsBeingWritten
  <2> QED
    BY <2>1, <2>3, <2>6, <2>7, <2>8 DEF TokenInv, OneToken
<1> QED
  BY <1>1, <1>2

(* The writer's token is now the file's. *)
LEMMA WriteInv == ASSUME TokenInv, NEW p \in Procs, Write(p) PROVE TokenInv'
<1>1. /\ process[p].at = "write" /\ file = EmptyFile /\ process[p].token # Empty
      /\ \A q \in Procs : Writing(q) => q = p
      /\ process[p].token \in {Empty} \cup Tokens
  BY DEF Write, TokenInv, WriterOwns, Writing, Typed, ProcessType
<1>2. file' = {process[p].token} /\ UNCHANGED history
  BY DEF Write
<1>3. /\ Typed' /\ process'[p].at = "close" /\ process'[p].token = process[p].token
      /\ \A q \in Procs : q # p => process'[q] = process[q]
  BY <1>1, GoProcess DEF Write, TokenInv, Places
<1>4. WriterOwns'
  BY <1>1, <1>2, <1>3 DEF WriterOwns, Writing
<1>5. HeldTokenIsTheFiles'
  BY <1>1, <1>2, <1>3 DEF TokenInv, HeldTokenIsTheFiles, Has, EmptyFile, history
<1>6. EmptyFileIsBeingWritten'
  BY <1>1, <1>2 DEF EmptyFileIsBeingWritten, EmptyFile
<1> QED
  BY <1>1, <1>2, <1>3, <1>4, <1>5, <1>6 DEF TokenInv, OneToken

(* The writer takes its file away. *)
LEMMA FailInv == ASSUME TokenInv, NEW p \in Procs, Fail(p) PROVE TokenInv'
<1>1. /\ Writing(p) /\ file' = {}
      /\ undone' = (undone \/ process[p].at = "close")
  BY DEF Fail, Writing, NoFile
<1>2. /\ Typed' /\ process'[p].at = "out"
      /\ \A q \in Procs : q # p => process'[q] = process[q]
  BY GoProcess DEF Fail, TokenInv, Places
<1>3. WriterOwns'
  BY <1>1, <1>2 DEF TokenInv, WriterOwns, Writing
<1>4. HeldTokenIsTheFiles'
  <2>1. CASE process[p].at = "write"
    <3>1. file = EmptyFile
      BY <2>1 DEF TokenInv, WriterOwns
    <3>2. \A q \in Procs : Has(q) /\ ~ undone => process[q].token = Empty
      BY <3>1 DEF TokenInv, HeldTokenIsTheFiles, EmptyFile
    <3> QED
      BY <1>1, <1>2, <2>1, <3>2 DEF HeldTokenIsTheFiles, Has
  <2>2. CASE process[p].at = "close"
    BY <1>1, <2>2 DEF HeldTokenIsTheFiles
  <2> QED
    BY <1>1, <2>1, <2>2 DEF Writing
<1>5. EmptyFileIsBeingWritten'
  BY <1>1 DEF EmptyFileIsBeingWritten, EmptyFile
<1> QED
  BY <1>1, <1>2, <1>3, <1>4, <1>5 DEF TokenInv, OneToken, NoFile

(* All steps together. *)
LEMMA TokenStep == TokenInv /\ [Next]_vars => TokenInv'
<1> SUFFICES ASSUME TokenInv, [Next]_vars PROVE TokenInv'
  OBVIOUS
<1>1. ASSUME NEW p \in Procs, Load(p) \/ Break(p) \/ Leave(p)
      PROVE  TokenInv'
  <2>1. CASE Enter(p)
    BY <2>1, MoveInv DEF Enter, Places, history
  <2>2. CASE Look(p)
    <3>1. (IF Exists THEN "read" ELSE "create") \in Places \ {"write", "close", "has"}
      BY DEF Places
    <3> QED
      BY <2>2, <3>1, MoveInv DEF Look, history
  <2>3. CASE Close(p)
    <3>1. /\ process[p].at = "close" /\ file = {process[p].token}
          /\ process[p].token \in {Empty} \cup Tokens
      BY <2>3 DEF Close, TokenInv, WriterOwns, Typed, ProcessType
    <3> QED
      BY <2>3, <3>1, MoveInv DEF Close, Places, history
  <2>4. CASE Read(p)
    BY <2>4, ReadInv
  <2>5. CASE ReadFails(p)
    BY <2>5, MoveInv DEF ReadFails, Places, history
  <2>6. CASE Kill(p)
    BY <2>6, MoveInv DEF Kill, Places
  <2>7. CASE Leave(p)
    BY <2>7, MoveInv DEF Leave, Has, Places, history
  <2> QED
    BY <1>1, <2>1, <2>2, <2>3, <2>4, <2>5, <2>6, <2>7, CreateInv, WriteInv, FailInv DEF Load, Break
<1>2. CASE UNCHANGED vars
  BY <1>2 DEF vars, TokenInv, Typed, OneToken, WriterOwns, Writing, HeldTokenIsTheFiles,
              EmptyFileIsBeingWritten, Has
<1> QED
  BY <1>1, <1>2 DEF Next

(* The type invariant: only a process that dies or fails writes history. *)
THEOREM TokenTyped == Spec => []TypeOK
<1> DEFINE HistoryTyped == torn \in BOOLEAN /\ undone \in BOOLEAN
<1>1. Init => HistoryTyped
  BY DEF Init
<1>2. HistoryTyped /\ [Next]_vars => HistoryTyped'
  BY DEF Next, vars, history, Load, Break, Leave, Enter, Look, Create, Write, Close, Read, ReadFails,
         Fail, Kill
<1>3. TokenInv /\ HistoryTyped => TypeOK
  BY DEF TokenInv, Typed, ProcessType, Places, OneToken, TypeOK
<1> QED
  BY <1>1, <1>2, <1>3, InitToken, TokenStep, PTL DEF Spec

(* Whatever processes start, race, die and end: a token that a process has   *)
(* is the one in the file, unless a write was undone after it could be read, *)
(* so all processes with a token have the same (daemon_auth.py:48-50).       *)
THEOREM TokensAgree == Spec => []HeldTokenIsTheFiles
<1>1. TokenInv => HeldTokenIsTheFiles
  BY DEF TokenInv
<1> QED
  BY <1>1, InitToken, TokenStep, PTL DEF Spec

(* A token file stays empty only if the process that created it was killed. *)
THEOREM OnlyAKillLeavesItEmpty == Spec => []EmptyFileIsBeingWritten
<1>1. TokenInv => EmptyFileIsBeingWritten
  BY DEF TokenInv
<1> QED
  BY <1>1, InitToken, TokenStep, PTL DEF Spec
=============================================================================
