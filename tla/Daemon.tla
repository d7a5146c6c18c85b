------------------------------- MODULE Daemon -------------------------------
(***************************************************************************)
(* The daemon process and its clients (daemon.py, daemon_auth.py): the     *)
(* daemon takes the token, resolves the graph engine, and then serves the  *)
(* calls of the clients whose token is its own.  GraphRouting is what it   *)
(* serves, DaemonToken how it and its clients come by the token; here the  *)
(* two are put together, and every behaviour is one of each.               *)
(***************************************************************************)
EXTENDS GraphRouting

CONSTANTS Server,    \* the process that is `josu daemon start`
          Clients,   \* the processes that start an agent with the daemon's URL
          MaxTokens

ASSUME ServerIsNoClient == Server \notin Clients

VARIABLES file, process, torn, undone   \* of DaemonToken

tokenVars == <<file, process, torn, undone>>
daemonVars == <<vars, tokenVars>>

Token == INSTANCE DaemonToken WITH Procs <- {Server} \cup Clients

DaemonTypeOK == TypeOK /\ Token!TypeOK

DaemonInit == Init /\ Token!Init

(* create_app: nothing happens before the token is there. *)
StartDaemon == /\ Token!Has(Server)
               /\ Start
               /\ UNCHANGED tokenVars

(* The process ends with all it had in memory. *)
StopDaemon == /\ Stop
              /\ Token!Leave(Server)

(* It ends between loading the token and resolving the engine. *)
StopEarly == /\ boot = "off"
             /\ Token!Leave(Server)
             /\ UNCHANGED vars

(* Any process on its way to the token. *)
TokenStep == /\ \E p \in {Server} \cup Clients : Token!Load(p) \/ Token!Break(p)
             /\ UNCHANGED vars

ClientLeaves(p) == Token!Leave(p) /\ UNCHANGED vars

(* DaemonAuthMiddleware compares the token in the URL of the client's agent *)
(* with the daemon's.  Neither changes while the two processes live, so the *)
(* messages of an open session need no check of their own.                  *)
Accepted(p) == Token!Has(p) /\ process[p].token = process[Server].token

Serve == /\ \E p \in Clients : Accepted(p)
         /\ \E c \in Calls : Ask(c) \/ Document(c)
         /\ UNCHANGED tokenVars

Work == /\ BootCheck \/ Tick \/ ServerChanges \/ CancelSome \/ \E c \in Calls : Step(c)
        /\ UNCHANGED tokenVars

DaemonNext == \/ StartDaemon \/ StopDaemon \/ StopEarly \/ TokenStep
              \/ \E p \in Clients : ClientLeaves(p)
              \/ Serve \/ Work

(* The event loop and the threads run and time passes: every request to     *)
(* gortex and every conversion of a document has a timeout of its own.      *)
DaemonFairness ==
    /\ WF_daemonVars(Tick /\ UNCHANGED tokenVars)
    /\ WF_daemonVars(BootCheck /\ UNCHANGED tokenVars)
    /\ \A c \in Calls : WF_daemonVars(Step(c) /\ UNCHANGED tokenVars)

DaemonSpec == DaemonInit /\ [][DaemonNext]_daemonVars /\ DaemonFairness

-----------------------------------------------------------------------------
(* A daemon that serves turns no client away over its token, unless one of  *)
(* the two read the file before it was filled or a written token was undone *)
(* (daemon_auth.py:48-50: "the daemon itself will read the same file").     *)
ClientsAreAccepted == (boot # "off" /\ ~ undone) => \A p \in Clients :
    (/\ Token!Has(p) /\ process[p].token # Token!Empty
     /\ process[Server].token # Token!Empty) => Accepted(p)

(* An empty token file is about to be filled or removed, unless its writer *)
(* was killed (daemon_auth.py:76-83).                                      *)
EmptyFileIsBeingWritten == Token!EmptyFileIsBeingWritten
=============================================================================
