------------------------------ MODULE MCDaemon ------------------------------
(* Two calls that can probe at once, one client, one kill. *)
EXTENDS Daemon

CONSTANTS c1, c2, server, cli
=============================================================================
