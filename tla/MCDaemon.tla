------------------------------ MODULE MCDaemon ------------------------------
(***************************************************************************)
(* The daemon with one reconnect allowed per completed pass, the code's    *)
(* three trips, two vault edits after the start and three faults: enough   *)
(* for a session that lapses, heals and lapses again, a kill after a       *)
(* refused login and an edit in every phase of a failing pass.             *)
(***************************************************************************)
EXTENDS Daemon
=============================================================================
