---------------------------- MODULE MCTaskResult ----------------------------
(* Two operations whose results race with the main loop. *)
EXTENDS TaskResult
=============================================================================
