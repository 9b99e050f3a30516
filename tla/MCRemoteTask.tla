---------------------------- MODULE MCRemoteTask ----------------------------
(* Two operations of a workflow that is resumed once. *)
EXTENDS RemoteTask
=============================================================================
