-------------------------- MODULE MCGraphBuilding --------------------------
(* Small sets of tasks and sequences for GraphBuilding. *)
EXTENDS GraphBuilding
=============================================================================
