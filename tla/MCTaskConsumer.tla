--------------------------- MODULE MCTaskConsumer ---------------------------
(* Two tasks for a pool of two threads, and two bodies that do not parse,  *)
(* which close a window of two; the process or its connection is lost once.*)
EXTENDS TaskConsumer
=============================================================================
