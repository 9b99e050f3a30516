------------------------ MODULE MCExecutionLifecycle ------------------------
(* Two results waited for, two calls that raise, and one more process. *)
EXTENDS ExecutionLifecycle
=============================================================================
