--------------------------- MODULE MCResumeGraph ---------------------------
(***************************************************************************)
(* A workflow for TLC.  An instance S is installed: a sets its state to    *)
(* "creating", m is a NOP, c creates, b sets "created", and a relationship *)
(* subgraph R has the operations r and q side by side; T waits for S, and  *)
(* C is the cleanup that a resumed install of S starts with.               *)
(***************************************************************************)
EXTENDS ResumeGraph

MCTask == [op : Op, gen : 0..MaxGen, try : 0..MaxTry]

ResumeOp      == {"S", "a", "c", "b", "R", "r", "q", "m", "T", "C", "d"}
ResumeParent  == [S |-> NoOp, a |-> "S", c |-> "S", b |-> "S", R |-> "S", r |-> "R",
                  q |-> "R", m |-> "S", T |-> NoOp, C |-> NoOp, d |-> "C"]
ResumeNeeds   == {<<"m", "a">>, <<"c", "m">>, <<"b", "c">>, <<"R", "b">>, <<"T", "S">>}
ResumeHandler == [o \in ResumeOp |-> CASE o = "R" -> "propagate"
                                       [] o = "d" -> "ignore"
                                       [] o \in {"S", "C"} -> "fail"
                                       [] OTHER -> "none"]
ResumeOutcome == [o \in ResumeOp |-> CASE o = "c" -> {"value", "RecoverableError"}
                                       [] o \in {"r", "d"} -> {"value", "NonRecoverableError"}
                                       [] OTHER -> {"value"}]
ResumeRetries == [o \in ResumeOp |-> IF o = "c" THEN 2 ELSE 0]
ResumeCleanup == [S |-> "C"]
ResumeResent  == [S |-> "c"]
ResumeEntered == [S |-> "a"]
ResumeLeft    == [S |-> "b"]
=============================================================================
