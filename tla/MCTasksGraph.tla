---------------------------- MODULE MCTasksGraph ----------------------------
(***************************************************************************)
(* A workflow for TLC: an instance subgraph that is rebuilt, with a        *)
(* relationship subgraph in it, and two tasks that follow.                 *)
(***************************************************************************)
EXTENDS TasksGraphProperties

MCTask == [op : Op, gen : 0..MaxGen, try : 0..MaxTry]

(* Instance S: operations x and z side by side, and after x a relationship *)
(* subgraph R with an operation r and a NOP m after it.  T waits for S,    *)
(* and the poll p of a state for T.                                        *)
InstanceOp      == {"S", "R", "r", "m", "x", "z", "T", "p"}
InstanceParent  == [S |-> NoOp, R |-> "S", r |-> "R", m |-> "R", x |-> "S", z |-> "S",
                    T |-> NoOp, p |-> NoOp]
InstanceNeeds   == {<<"m", "r">>, <<"R", "x">>, <<"T", "S">>, <<"p", "T">>}
InstanceHandler == [S |-> "rebuild", R |-> "propagate", r |-> "none", m |-> "none",
                    x |-> "ignore", z |-> "none", T |-> "fail", p |-> "poll"]
InstanceOutcome == [r |-> {"value", "OperationRetry"},
                    x |-> {"RecoverableError"},
                    z |-> {"value", "NonRecoverableError"},
                    m |-> {"value"}, S |-> {}, R |-> {}, T |-> {},
                    p |-> {"value", "falsy"}]
InstanceRetries == [S |-> 1, R |-> 0, r |-> 1, m |-> 0, x |-> 0, z |-> 0, T |-> 0,
                    p |-> 0]

(* The hypothesis of SiblingsStartInOrder. *)
ASSUME InstanceAssumption == SiblingNeeds
=============================================================================
