--------------------------- MODULE InstanceTasks ---------------------------
(***************************************************************************)
(* The tasks that plugins.lifecycle puts, in sequence, into the subgraph   *)
(* of one node instance, as the state that the workflow has read of the    *)
(* instance asks for them. Events, validations, agents, monitoring and the *)
(* operations around create, configure, start, stop and delete, which      *)
(* share their guard, are left out.                                        *)
(***************************************************************************)
EXTENDS Naturals, Sequences, SequencesExt

CONSTANTS Instances,   \* node instances, those to be added too
          Targets,     \* Instances -> its relationships' targets, in order
          Real         \* Instances -> which of Made its node implements

Made == {"create", "configure", "start"}

\* unset: as local storage creates an instance.
States == {"unset", "uninitialized", "initializing", "creating", "created",
           "configuring", "configured", "starting", "started",
           "stopping", "stopped", "deleting", "deleted"}

ASSUME InstancesAssumption ==
    /\ Targets \in [Instances -> Seq(Instances)]
    /\ Real \in [Instances -> SUBSET Made]
    /\ Instances \cap (States \cup Made \cup {"stop", "delete"}) = {}

SetState(s) == <<[do |-> "set_state", what |-> s]>>
Operation(op) == <<[do |-> "operation", what |-> op]>>

\* What an operation undoes; a node that implements the one implements the
\* other.
Undone(op) == CASE op = "stop" -> {"start"}
                [] op = "delete" -> {"create", "configure"}
                [] OTHER -> {}
IsNop(i, op) == ({op} \cup Undone(op)) \cap Real[i] = {}

\* _skip_nop_operations
Around(pre, i, op, post) ==
    IF IsNop(i, op) THEN <<>> ELSE pre \o Operation(op) \o post

\* The members of s that are in D, in their order: SelectSeq, as a function that
\* proofs can unfold.
Among(s, D) ==
    LET among[n \in 0 .. Len(s)] ==
            IF n = 0 THEN <<>>
            ELSE IF s[n] \in D THEN Append(among[n - 1], s[n])
                               ELSE among[n - 1]
    IN  among[Len(s)]

\* _relationships_operations, of relationships with targets that are there.
Relate(do, targets) ==
    [n \in DOMAIN targets |-> [do |-> do, what |-> targets[n]]]

CreatedBefore == {"started", "starting", "created", "configuring",
                  "configured"}
ConfiguredBefore == {"started", "starting", "configured"}

\* Mutant: an instance that was being configured counts as configured.
InstallConfiguring(i, s, targets) ==
    LET create == IF s \in CreatedBefore THEN <<>>
                  ELSE Around(SetState("creating"), i, "create",
                              SetState("created"))
        configure == IF s \in ConfiguredBefore \cup {"configuring"} THEN <<>>
                     ELSE Around(SetState("configuring"), i, "configure",
                                 SetState("configured"))
        start == IF s = "started" THEN <<>>
                 ELSE Around(SetState("starting"), i, "start", <<>>)
        establish == IF s = "started" THEN <<>>
                     ELSE Relate("establish", targets)
        work == create \o configure \o start \o establish
    IN  (IF work = <<>> THEN <<>> ELSE SetState("initializing"))
        \o work \o SetState("started")

\* install_node_instance_subgraph
Install(i, s, targets) ==
    LET create == IF s \in CreatedBefore THEN <<>>
                  ELSE Around(SetState("creating"), i, "create",
                              SetState("created"))
        configure == IF s \in ConfiguredBefore THEN <<>>
                     ELSE Around(SetState("configuring"), i, "configure",
                                 SetState("configured"))
        start == IF s = "started" THEN <<>>
                 ELSE Around(SetState("starting"), i, "start", <<>>)
        establish == IF s = "started" THEN <<>>
                     ELSE Relate("establish", targets)
        work == create \o configure \o start \o establish
    IN  (IF work = <<>> THEN <<>> ELSE SetState("initializing"))
        \o work \o SetState("started")

StoppedBefore == {"stopped", "deleting", "deleted"}
NotStarted == StoppedBefore \cup {"uninitialized", "configured"}
NotThere == {"deleted", "uninitialized"}

\* Mutant: an instance that is starting counts as not started.
UninstallStarting(i, s, targets) ==
    (IF s \in NotStarted \cup {"starting"} THEN <<>>
       ELSE SetState("stopping") \o Around(<<>>, i, "stop", <<>>))
    \o (IF s \in StoppedBefore THEN <<>> ELSE SetState("stopped"))
    \o (IF s \in NotThere THEN <<>>
          ELSE Relate("unlink", Reverse(targets))
               \o Around(SetState("deleting"), i, "delete", <<>>))
    \o (IF s = "deleted" THEN <<>> ELSE SetState("deleted"))

\* uninstall_node_instance_subgraph
Uninstall(i, s, targets) ==
    (IF s \in NotStarted THEN <<>>
       ELSE SetState("stopping") \o Around(<<>>, i, "stop", <<>>))
    \o (IF s \in StoppedBefore THEN <<>> ELSE SetState("stopped"))
    \o (IF s \in NotThere THEN <<>>
          ELSE Relate("unlink", Reverse(targets))
               \o Around(SetState("deleting"), i, "delete", <<>>))
    \o (IF s = "deleted" THEN <<>> ELSE SetState("deleted"))

\* rollback_node_instance_subgraph
Rollback(i, s, targets) ==
    (IF s = "starting"
       THEN SetState("stopping") \o Around(<<>>, i, "stop", <<>>)
            \o SetState("configured")
       ELSE <<>>)
    \o (IF s \in {"creating", "configuring"}
          THEN Relate("unlink", Reverse(targets))
               \o Around(SetState("deleting"), i, "delete", <<>>)
               \o SetState("uninitialized")
          ELSE <<>>)

\* reinstall_node_instance_subgraph
Reinstall(i, s, targets) ==
    Uninstall(i, s, targets) \o Install(i, s, targets)

Unresolved == {"creating", "configuring", "starting"}
=============================================================================
