-------------------------- MODULE BuiltinWorkflows --------------------------
(***************************************************************************)
(* install, uninstall, heal, rollback and scale (plugins.workflows) over   *)
(* the graphs of plugins.lifecycle: what each workflow makes of the state  *)
(* an earlier one left, which may have failed, been cancelled or died at   *)
(* any task.                                                               *)
(*                                                                         *)
(* The state of an instance is what the storage has; the workflow decides  *)
(* by what it read of it (seen). What operations have really brought about *)
(* is kept apart: <<i, "start">>, or <<i, j>> for a relationship of i that *)
(* was established. A task is one step; how a graph is executed is in      *)
(* TasksGraph, and how it is resumed in ResumeGraph.                       *)
(*                                                                         *)
(* An operation that an agent is at while its graph ends may be done with  *)
(* it, or at any later time (stray), when other workflows have gone over   *)
(* its instance. What is in force is therefore kept in two parts: what the *)
(* states were told of (inforce), and what strays have changed since then  *)
(* and no other operation after them (lateMade, lateUndone).               *)
(***************************************************************************)
EXTENDS InstanceTasks, Relation

CONSTANTS Deployed,          \* the instances of the deployment at first
          Subgraphs,         \* what heal may reinstall: contained subgraphs
          Scaled,            \* what a scaling adds or removes
          SubgraphRetries,
          Hints,             \* values of ignore_failure
          MaxWorkflows, MaxFailures      \* bounds

ToTarget == [p \in Instances \X Instances |->
                p[2] \in ToSet(Targets[p[1]])]
\* Relationships, through others.
Reaches == TransitiveClosure(ToTarget, Instances)
\* The closure has the direct ones too; they are named for the proofs.
RelatesTo(i, j) == j \in ToSet(Targets[i]) \/ Reaches[i, j]

ASSUME DeploymentAssumption ==
    /\ Deployed \subseteq Instances
    /\ Subgraphs \subseteq SUBSET Instances
    /\ Scaled \subseteq SUBSET Instances
    /\ \A i \in Instances : ~Reaches[i, i]
    \* An instance added between two others would order them, see Before.
    /\ \A S \in Scaled : \A i \in S, j \in Instances \ S :
          Reaches[j, i] => Targets[i] = <<>>
    /\ SubgraphRetries \in Nat /\ Hints \subseteq BOOLEAN
    /\ MaxWorkflows \in Nat /\ MaxFailures \in Nat

VARIABLES state,          \* Instances -> States, as stored
          inforce,        \* what operations have brought about
          deployed,       \* the instances of the deployment
          modification,   \* the deployment modification that is started
          workflow,       \* the workflow that runs
          phase,          \* which of its graphs
          graph,          \* what that graph does, and to which instances
          seen,           \* Instances -> the state that the workflow read
          plan,           \* Instances -> its tasks that have not ended
          tries,          \* Instances -> builds of its subgraph after the first
          last,           \* how the last workflow ended
          workflows, failures,            \* counted for the bounds
          abandoned,      \* what stayed in force as a failure was ignored, or
                          \* as a state that denies it was written over it
          misled,         \* instances treated by a state they no longer had
          unrecorded,     \* links that are not as the state of their instance says
          stray,          \* operations that agents are at though their graph is over
          lateMade,       \* what strays brought about that is not in inforce
          lateUndone      \* what strays undid that is in inforce

running == <<workflow, phase, graph, seen, plan, tries>>
history == <<abandoned, misled, unrecorded>>
late == <<stray, lateMade, lateUndone>>
vars == <<state, inforce, deployed, modification, running, last,
          workflows, failures, history, late>>

NoWorkflow == [kind |-> "none", on |-> {}, ignore |-> FALSE, option |-> FALSE]
NoModification == [kind |-> "none", on |-> {}]
NoGraph == [kind |-> "none", on |-> {}, ignore |-> FALSE]
NoPlan == [i \in Instances |-> <<>>]

Idle == phase = "idle"
Rels(i) == Among(Targets[i], deployed)

Init == /\ \E s \in {"unset", "uninitialized"} :
              state = [i \in Instances |-> s]
        /\ inforce = {}
        /\ deployed = Deployed
        /\ modification = NoModification
        /\ workflow = NoWorkflow
        /\ phase = "idle"
        /\ graph = NoGraph
        /\ seen = state
        /\ plan = NoPlan
        /\ tries = [i \in Instances |-> 0]
        /\ last = [workflow |-> NoWorkflow, done |-> FALSE]
        /\ workflows = 0 /\ failures = 0
        /\ abandoned = {} /\ misled = {} /\ unrecorded = {}
        /\ stray = {} /\ lateMade = {} /\ lateUndone = {}

-----------------------------------------------------------------------------
\* LifecycleProcessor: the graph of a set of instances, and stubs of the others
\* for their relationships with it.
StubTargets(i, g, there) == Among(Targets[i], g.on \cap there)
Stub(i, g, there) ==
    CASE g.kind = "install" -> Relate("establish", StubTargets(i, g, there))
      [] OTHER -> Relate("unlink", Reverse(StubTargets(i, g, there)))

Subgraph(i, g, s, there) ==
    LET targets == Among(Targets[i], there)
    IN  CASE g.kind = "install" -> Install(i, s, targets)
          [] g.kind = "uninstall" -> Uninstall(i, s, targets)
          [] OTHER -> Rollback(i, s, targets)

\* The graph g over the instances there, which the workflow read as s.
Build(p, g, s, there) ==
    /\ phase' = p
    /\ graph' = g
    /\ seen' = s
    /\ plan' = [i \in Instances |->
                  IF i \notin there THEN <<>>
                  ELSE IF i \in g.on THEN Subgraph(i, g, s[i], there)
                                     ELSE Stub(i, g, there)]
    /\ tries' = [i \in Instances |-> 0]

Graph(kind, on, ignore) == [kind |-> kind, on |-> on, ignore |-> ignore]

End(done) ==
    /\ last' = [workflow |-> workflow, done |-> done]
    /\ workflow' = NoWorkflow
    /\ phase' = "idle"
    /\ graph' = NoGraph
    /\ plan' = NoPlan
    /\ seen' = state
    /\ tries' = [i \in Instances |-> 0]

\* Mutant: the edges of an uninstall point like those of an install.
BeforeOneWay(i) == {j \in deployed : RelatesTo(i, j)}

\* _add_dependencies: an instance waits for its targets, or, where something is
\* undone, for what has a relationship to it; stubs wait and are waited for too.
Before(i) == {j \in deployed : IF graph.kind = "install" THEN RelatesTo(i, j)
                                                         ELSE RelatesTo(j, i)}

Enabled(i) == plan[i] # <<>> /\ \A j \in Before(i) : plan[j] = <<>>

-----------------------------------------------------------------------------
\* What a task does to the world.
Adds(i, task) ==
    CASE task.do = "establish" -> {<<i, task.what>>}
      [] task.do = "operation" -> {<<i, task.what>>} \cap ({i} \X Real[i])
      [] OTHER -> {}
Removes(i, task) ==
    CASE task.do = "unlink" -> {<<i, task.what>>}
      [] task.do = "operation" -> {i} \X Undone(task.what)
      [] OTHER -> {}
After(facts, i, task) == (facts \ Removes(i, task)) \cup Adds(i, task)
Changes(i, task) == Adds(i, task) \cup Removes(i, task)

\* What is in force.
Present == (inforce \ lateUndone) \cup lateMade

\* Operations that a graph awaits settle these facts, whatever strays did.
Settle(facts) == /\ lateMade' = lateMade \ facts
                 /\ lateUndone' = lateUndone \ facts

\* The operations that agents are at.
InFlight(i) == Enabled(i) /\ Head(plan[i]).do # "set_state"

InStub(i) == i \notin graph.on
Advance(i) == plan' = [plan EXCEPT ![i] = Tail(@)]

\* An install of an instance that was stopping, and the rollback of such an
\* install, write that it is not started though nobody has stopped it.
Overwritten(i, task) ==
    IF task \in CASE graph.kind = "install"  -> ToSet(SetState("configured"))
                  [] graph.kind = "rollback" ->
                       ToSet(SetState("deleting") \o SetState("uninitialized"))
                  [] OTHER -> {}
      THEN {<<i, "start">>} ELSE {}

GivenUp(undone, redone) ==
    /\ abandoned' = (abandoned \cup undone) \cap (inforce' \ redone)
    /\ UNCHANGED misled

\* Links whose last change by a stub is not what the state of their instance
\* says: "started" promises the link, any other state does not.
Recorded(made) ==
    LET changed == (inforce' \ inforce) \cup (inforce \ inforce') \cup made
    IN  unrecorded' =
          (unrecorded \ changed)
          \cup {f \in changed :
                  /\ f[2] \in Instances /\ InStub(f[1])
                  /\ (f \in inforce') # (state[f[1]] = "started")}

TaskSucceeds(i) ==
    /\ Enabled(i)
    /\ LET task == Head(plan[i]) IN
       /\ state' = IF task.do = "set_state"
                     THEN [state EXCEPT ![i] = task.what] ELSE state
       /\ inforce' = After(inforce, i, task)
       /\ GivenUp(Overwritten(i, task), Adds(i, task))
       /\ Recorded(Adds(i, task))
       /\ Settle(Changes(i, task))
    /\ Advance(i)
    /\ UNCHANGED <<deployed, modification, workflow, phase, graph, seen, tries,
                   last, workflows, failures, stray>>

\* set_ignore_handlers, and set_send_node_event_on_error_handler of the tasks
\* that unlink an intact instance.
Ignored(i) == graph.kind # "install" /\ (graph.ignore \/ InStub(i))
HasRetry(i) == ~InStub(i) /\ tries[i] < SubgraphRetries

\* An operation that failed may have had its effect.
Failed(i, effect) ==
    /\ inforce' = IF effect THEN After(inforce, i, Head(plan[i])) ELSE inforce
    /\ Settle(IF effect THEN Changes(i, Head(plan[i])) ELSE {})

TaskIsIgnored(i, effect) ==
    /\ failures < MaxFailures
    /\ Ignored(i) /\ InFlight(i)
    /\ failures' = failures + 1
    /\ Failed(i, effect)
    /\ GivenUp(Removes(i, Head(plan[i])), {})
    /\ Recorded({})
    /\ Advance(i)
    /\ UNCHANGED <<state, deployed, modification, workflow, phase, graph, seen,
                   tries, last, workflows, stray>>

Rebuilt(i, s) == IF graph.kind = "install" THEN Reinstall(i, s, Rels(i))
                                           ELSE Uninstall(i, s, Rels(i))

\* Tasks built from what was read lack one that the present state asks for.
Lacks(i) ==
    LET undo == ToSet(Uninstall(i, seen[i], Rels(i)))
        redo == ToSet(Install(i, seen[i], Rels(i)))
    IN  \/ ~(ToSet(Uninstall(i, state[i], Rels(i))) \subseteq undo)
        \/ /\ graph.kind = "install"
           /\ ~(ToSet(Install(i, "deleted", Rels(i))) \subseteq redo)

\* _SubgraphOnFailure, whose instance has the state it was read with.
SubgraphRetried(i, effect) ==
    /\ failures < MaxFailures
    /\ ~Ignored(i) /\ HasRetry(i) /\ InFlight(i)
    /\ failures' = failures + 1
    /\ Failed(i, effect)
    /\ plan' = [plan EXCEPT ![i] = Rebuilt(i, seen[i])]
    /\ tries' = [tries EXCEPT ![i] = @ + 1]
    /\ misled' = IF Lacks(i) THEN misled \cup {i} ELSE misled
    /\ abandoned' = abandoned \cap inforce'
    /\ Recorded({})
    /\ UNCHANGED <<state, deployed, modification, workflow, phase, graph, seen,
                   last, workflows, stray>>

-----------------------------------------------------------------------------
\* The manager, when a modification is finished or rolled back.
Finished(m) == IF m.kind = "scale_in" THEN deployed \ m.on ELSE deployed
RolledBack(m) == IF m.kind = "scale_out" THEN deployed \ m.on ELSE deployed

EndModification(after, done) ==
    /\ \/ /\ deployed' = after
          /\ modification' = NoModification
       \/ UNCHANGED <<deployed, modification>>         \* the call raises
    /\ End(done /\ modification' = NoModification)

RollsBack == workflow.kind \in {"scale_out", "scale_in"} /\ workflow.option

\* execute() raises, because a task failed.
GraphFails ==
    IF RollsBack /\ workflow.kind = "scale_out" /\ phase = "first"
      THEN \* "Scale out failed, scaling back in", with instances as they were
           \* when the modification started.
           /\ Build("second", Graph("uninstall", workflow.on, workflow.ignore),
                    seen, deployed)
           /\ misled' = misled \cup {i \in workflow.on : Lacks(i)}
           /\ UNCHANGED <<deployed, modification, workflow, last>>
      ELSE /\ UNCHANGED misled
           /\ IF RollsBack THEN EndModification(RolledBack(modification), FALSE)
              ELSE End(FALSE) /\ UNCHANGED <<deployed, modification>>

\* The graph ends, and agents go on with the operations it had sent, but for
\* those that are over.
OthersGoOn(over) ==
    stray' = stray \cup {[of |-> j, task |-> Head(plan[j]), left |-> failures] :
                            j \in {k \in Instances : InFlight(k)} \ over}

TaskFailsGraph(i, effect) ==
    /\ failures < MaxFailures
    /\ ~Ignored(i) /\ ~HasRetry(i) /\ InFlight(i)
    /\ failures' = failures + 1
    /\ Failed(i, effect)
    /\ OthersGoOn({i})
    /\ GraphFails
    /\ abandoned' = abandoned \cap inforce'
    /\ Recorded({})
    /\ UNCHANGED <<state, workflows>>

\* A request to cancel ends each execute() of the workflow, also one that
\* would scale back in, but not the call that rolls a modification back.
Cancel ==
    /\ ~Idle
    /\ failures < MaxFailures
    /\ failures' = failures + 1
    /\ OthersGoOn({})
    /\ misled' = IF RollsBack /\ workflow.kind = "scale_out"
                   THEN misled \cup workflow.on ELSE misled
    /\ IF RollsBack THEN EndModification(RolledBack(modification), FALSE)
       ELSE End(FALSE) /\ UNCHANGED <<deployed, modification>>
    /\ UNCHANGED <<state, inforce, workflows, abandoned, unrecorded,
                   lateMade, lateUndone>>

\* The process dies, and the execution is not resumed.
Crash ==
    /\ ~Idle
    /\ failures < MaxFailures
    /\ failures' = failures + 1
    /\ OthersGoOn({})
    /\ End(FALSE)
    /\ UNCHANGED <<state, inforce, deployed, modification, workflows, history,
                   lateMade, lateUndone>>

\* A later workflow would undo what the stray s makes: the state that it will
\* read says no otherwise.
Foreseen(s) ==
    /\ Idle /\ Removes(s.of, s.task) = {}
    /\ \A f \in Adds(s.of, s.task) :
          /\ f[1] \in deployed /\ f[2] \notin Instances \ deployed
          /\ state[f[1]] \notin NotThere
          /\ f[2] = "start" => state[f[1]] \notin NotStarted

\* An agent ends an operation that nobody awaits any more.
StrayLands(s) ==
    LET adds == Adds(s.of, s.task)
        removes == Removes(s.of, s.task)
    IN  /\ stray' = stray \ {s}
        /\ IF Foreseen(s)
             THEN /\ inforce' = inforce \cup adds
                  /\ unrecorded' = unrecorded \ (adds \ inforce)
                  /\ Settle(adds)
             ELSE /\ lateMade' = (lateMade \ removes) \cup (adds \ inforce)
                  /\ lateUndone' = (lateUndone \ adds) \cup (removes \cap inforce)
                  /\ UNCHANGED <<inforce, unrecorded>>
        /\ UNCHANGED <<state, deployed, modification, running, last, workflows,
                       failures, abandoned, misled>>

-----------------------------------------------------------------------------
\* The workflows.
Begin(w) == /\ Idle
            /\ workflows < MaxWorkflows
            /\ workflows' = workflows + 1
            /\ workflow' = w
            /\ UNCHANGED <<state, inforce, last, failures, abandoned, misled, late>>

Workflow(kind, on, ignore, option) ==
    [kind |-> kind, on |-> on, ignore |-> ignore, option |-> option]

BeginInstall ==
    /\ Begin(Workflow("install", deployed, FALSE, FALSE))
    /\ Build("first", Graph("install", deployed, FALSE), state, deployed)
    /\ UNCHANGED <<deployed, modification, unrecorded>>

BeginUninstall(ignore) ==
    /\ Begin(Workflow("uninstall", deployed, ignore, FALSE))
    /\ Build("first", Graph("uninstall", deployed, ignore), state, deployed)
    /\ UNCHANGED <<deployed, modification, unrecorded>>

BeginHeal(S, ignore) ==
    /\ S \subseteq deployed
    /\ Begin(Workflow("heal", S, ignore, FALSE))
    /\ Build("first", Graph("uninstall", S, ignore), state, deployed)
    /\ UNCHANGED <<deployed, modification, unrecorded>>

\* option: full_rollback
BeginRollback(full) ==
    LET unresolved == {i \in deployed : state[i] \in Unresolved} IN
    /\ Begin(Workflow("rollback", unresolved, TRUE, full))
    /\ Build("first", Graph("rollback", unresolved, TRUE), state, deployed)
    /\ UNCHANGED <<deployed, modification, unrecorded>>

\* option: rollback_if_failed. The manager starts one modification at a time,
\* and the instances it adds are new ones.
BeginScaleOut(S, ignore, option) ==
    /\ modification = NoModification
    /\ S \cap deployed = {}
    /\ \A i \in S : /\ state[i] = "uninitialized"
                     /\ {i} \X Made \cap (inforce \cup lateMade) = {}
    /\ \A s \in stray : s.of \notin S /\ s.task.what \notin S
    /\ Begin(Workflow("scale_out", S, ignore, option))
    /\ modification' = [kind |-> "scale_out", on |-> S]
    /\ deployed' = deployed \cup S
    /\ Build("first", Graph("install", S, FALSE), state, deployed')
    /\ unrecorded' = unrecorded \cup
         {l \in deployed \X S : /\ state[l[1]] = "started"
                               /\ l[2] \in ToSet(Targets[l[1]])}

BeginScaleIn(S, ignore, option) ==
    /\ modification = NoModification
    /\ S \subseteq deployed
    /\ state # [i \in Instances |-> "unset"]
    /\ Begin(Workflow("scale_in", S, ignore, option))
    /\ modification' = [kind |-> "scale_in", on |-> S]
    /\ Build("first", Graph("uninstall", S, ignore), state, deployed)
    /\ UNCHANGED <<deployed, unrecorded>>

\* _abort_started_deployment_modifications; the scaling that asked for it is a
\* workflow of its own here.
BeginAbort(ignore) ==
    /\ modification # NoModification
    /\ Begin(Workflow("abort", modification.on, ignore, FALSE))
    /\ Build("first",
             Graph("uninstall",
                   IF modification.kind = "scale_out" THEN modification.on
                                                      ELSE {},
                   ignore), state, deployed)
    /\ UNCHANGED <<deployed, modification, unrecorded>>

\* The second graph of heal (after refresh_node_instances), of a full rollback.
SecondGraph ==
    /\ Build("second",
             IF workflow.kind = "heal"
               THEN Graph("install", workflow.on, FALSE)
               ELSE Graph("uninstall", deployed, FALSE), state, deployed)
    /\ UNCHANGED <<deployed, modification, workflow, last>>

HasSecond == \/ workflow.kind = "heal"
             \/ workflow.kind = "rollback" /\ workflow.option

\* execute() returns.
GraphEnds ==
    /\ ~Idle /\ plan = NoPlan
    /\ IF phase = "first" /\ HasSecond THEN SecondGraph
       ELSE CASE \/ workflow.kind = "scale_in"
                 \/ workflow.kind = "scale_out" /\ phase = "first" ->
                   EndModification(Finished(modification), TRUE)
              [] workflow.kind = "scale_out" /\ phase = "second" ->
                   EndModification(RolledBack(modification), FALSE)
              [] workflow.kind = "abort" ->
                   EndModification(RolledBack(modification), TRUE)
              [] OTHER -> End(TRUE) /\ UNCHANGED <<deployed, modification>>
    /\ UNCHANGED <<state, inforce, workflows, failures, history, late>>

Task(i) == \/ TaskSucceeds(i)
           \/ \E effect \in BOOLEAN : \/ TaskIsIgnored(i, effect)
                                      \/ SubgraphRetried(i, effect)
                                      \/ TaskFailsGraph(i, effect)

Next == \/ BeginInstall
        \/ \E ignore \in Hints :
              \/ BeginUninstall(ignore)
              \/ \E S \in Subgraphs : BeginHeal(S, ignore)
              \/ \E S \in Scaled, option \in BOOLEAN :
                    \/ BeginScaleOut(S, ignore, option)
                    \/ BeginScaleIn(S, ignore, option)
              \/ BeginAbort(ignore)
        \/ \E full \in BOOLEAN : BeginRollback(full)
        \/ \E i \in Instances : Task(i)
        \/ GraphEnds
        \/ Cancel
        \/ Crash
        \/ \E s \in stray : StrayLands(s)

Spec == Init /\ [][Next]_vars

-----------------------------------------------------------------------------
TypeOK ==
    /\ state \in [Instances -> States] /\ seen \in [Instances -> States]
    /\ inforce \cup lateMade \subseteq Instances \X (Made \cup Instances)
    /\ lateMade \cap inforce = {} /\ lateUndone \subseteq inforce
    /\ deployed \subseteq Instances
    /\ phase \in {"idle", "first", "second"}
    /\ Idle => plan = NoPlan /\ workflow = NoWorkflow
    /\ \A i \in Instances : tries[i] <= SubgraphRetries

Ended(kinds) == Idle /\ last.done /\ last.workflow.kind \in kinds

\* An install, heal or scaling that ends well has brought about everything it
\* says, whatever half-done state it began with: each operation and each
\* relationship, those of instances that were left intact included. (Not for
\* an instance rebuilt by a state it no longer had, not for a link that a stub
\* of an earlier heal or scaling unlinked and nobody established since, and not
\* for what a stray undid of it.)
InstalledIsWhole ==
    Ended({"install", "heal", "scale_out"}) =>
        /\ \A i \in last.workflow.on \ misled :
              /\ state[i] = "started"
              /\ {i} \X Real[i] \subseteq Present \cup lateUndone
              /\ {i} \X ToSet(Rels(i)) \subseteq Present \cup lateUndone \cup unrecorded
        /\ \A j \in deployed, i \in last.workflow.on :
              (j \notin last.workflow.on /\ i \in ToSet(Rels(j)))
                 => <<j, i>> \in Present \cup lateUndone

Excused(fact) == \/ fact \in abandoned \cup unrecorded
                 \/ fact[1] \in misled \/ fact[2] \in misled

\* Nothing is left behind, though an uninstall skips what the state says is done.
\* One that ends well, or a full rollback, leaves nothing in force but what it
\* was told to ignore and what a state that denies it was written over; and an
\* instance leaves the deployment only after what it had was undone, with no
\* relationship to it left. That holds of strays too: what they make while no
\* workflow runs and the state does not deny it is undone. What they make during
\* a later workflow, or once the state denies it, stays until an operation of a
\* graph changes it. (A scaling that fails or is cancelled and scales back in
\* decides by the state from before its install.)
NothingIsLeftBehind ==
    \A fact \in Present :
        (\/ fact[1] \notin deployed \/ fact[2] \in Instances \ deployed
         \/ Ended({"uninstall", "rollback"})
            /\ (last.workflow.kind = "rollback" => last.workflow.option))
            => Excused(fact) \/ fact \in lateMade

\* An operation of an install comes about on top of whole targets, and an
\* instance is uninstalled only when no relationship to it is in force any more.
\* (rollback keeps the links of an instance that was starting, and a reinstall
\* those of others, which heal may have put on a target that is not there. When
\* a stray lands, and what it did, is not up to the order of any graph.)
TargetsComeFirst ==
    [][stray \subseteq stray' =>
       /\ \A fact \in Present' \ Present :
             \A t \in ToSet(Rels(fact[1])) \ misled :
                (t \in graph.on \/ state[t] = "started")
                    => {t} \X Real[t] \subseteq Present \cup lateUndone
       /\ \A i, j \in Instances :
             (/\ <<i, "create">> \in Present \ Present'
              /\ <<j, i>> \in Present
              /\ graph.kind = "uninstall")
                => Excused(<<j, i>>) \/ <<j, i>> \in lateMade]_vars
=============================================================================
