-------------------------- MODULE DependencyGraph --------------------------
(***************************************************************************)
(* The data of cloudify.workflows.tasks_graph.TaskDependencyGraph and the  *)
(* effect of each of its primitive methods on it, as operators on a record *)
(*                                                                         *)
(*    tasks          _tasks, the tasks currently in the graph              *)
(*    dependencies   _dependencies, dependencies[t] is what t waits for    *)
(*    dependents     _dependents, the same relation read backwards         *)
(*    ready          _ready, the tasks the main loop may pop and run       *)
(*                                                                         *)
(* The two defaultdicts are total functions whose default is the empty     *)
(* set.  A method the code calls in a loop over a set of tasks or of edges *)
(* takes the whole set here: every such loop is confluent, so the operator *)
(* is its net effect.                                                      *)
(***************************************************************************)
CONSTANT Task       \* the task objects, which the code compares by id

(* An empty graph, as __init__ leaves it. *)
EmptyGraph ==
    [tasks        |-> {},
     dependencies |-> [t \in Task |-> {}],
     dependents   |-> [t \in Task |-> {}],
     ready        |-> {}]

GraphType ==
    [tasks        : SUBSET Task,
     dependencies : [Task -> SUBSET Task],
     dependents   : [Task -> SUBSET Task],
     ready        : SUBSET Task]

(* add_task(t) for every t in T: a task enters the graph ready, whatever  *)
(* edges are added afterwards.                                             *)
AddTasks(g, T) ==
    [g EXCEPT !.tasks = @ \cup T,
              !.ready = @ \cup T]

(* Mutant: add_dependency that forgets to take the source out of _ready.   *)
AddDependenciesStayReady(g, E) ==
    [tasks        |-> g.tasks,
     dependencies |-> [t \in Task |->
         g.dependencies[t] \cup {d \in Task \ {t} : <<t, d>> \in E}],
     dependents   |-> [t \in Task |->
         g.dependents[t] \cup {s \in Task \ {t} : <<s, t>> \in E}],
     ready        |-> g.ready]

(* add_dependency(src, dst) for every <<src, dst>> in E; an edge of a task *)
(* to itself is ignored.  The code raises when an end is not in the graph. *)
AddDependencies(g, E) ==
    [tasks        |-> g.tasks,
     dependencies |-> [t \in Task |->
         g.dependencies[t] \cup {d \in Task \ {t} : <<t, d>> \in E}],
     dependents   |-> [t \in Task |->
         g.dependents[t] \cup {s \in Task \ {t} : <<s, t>> \in E}],
     ready        |-> g.ready \ {s \in Task : \E d \in Task \ {s} : <<s, d>> \in E}]

(* Mutant: remove_dependency that forgets to make a free source ready.     *)
ReleaseFromStaysWaiting(g, dst, S) ==
    [g EXCEPT !.dependencies = [t \in Task |->
                  IF t \in S THEN @[t] \ {dst} ELSE @[t]],
              !.dependents[dst] = @ \ S]

(* remove_dependency(s, dst) for every s in S.  A source with nothing left *)
(* to wait for becomes ready, whether or not it depended on dst before.    *)
ReleaseFrom(g, dst, S) ==
    [tasks        |-> g.tasks,
     dependencies |-> [t \in Task |->
         IF t \in S THEN g.dependencies[t] \ {dst} ELSE g.dependencies[t]],
     dependents   |-> [g.dependents EXCEPT ![dst] = @ \ S],
     ready        |-> g.ready \cup {s \in S : g.dependencies[s] \subseteq {dst}}]

(* Mutants of remove_task: one leaves the removed task in _dependents, one *)
(* leaves it in _ready.                                                    *)
RemoveTasksOneSided(g, R) ==
    LET gone   == R \cap g.tasks
        cut(t) == {x \in gone : t \in g.dependents[x]}
    IN  [g EXCEPT !.tasks = @ \ gone,
                  !.dependencies = [t \in Task |->
                      IF t \in gone THEN {} ELSE @[t] \ cut(t)],
                  !.ready = (@ \cup {t \in Task : /\ cut(t) # {}
                                                /\ g.dependencies[t] \subseteq cut(t)})
                            \ gone]

RemoveTasksStayReady(g, R) ==
    LET gone   == R \cap g.tasks
        cut(t) == {x \in gone : t \in g.dependents[x]}
    IN  [tasks        |-> g.tasks \ gone,
         dependencies |-> [t \in Task |->
             IF t \in gone THEN {} ELSE g.dependencies[t] \ gone],
         dependents   |-> [t \in Task |->
             IF t \in gone THEN {} ELSE g.dependents[t] \ gone],
         ready        |-> g.ready \cup {t \in Task : /\ cut(t) # {}
                                                   /\ g.dependencies[t] \subseteq cut(t)}]

(* remove_task(t) for every t in R that is in the graph (a task that is    *)
(* not is skipped).  The edges to cut are found on the other side's dict,  *)
(* and a task whose last dependencies go becomes ready.  The recursion     *)
(* into the tasks of a subgraph is the caller's: it passes the subgraph    *)
(* with everything under it.                                               *)
RemoveTasks(g, R) ==
    LET gone   == R \cap g.tasks
        cut(t) == {x \in gone : t \in g.dependents[x]}
    IN  [tasks        |-> g.tasks \ gone,
         dependencies |-> [t \in Task |->
             IF t \in gone THEN {} ELSE g.dependencies[t] \ cut(t)],
         dependents   |-> [t \in Task |->
             IF t \in gone THEN {}
             ELSE g.dependents[t] \ {x \in gone : t \in g.dependencies[x]}],
         ready        |-> (g.ready \cup {t \in Task : /\ cut(t) # {}
                                                     /\ g.dependencies[t] \subseteq cut(t)})
                          \ gone]

(* Mutant: the new task waits as the old one did, but nothing waits for it. *)
TakeOverHalf(g, old, new) ==
    AddDependencies(AddTasks(g, {new}), {new} \X g.dependencies[old])

(* The retry arm of _handle_terminated_task: the new task takes over every *)
(* edge of the old one, which is still in the graph.                       *)
TakeOver(g, old, new) ==
    AddDependencies(AddTasks(g, {new}),
                    ({new} \X g.dependencies[old])
                    \cup (g.dependents[old] \X {new}))

-----------------------------------------------------------------------------
(* The two dicts are mirror images of each other. *)
Mirrored(g) ==
    \A t \in Task : /\ \A d \in g.dependencies[t] : t \in g.dependents[d]
                   /\ \A s \in g.dependents[t] : t \in g.dependencies[s]

(* Every edge joins two different tasks of the graph. *)
EdgesInside(g) ==
    \A t \in Task : \A d \in g.dependencies[t] :
        t \in g.tasks /\ d \in g.tasks /\ t # d

(* A ready task is in the graph and waits for nothing. *)
ReadyIsFree(g) ==
    \A t \in g.ready : t \in g.tasks /\ g.dependencies[t] = {}

WellFormed(g) == Mirrored(g) /\ EdgesInside(g) /\ ReadyIsFree(g)

(* The tasks of the graph that wait for nothing. *)
Free(g) == {t \in g.tasks : g.dependencies[t] = {}}
=============================================================================
