--------------------------- MODULE GraphBuilding ---------------------------
(***************************************************************************)
(* What the author of a workflow does with a TaskDependencyGraph before it *)
(* is executed: add_task, add_dependency, remove_dependency, remove_task,  *)
(* and TaskSequence.add with single tasks and forkjoins; and linearize,    *)
(* which lists the tasks in dependency order.                              *)
(***************************************************************************)
EXTENDS Naturals, FiniteSets, Sequences, DependencyGraph

CONSTANTS
    Sequence,   \* the TaskSequences of the author
    MaxAdds     \* bound: calls of TaskSequence.add on one sequence

ASSUME BuildingAssumption == IsFiniteSet(Task) /\ MaxAdds \in Nat

VARIABLES
    draft,
    last,       \* last_fork_join_tasks of each sequence, {} for None
    batches,    \* history: what each call of add put into a sequence
    orderly     \* history: every task was added once, nothing was removed

authorVars == <<draft, last, batches, orderly>>

AuthorTypeOK ==
    /\ draft \in GraphType
    /\ last \in [Sequence -> SUBSET Task]
    /\ batches \in [Sequence -> Seq(SUBSET Task)]
    /\ orderly \in BOOLEAN

AuthorInit ==
    /\ draft = EmptyGraph
    /\ last = [q \in Sequence |-> {}]
    /\ batches = [q \in Sequence |-> <<>>]
    /\ orderly = TRUE

-----------------------------------------------------------------------------
(* graph.add_task with a new task *)
AddTask(t) ==
    /\ t \notin draft.tasks
    /\ draft' = AddTasks(draft, {t})
    /\ UNCHANGED <<last, batches, orderly>>

(* graph.add_task with a task that is already in the graph: nothing in the *)
(* code looks whether it is.                                               *)
AddTaskAgain(t) ==
    /\ t \in draft.tasks
    /\ draft' = AddTasks(draft, {t})
    /\ orderly' = FALSE
    /\ UNCHANGED <<last, batches>>

(* It raises if one of the two is not in the graph. *)
AddDependency(src, dst) ==
    /\ src \in draft.tasks
    /\ dst \in draft.tasks
    /\ draft' = AddDependencies(draft, {<<src, dst>>})
    /\ UNCHANGED <<last, batches, orderly>>

RemoveDependency(src, dst) ==
    /\ src \in draft.tasks
    /\ dst \in draft.tasks
    /\ draft' = ReleaseFrom(draft, dst, {src})
    /\ orderly' = FALSE
    /\ UNCHANGED <<last, batches>>

RemoveTask(t) ==
    /\ draft' = RemoveTasks(draft, {t})
    /\ orderly' = FALSE
    /\ UNCHANGED <<last, batches>>

(* Mutant: an empty forkjoin ends the sequence. *)
SequenceAddResets(q, F) ==
    /\ Len(batches[q]) < MaxAdds
    /\ F \cap draft.tasks = {}
    /\ last[q] \subseteq draft.tasks
    /\ draft' = AddDependencies(AddTasks(draft, F), F \X last[q])
    /\ last' = [last EXCEPT ![q] = F]
    /\ batches' = [batches EXCEPT ![q] = Append(@, F)]
    /\ orderly' = orderly

(* TaskSequence.add(task) for F = {task}, of a forkjoin of F otherwise; an *)
(* empty forkjoin leaves the end of the sequence where it was.  A task     *)
(* that was removed from the graph may still be the end of a sequence, and *)
(* then add_dependency raises.                                             *)
SequenceAdd(q, F) ==
    /\ Len(batches[q]) < MaxAdds
    /\ F \cap draft.tasks = {}
    /\ last[q] \subseteq draft.tasks
    /\ draft' = AddDependencies(AddTasks(draft, F), F \X last[q])
    /\ last' = [last EXCEPT ![q] = IF F = {} THEN @ ELSE F]
    /\ batches' = [batches EXCEPT ![q] = Append(@, F)]
    /\ orderly' = orderly

-----------------------------------------------------------------------------
(* linearize, round by round of its outer loop: the dependencies that are  *)
(* left in its copy, and the tasks it is about to list.  A task is listed  *)
(* when a listed task was the last it waited for; the order in a round is  *)
(* that of a dict and means nothing.                                       *)
Rounds == 0..Cardinality(Task)

Linearize(g) ==
    LET round[n \in Rounds] ==
          IF n = 0
          THEN [left |-> g.dependencies, ready |-> Free(g)]
          ELSE LET before == round[n - 1]
                   freed(t) == {d \in before.ready : t \in g.dependents[d]}
                   left == [t \in Task |-> before.left[t] \ freed(t)]
               IN  [left  |-> left,
                    ready |-> {t \in Task : freed(t) # {} /\ left[t] = {}}]
    IN  [n \in Rounds |-> round[n].ready]

-----------------------------------------------------------------------------
AuthorNext ==
    \/ \E t \in Task : AddTask(t) \/ AddTaskAgain(t) \/ RemoveTask(t)
    \/ \E s, d \in Task : AddDependency(s, d) \/ RemoveDependency(s, d)
    \/ \E q \in Sequence, F \in SUBSET Task : SequenceAdd(q, F)

AuthorSpec == AuthorInit /\ [][AuthorNext]_authorVars

-----------------------------------------------------------------------------
(* A task with nothing to wait for is ready after any sequence of calls,   *)
(* so the first pass of execute will not leave it out.                     *)
NothingStranded == Free(draft) \subseteq draft.ready

(* For authors who add each task once, ready is exactly the tasks with     *)
(* nothing to wait for, in whatever order tasks, edges and sequences come. *)
ReadyIsExact == orderly => draft.ready = Free(draft)

(* The sets of tasks that hold whatever one of their tasks depends on. *)
ClosedSets(g) == {S \in SUBSET Task : \A t \in S : g.dependencies[t] \subseteq S}

(* What a task waits for, directly or through others. *)
WaitsFor(g) ==
    [t \in Task |-> {d \in Task : \A S \in ClosedSets(g) :
                                   g.dependencies[t] \subseteq S => d \in S}]

(* The orders an author relies on.  A task of a sequence waits, directly   *)
(* or through others, for all that were added to it by earlier calls, past *)
(* any empty forkjoin: TaskSequence.add's docstring.  And linearize lists  *)
(* every task once, after all it depends on, except those that are on a    *)
(* cycle or wait for one, which it leaves out: "if task A depends on task  *)
(* B, then A is going to be after B in the resulting list".                *)
OrdersAreKept ==
    LET rounds == Linearize(draft)
        waits  == WaitsFor(draft)
        listed == UNION {rounds[n] : n \in Rounds}
    IN  /\ orderly => \A q \in Sequence : \A i, j \in DOMAIN batches[q] :
              i < j => \A s \in batches[q][j], d \in batches[q][i] : d \in waits[s]
        /\ listed = {t \in draft.tasks :
                         \A u \in Task : u = t \/ u \in waits[t] => u \notin waits[u]}
        /\ \A m, n \in Rounds : \A t \in rounds[m], d \in rounds[n] :
               /\ t = d => m = n
               /\ d \in waits[t] => n < m
=============================================================================
