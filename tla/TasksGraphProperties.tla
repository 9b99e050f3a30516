------------------------ MODULE TasksGraphProperties ------------------------
(***************************************************************************)
(* What TaskDependencyGraph.execute must do.                               *)
(***************************************************************************)
EXTENDS TasksGraph

(* The subgraph at top level that an operation is rebuilt with. *)
Root(o) == IF Parent[o] = NoOp THEN o
           ELSE IF Parent[Parent[o]] = NoOp THEN Parent[o] ELSE Parent[Parent[o]]

(* A task that has been handled and whose outcome lets others go on: it    *)
(* succeeded, or it failed and its handler ignores that.                   *)
Settled(t) ==
    /\ t \notin graph.tasks
    /\ t \notin waiting_for
    /\ \/ state[t] = "succeeded" /\ ~PollsAgain(t)
       \/ state[t] = "failed" /\ Handler[t.op] = "ignore" /\ result[t] # "OperationRetry"

SettledIn(o, gens) == \E t \in Task : t.op = o /\ t.gen \in gens /\ Settled(t)

(* The generations in which an operation may satisfy what t waits for: the *)
(* same build of their common subgraph, or any build of another one.       *)
Builds(t, o) == IF Root(o) = Root(t.op) THEN {t.gen} ELSE 0..MaxGen

Applied(t) == t \in waiting_for' \ waiting_for

-----------------------------------------------------------------------------
(* Safety of the graph *)

(* The two dicts of edges agree through retries, rebuilds and removals     *)
(* (add_dependency, remove_dependency, remove_task): they mirror each      *)
(* other, and every edge joins two different tasks of the graph.           *)
EdgesConsistent == Mirrored(graph) /\ EdgesInside(graph)

(* What is ready is just what can run, although remove_dependency,         *)
(* remove_task and the retry arm add to _ready with no look at             *)
(* _waiting_for: a task that waits for nothing is ready or was applied,    *)
(* unless set_state raised in the middle of a handler, so the loop of      *)
(* execute cannot spin with work nobody will run; and what is ready waits  *)
(* for nothing and was never applied before.                               *)
ReadyIsWhatCanRun ==
    /\ error # "crashed" => Free(graph) \subseteq graph.ready \cup waiting_for
    /\ ReadyIsFree(graph)
    /\ graph.ready \cap (waiting_for \cup timers) = {}
    /\ \A t \in graph.ready : state[t] = "pending"

(* At most one attempt of an operation is in the graph or in flight in a   *)
(* build of its subgraph, however retries, timers and late answers mix.    *)
(* At top level there are two only if a result was delivered twice and     *)
(* handled twice: a failure then makes two retries, side by side.          *)
OneAttemptAtATime ==
    \A t, u \in graph.tasks \cup waiting_for : t.op = u.op /\ t # u =>
        /\ t.gen # u.gen
        /\ Root(t.op) \notin Subgraph => \A g \in 0..MaxGen : g < t.gen \/ g < u.gen =>
              \E v \in redelivery.handled : v.op = t.op /\ v.gen = g

(* The books of subgraphs agree with the graph through retries, rebuilds   *)
(* and late answers.  `del self.tasks[task.id]` of task_terminated raises  *)
(* only for a result that is delivered a second time after its task was    *)
(* handled: any other task that will be handled is listed by what contains *)
(* it.  And remove_dependency never raises 'src not in graph': when a      *)
(* subgraph is about to run, all in it is in the graph.                    *)
SubgraphsKnowTheirTasks ==
    /\ \A t \in finished_tasks \cup waiting_for \cup graph.ready :
          Contained(t) => t \in subtasks[Container(t)] /\ t \notin redelivery.again
    /\ \A s \in graph.ready : IsSubgraph(s) => subtasks[s] \subseteq graph.tasks

(* No operation is attempted more often than total_retries allows, and no  *)
(* subgraph is started in a build beyond it, although the new build is put *)
(* into the graph before the limit is looked at.                           *)
RetriesBounded ==
    \A t \in waiting_for :
        TotalRetries[t.op] # INFINITE_TOTAL_RETRIES =>
            /\ Rebuilds(t) => t.gen <= TotalRetries[t.op]
            /\ ~IsSubgraph(t) /\ Handler[t.op] # "poll" => t.try <= TotalRetries[t.op]

(* A good end is one of all that it speaks of.  A subgraph reports success *)
(* only when everything in it has come to a good end.  execute() returns   *)
(* without an error only when everything at top level has, and nothing it  *)
(* sent is in flight, but for what was sent in a subgraph that failed,     *)
(* whose answers nobody waits for: the subgraph was rebuilt since, or its  *)
(* failure was ignored.                                                    *)
GoodEndsAreWhole ==
    /\ \A s \in Task : IsSubgraph(s) /\ state[s] = "succeeded" =>
           \A o \in Members(s.op) : SettledIn(o, {s.gen})
    /\ pc = "returned" /\ error = "none" =>
           /\ \A o \in Op : Parent[o] = NoOp => SettledIn(o, 0..MaxGen)
           /\ \A t \in waiting_for \cup timers :
                 /\ Contained(t)
                 /\ "failed" \in {state[Container(t)],
                                  state[FirstTask(Root(t.op), t.gen)]}

(* Every dependency is between two of one subgraph, or two at top level.   *)
(* The lifecycle makes no others, but for an author who names the          *)
(* operation to depend on (_handle_dependency_creation); an edge into      *)
(* another subgraph is set loose when that one fails and is taken out.     *)
SiblingNeeds == \A e \in Needs : Parent[e[1]] = Parent[e[2]] /\ e[1] # e[2]

(* Order: a task is applied only after everything the author made it       *)
(* depend on has come to a good end - one that failed sets nothing loose   *)
(* even though remove_task marks its dependents ready - and, the first     *)
(* attempt, only while the subgraph it is in runs: not before that starts, *)
(* nor after it failed.                                                    *)
StartsInOrder ==
    [][\A t \in Task : Applied(t) =>
         /\ \A e \in Needs : e[1] = t.op => SettledIn(e[2], Builds(t, e[2]))
         /\ Contained(t) /\ t.try = 0 => state[Container(t)] = "started"]_vars

-----------------------------------------------------------------------------
(* Liveness *)

(* The one thing that can keep execute() from returning: a subgraph that   *)
(* was started and then taken out of the graph with the rest of a failed   *)
(* subgraph.  Nothing of it will run, so it never terminates and stays in  *)
(* _waiting_for.                                                           *)
Orphaned == \E s \in waiting_for \ graph.tasks : IsSubgraph(s)

(* A cancel request ends execute() even if no agent ever answers again.    *)
(* Without one, and whatever fails, is retried or rebuilt, execute()       *)
(* returns, or waits for an orphan, if agents answer and timers fire.      *)
ExecuteEnds ==
    /\ cancel_request ~> pc = "returned"
    /\ WorldFairness => <>(pc = "returned") \/ <>[]Orphaned
=============================================================================
