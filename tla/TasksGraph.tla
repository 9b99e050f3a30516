----------------------------- MODULE TasksGraph -----------------------------
(***************************************************************************)
(* TaskDependencyGraph.execute and everything it drives: the main loop of  *)
(* a workflow, the tasks it sends, the threads that deliver their results, *)
(* the timers of delayed retries, the subgraph tasks and their on_failure  *)
(* handlers, and cancellation.                                             *)
(*                                                                         *)
(* A workflow author builds the graph from operations.  An operation is    *)
(* run by one task after another: try counts its retries (current_retries) *)
(* and gen counts how many times the subgraph around it was rebuilt by     *)
(* lifecycle._SubgraphOnFailure.  A new task object with a new id is made  *)
(* each time, so a task is the record [op, gen, try].  A result that is    *)
(* handled twice makes two retries; those of an operation at top level are *)
(* told apart by gen too, which counts such doublings there.               *)
(***************************************************************************)
EXTENDS Integers, FiniteSets, DependencyGraph

CONSTANTS
    Op,           \* the operations and subgraphs of the workflow
    Subgraph,     \* those that are SubgraphTasks
    Nop,          \* those that are NOPLocalWorkflowTasks
    NoOp,         \* the parent of an operation that is in no subgraph
    Parent,       \* containing_subgraph
    Needs,        \* <<a, b>>: the author made a depend on b
    Handler,      \* the on_failure / on_success handler of each operation
    TotalRetries, \* total_retries of each operation, -1 for no limit
    Outcome,      \* the results each operation may have, and its send too
    Hasty,        \* bound: operations whose answer may overtake on_result
    MaxGen,       \* bound: rebuilds of a subgraph
    MaxTry        \* bound: retries of an operation

INFINITE_TOTAL_RETRIES == -1

(* "none": no handler.  "poll": on_success = _node_get_state_handler.      *)
(* "ignore": _ignore_task_failure, _SendNodeEventHandler, or on a subgraph *)
(* _ignore_subgraph_failure.  "fail": _on_failure_handler_fail.  "rebuild":*)
(* _SubgraphOnFailure.  "propagate": _relationship_subgraph_on_failure.    *)
OpHandler       == {"none", "poll", "ignore"}
SubgraphHandler == {"fail", "rebuild", "propagate", "ignore"}

(* "value": the operation returned.  "falsy": it returned a false value.   *)
(* The others are the exception that came back.                            *)
Failure == {"OperationRetry", "RecoverableError", "NonRecoverableError"}
Result == {"not_set", "value", "falsy"} \cup Failure

ASSUME TaskAssumption ==
    Task = [op : Op, gen : 0..MaxGen, try : 0..MaxTry]

ASSUME BoundAssumption == MaxGen \in Nat /\ MaxTry \in Nat

ASSUME WorkflowAssumption ==
    /\ NoOp \notin Op
    /\ Subgraph \subseteq Op
    /\ Nop \subseteq Op \ Subgraph
    /\ Parent \in [Op -> Subgraph \cup {NoOp}]
    /\ Needs \subseteq Op \X Op
    /\ TotalRetries \in [Op -> Nat \cup {INFINITE_TOTAL_RETRIES}]
    /\ Handler \in [Op -> OpHandler \cup SubgraphHandler]
    /\ \A o \in Subgraph : Handler[o] \in SubgraphHandler
    /\ \A o \in Op \ Subgraph : Handler[o] \in OpHandler
    /\ \A o \in Op : Handler[o] = "propagate" => Parent[o] # NoOp
    /\ Outcome \in [Op -> SUBSET (Result \ {"not_set"})]
    /\ Hasty \subseteq Op \ (Subgraph \cup Nop)

(* Subgraphs nest two deep: an instance's, and a relationship's in it.     *)
(* That is what a workflow begins with.  A reinstall (lifecycle.py:741)    *)
(* has an uninstall and an install in it, and so is one deeper; see        *)
(* HandleRebuild.                                                          *)
ASSUME NestingAssumption ==
    \A s \in Subgraph : Parent[s] # NoOp =>
        Parent[s] # s /\ Parent[Parent[s]] = NoOp

VARIABLES
    graph,          \* _tasks, _dependencies, _dependents, _ready
    waiting_for,    \* _waiting_for: applied, response not handled yet
    finished_tasks, \* _finished_tasks: result delivered, never handled yet
    error,          \* _error
    pc,             \* where the main loop is
    state,          \* _state of each task
    result,         \* async_result.result of each operation's task
    subtasks,       \* .tasks of each subgraph task
    failed_task,    \* the subgraph tasks whose .failed_task is set
    redelivery,     \* results _task_finished is called with a second time
    timers,         \* tasks whose with_execute_after timer is pending
    cancel_request, \* workflow_api.cancel_request
    deadline_passed \* wait_after_fail seconds have passed since _error_time

vars == <<graph, waiting_for, finished_tasks, error, pc, state, result,
          subtasks, failed_task, redelivery, timers, cancel_request, deadline_passed>>

TERMINATED_STATES == {"succeeded", "failed", "rescheduled"}
State  == {"pending", "sending", "sent", "started"} \cup TERMINATED_STATES

TypeOK ==
    /\ graph \in GraphType
    /\ waiting_for \subseteq Task
    /\ finished_tasks \subseteq Task
    /\ error \in {"none", "failed", "cancelled", "crashed"}
    /\ pc \in {"check", "run", "handle", "returned"}
    /\ state \in [Task -> State]
    /\ result \in [Task -> Result]
    /\ subtasks \in [Task -> SUBSET Task]
    /\ failed_task \subseteq Task
    /\ redelivery \in [due : SUBSET Task, again : SUBSET Task, handled : SUBSET Task]
    /\ timers \subseteq Task
    /\ cancel_request \in BOOLEAN
    /\ deadline_passed \in BOOLEAN

-----------------------------------------------------------------------------
(* The shape of the workflow *)

FirstTask(o, g) == [op |-> o, gen |-> g, try |-> 0]
IsSubgraph(t)   == t.op \in Subgraph
Contained(t)    == Parent[t.op] # NoOp
Container(t)    == FirstTask(Parent[t.op], t.gen)

(* The operations in subgraph s, at either depth, and s itself. *)
Inside(s) == {o \in Op : \/ o = s
                         \/ Parent[o] = s
                         \/ Parent[o] \in Subgraph /\ Parent[Parent[o]] = s}

(* The tasks and edges an author's code makes for the operations in O: one *)
(* task each, the dependencies among them, and SubgraphTask.add_task's     *)
(* edge from every task to the subgraph it is in.                          *)
TasksFor(O, g) == {FirstTask(o, g) : o \in O}

EdgesFor(O, g) ==
    {<<FirstTask(e[1], g), FirstTask(e[2], g)>> : e \in Needs \cap (O \X O)}
    \cup {<<FirstTask(o, g), FirstTask(Parent[o], g)>> :
              o \in {o \in O : Parent[o] \in O}}
Build(gr, O, g) == AddDependencies(AddTasks(gr, TasksFor(O, g)), EdgesFor(O, g))
Members(s) == {o \in Op : Parent[o] = s}

Init ==
    /\ graph = Build(EmptyGraph, Op, 0)
    /\ waiting_for = {}
    /\ finished_tasks = {}
    /\ error = "none"
    /\ pc = "check"
    /\ state = [t \in Task |-> "pending"]
    /\ result = [t \in Task |-> "not_set"]
    /\ subtasks = [t \in Task |-> IF IsSubgraph(t) /\ t.try = 0
                                  THEN TasksFor(Members(t.op), t.gen) ELSE {}]
    /\ failed_task = {}
    /\ redelivery = [due |-> {}, again |-> {}, handled |-> {}]
    /\ timers = {}
    /\ cancel_request = FALSE
    /\ deadline_passed = FALSE

-----------------------------------------------------------------------------
(* The main loop *)

(* _is_finished.  The comparison with the deadline is the code's: inside   *)
(* the wait_after_fail window it returns, after the window it goes on.     *)
IsFinished == \/ graph.tasks = {}
              \/ error # "none" /\ waiting_for = {}
              \/ error # "none" /\ ~deadline_passed

(* Mutant: cancellation is looked at only when nothing is in flight. *)
CheckWhenQuiet ==
    /\ pc = "check"
    /\ \/ /\ cancel_request /\ waiting_for = {}
          /\ error' = "cancelled"
          /\ pc' = "returned"
       \/ /\ ~cancel_request \/ waiting_for # {}
          /\ pc' = IF IsFinished THEN "returned" ELSE "run"
          /\ error' = error
    /\ UNCHANGED <<graph, waiting_for, finished_tasks, state, result, subtasks,
                   failed_task, timers, cancel_request, deadline_passed,
                   redelivery>>

Check ==
    /\ pc = "check"
    /\ \/ /\ cancel_request
          /\ error' = "cancelled"
          /\ pc' = "returned"
       \/ /\ ~cancel_request
          /\ pc' = IF IsFinished THEN "returned" ELSE "run"
          /\ error' = error
    /\ UNCHANGED <<graph, waiting_for, finished_tasks, state, result, subtasks,
                   failed_task, timers, cancel_request, deadline_passed,
                   redelivery>>

(* Bound: an outcome that would be answered by a retry beyond MaxTry is    *)
(* not produced, unless the code denies that retry anyway.                 *)
WithinBound(t, r) ==
    \/ t.try < MaxTry
    \/ r \in {"value", "NonRecoverableError"}
    \/ r = "falsy" /\ Handler[t.op] # "poll"
    \/ r \in Failure /\ TotalRetries[t.op] \in 0..t.try

(* The state that _task_callback and local_task_wrapper set for a result. *)
StateFor(r) == IF r = "OperationRetry" THEN "rescheduled"
               ELSE IF r \in Failure THEN "failed"
               ELSE "succeeded"

(* What apply_async of an operation's task does to it, called by the main  *)
(* loop or by the timer of with_execute_after.  (A process that dies in it *)
(* may leave the task "sending": ResumeGraph.)                             *)
Settle(t, s, r) ==
    /\ state' = [state EXCEPT ![t] = s]
    /\ result' = [result EXCEPT ![t] = r]
    /\ finished_tasks' = finished_tasks \cup {t}

Send(t) ==
    \/ /\ t.op \notin Nop
       /\ state' = [state EXCEPT ![t] = "sent"]
       /\ UNCHANGED <<result, finished_tasks>>
    \/ /\ t.op \notin Nop            \* send_task or wait_for_result raised
       /\ \E e \in Outcome[t.op] \cap {"RecoverableError", "NonRecoverableError"} :
              /\ WithinBound(t, e)
              /\ Settle(t, "failed", e)
    \/ /\ t.op \in Nop
       /\ Settle(t, "succeeded", "value")

(* _run_task on an operation's task.  Only a retry has execute_after set,  *)
(* and by the time it is popped the delay may be over.                     *)
RunOperation(t) ==
    /\ pc = "run"
    /\ error = "none"
    /\ t \in graph.ready
    /\ ~IsSubgraph(t)
    /\ graph' = [graph EXCEPT !.ready = @ \ {t}]
    /\ waiting_for' = waiting_for \cup {t}
    /\ \/ /\ cancel_request
          /\ UNCHANGED <<state, result, finished_tasks, timers>>
       \/ /\ ~cancel_request
          /\ t.try > 0
          /\ timers' = timers \cup {t}
          /\ UNCHANGED <<state, result, finished_tasks>>
       \/ /\ ~cancel_request
          /\ Send(t)
          /\ UNCHANGED timers
    /\ UNCHANGED <<error, pc, subtasks, failed_task, cancel_request, deadline_passed,
                   redelivery>>

(* _run_task on a subgraph: its tasks stop waiting for it. *)
RunSubgraph(s) ==
    /\ pc = "run"
    /\ error = "none"
    /\ s \in graph.ready
    /\ IsSubgraph(s)
    /\ waiting_for' = waiting_for \cup {s}
    /\ LET popped == [graph EXCEPT !.ready = @ \ {s}]
       IN  graph' = ReleaseFrom(popped, s, subtasks[s])
    /\ \/ /\ subtasks[s] = {}
          /\ state' = [state EXCEPT ![s] = "succeeded"]
          /\ finished_tasks' = finished_tasks \cup {s}
       \/ /\ subtasks[s] # {}
          /\ state' = [state EXCEPT ![s] = "started"]
          /\ finished_tasks' = finished_tasks
    /\ UNCHANGED <<error, pc, result, subtasks, failed_task, timers,
                   cancel_request, deadline_passed,
                   redelivery>>

(* Nothing is left to run; _tasks_wait.wait(1) ends by itself. *)
RunDone ==
    /\ pc = "run"
    /\ graph.ready = {} \/ error # "none"
    /\ pc' = "handle"
    /\ UNCHANGED <<graph, waiting_for, finished_tasks, error, state, result,
                   subtasks, failed_task, timers, cancel_request, deadline_passed,
                   redelivery>>

HandleDone ==
    /\ pc = "handle"
    /\ finished_tasks = {} /\ redelivery.again = {}
    /\ pc' = "check"
    /\ UNCHANGED <<graph, waiting_for, finished_tasks, error, state, result,
                   subtasks, failed_task, timers, cancel_request, deadline_passed,
                   redelivery>>

(***************************************************************************)
(* _handle_terminated_task, with the task's handle_task_terminated         *)
(***************************************************************************)

NotSucceeded(t) == state[t] \in {"failed", "rescheduled"}

(* _node_get_state_handler asks for a retry that no limit denies. *)
PollsAgain(t) == /\ state[t] = "succeeded"
                 /\ Handler[t.op] = "poll"
                 /\ result[t] = "falsy"

(* An explicit OperationRetry overrides the handler of the operation. *)
AsksForRetry(t) ==
    /\ NotSucceeded(t)
    /\ \/ result[t] = "OperationRetry"
       \/ result[t] = "RecoverableError" /\ Handler[t.op] # "ignore"

(* Mutant: one retry too many. *)
WithinRetriesInclusive(t, current_retries) ==
    \/ TotalRetries[t.op] = INFINITE_TOTAL_RETRIES
    \/ current_retries <= TotalRetries[t.op]

WithinRetries(t, current_retries) ==
    \/ TotalRetries[t.op] = INFINITE_TOTAL_RETRIES
    \/ current_retries < TotalRetries[t.op]

Retries(t) == \/ PollsAgain(t)
              \/ AsksForRetry(t) /\ WithinRetries(t, t.try)

(* Mutant: a retry that the limit denies is taken for a good end. *)
OperationFailsAtOnce(t) ==
    /\ NotSucceeded(t)
    /\ result[t] = "NonRecoverableError"
    /\ Handler[t.op] # "ignore"

OperationFails(t) ==
    \/ AsksForRetry(t) /\ ~WithinRetries(t, t.try)
    \/ /\ NotSucceeded(t)
       /\ result[t] = "NonRecoverableError"
       /\ Handler[t.op] # "ignore"

(* The two on_failure handlers of a subgraph that act on another task.     *)
Rebuilds(s)   == Handler[s.op] = "rebuild" /\ ~Contained(s)
Propagates(s) == Handler[s.op] \in {"rebuild", "propagate"} /\ Contained(s)
SubgraphFails(s) == state[s] = "failed" /\ Handler[s.op] = "fail"

Fails(t) == IF IsSubgraph(t) THEN SubgraphFails(t) ELSE OperationFails(t)

(* Neither fails nor retries: it succeeded, or its failure is ignored. *)
Ends(t) ==
    IF IsSubgraph(t)
    THEN state[t] = "succeeded" \/ Handler[t.op] = "ignore"
    ELSE ~Retries(t) /\ ~OperationFails(t)

(* duplicate_for_retry *)
Duplicate(t) == [t EXCEPT !.try = @ + 1]

(* A task and every task below it in .tasks, as remove_task recurses. *)
Under(t) == {t} \cup subtasks[t] \cup UNION {subtasks[u] : u \in subtasks[t]}

(* Mutant: the container forgets the retry. *)
TellContainerNoRetry(t, fails, retried) ==
    IF ~Contained(t)
    THEN /\ finished_tasks' = finished_tasks \ {t}
         /\ UNCHANGED <<state, subtasks, failed_task>>
    ELSE LET s    == Container(t)
             left == subtasks[s] \ {t}
             ends == IF state[s] \in TERMINATED_STATES THEN state[s]
                     ELSE IF fails \/ s \in failed_task THEN "failed"
                     ELSE IF left = {} THEN "succeeded"
                     ELSE state[s]
         IN  /\ subtasks' = [subtasks EXCEPT ![s] = left]
             /\ failed_task' = failed_task \cup (IF fails THEN {s} ELSE {})
             /\ state' = [state EXCEPT ![s] = ends]
             /\ finished_tasks' = (finished_tasks \ {t})
                                   \cup (IF ends # state[s] THEN {s} ELSE {})

(* The end of handle_task_terminated: the containing subgraph forgets t,   *)
(* takes its retry, and may terminate, which delivers its own result.      *)
TellContainer(t, fails, retried) ==
    IF ~Contained(t)
    THEN /\ finished_tasks' = finished_tasks \ {t}
         /\ UNCHANGED <<state, subtasks, failed_task>>
    ELSE LET s    == Container(t)
             left == (subtasks[s] \ {t}) \cup retried
             ends == IF state[s] \in TERMINATED_STATES THEN state[s]
                     ELSE IF fails \/ s \in failed_task THEN "failed"
                     ELSE IF left = {} THEN "succeeded"
                     ELSE state[s]
         IN  /\ subtasks' = [subtasks EXCEPT ![s] = left]
             /\ failed_task' = failed_task \cup (IF fails THEN {s} ELSE {})
             /\ state' = [state EXCEPT ![s] = ends]
             /\ finished_tasks' = (finished_tasks \ {t})
                                   \cup (IF ends # state[s] THEN {s} ELSE {})

Popped(t) ==
    /\ pc = "handle"
    /\ t \in finished_tasks
    /\ waiting_for' = waiting_for \ {t}

FailOnce == IF error = "none" THEN "failed" ELSE error

HandleEnd(t) ==
    /\ Popped(t)
    /\ Ends(t)
    /\ TellContainer(t, FALSE, {})
    /\ graph' = RemoveTasks(graph, Under(t))
    /\ UNCHANGED <<error, pc, result, timers, cancel_request, deadline_passed,
                   redelivery>>

(* In a subgraph the failure becomes the subgraph's; at top level it is    *)
(* the error of the execution, if it is the first.                         *)
HandleFail(t) ==
    /\ Popped(t)
    /\ Fails(t)
    /\ TellContainer(t, TRUE, {})
    /\ error' = IF Contained(t) THEN error ELSE FailOnce
    /\ graph' = RemoveTasks(graph, Under(t))
    /\ UNCHANGED <<pc, result, timers, cancel_request, deadline_passed,
                   redelivery>>

(* Mutant: the old task stays in the graph beside its retry. *)
HandleRetryKeepsOld(t) ==
    /\ Popped(t)
    /\ ~IsSubgraph(t)
    /\ Retries(t)
    /\ t.try < MaxTry
    /\ TellContainer(t, FALSE, {Duplicate(t)})
    /\ graph' = TakeOver(graph, t, Duplicate(t))
    /\ UNCHANGED <<error, pc, result, timers, cancel_request, deadline_passed,
                   redelivery>>

HandleRetry(t) ==
    /\ Popped(t)
    /\ ~IsSubgraph(t)
    /\ Retries(t)
    /\ t.try < MaxTry
    /\ TellContainer(t, FALSE, {Duplicate(t)})
    /\ graph' = RemoveTasks(TakeOver(graph, t, Duplicate(t)), {t})
    /\ UNCHANGED <<error, pc, result, timers, cancel_request, deadline_passed,
                   redelivery>>

(* _SubgraphOnFailure on an instance's subgraph.  The tasks left in it are *)
(* removed and a new subgraph is built in the graph, before the number of  *)
(* retries is looked at; when they are used up the new one stays there.    *)
(* The new one is a copy of the one that failed here, as it is after a     *)
(* failed uninstall; after an install it has an uninstall before that.     *)
HandleRebuild(s) ==
    /\ Popped(s)
    /\ IsSubgraph(s)
    /\ Rebuilds(s)
    /\ state[s] = "failed"
    /\ s.gen < MaxGen
    /\ LET new   == FirstTask(s.op, s.gen + 1)
           built == Build(RemoveTasks(graph, Under(s) \ {s}), Inside(s.op), s.gen + 1)
       IN  \/ /\ WithinRetries(s, s.gen)
              /\ graph' = RemoveTasks(TakeOver(built, s, new), Under(s))
              /\ error' = error
           \/ /\ ~WithinRetries(s, s.gen)
              /\ graph' = RemoveTasks(built, Under(s))
              /\ error' = FailOnce
    /\ finished_tasks' = finished_tasks \ {s}
    /\ UNCHANGED <<pc, state, result, subtasks, failed_task, timers,
                   cancel_request, deadline_passed,
                   redelivery>>

(* A contained subgraph fails: its handler makes the container fail.  The  *)
(* container's set_state delivers its result even if it has terminated     *)
(* before, and then the setter raises out of execute().                    *)
HandlePropagate(s) ==
    /\ Popped(s)
    /\ IsSubgraph(s)
    /\ Propagates(s)
    /\ state[s] = "failed"
    /\ failed_task' = failed_task \cup {Container(s)}
    /\ \/ /\ state[Container(s)] \notin TERMINATED_STATES
          /\ state' = [state EXCEPT ![Container(s)] = "failed"]
          /\ finished_tasks' = (finished_tasks \ {s}) \cup {Container(s)}
          /\ subtasks' = [subtasks EXCEPT ![Container(s)] = @ \ {s}]
          /\ graph' = RemoveTasks(graph, Under(s))
          /\ UNCHANGED <<error, pc>>
       \/ /\ state[Container(s)] \in TERMINATED_STATES
          /\ graph' = RemoveTasks(graph, Under(s) \ {s})
          /\ error' = "crashed"
          /\ pc' = "returned"
          /\ finished_tasks' = finished_tasks \ {s}
          /\ UNCHANGED <<state, subtasks>>
    /\ UNCHANGED <<result, timers, cancel_request, deadline_passed,
                   redelivery>>

-----------------------------------------------------------------------------
(* A result that is delivered twice.  on_result appends _task_finished to  *)
(* the callbacks of a result and then looks at the result; the setter      *)
(* stores the result and then calls the callbacks.  When an answer comes   *)
(* between the two, each calls _task_finished (TaskResult).                *)

(* Bound: one setter at a time is behind, in a subgraph only that of a     *)
(* task of the first build, and at top level as many as gen can count.     *)
MayDouble(t) ==
    /\ t.op \in Hasty
    /\ redelivery.due = {}
    /\ IF Contained(t) THEN t.gen = 0
       ELSE t.gen < MaxGen /\ \A u \in redelivery.again \cup redelivery.handled :
                                 u.op = t.op => u.gen # t.gen

(* _run_task, with an answer that is there before on_result looks: the     *)
(* main loop calls _task_finished, and the setter's thread is yet to.      *)
AnswerAtOnce(t) ==
    /\ pc = "run"
    /\ error = "none"
    /\ ~cancel_request
    /\ t \in graph.ready
    /\ MayDouble(t)
    /\ graph' = [graph EXCEPT !.ready = @ \ {t}]
    /\ waiting_for' = waiting_for \cup {t}
    /\ \E r \in Outcome[t.op] :
          /\ WithinBound(t, r)
          /\ Settle(t, StateFor(r), r)
    /\ redelivery' = [redelivery EXCEPT !.due = @ \cup {t}]
    /\ UNCHANGED <<error, pc, subtasks, failed_task, timers, cancel_request,
                   deadline_passed>>

(* The setter's loop over the callbacks comes to _task_finished, which     *)
(* changes nothing if the main loop has not handled the task yet.          *)
CallBackAgain(t) ==
    /\ pc # "returned"
    /\ t \in redelivery.due
    /\ redelivery' = [redelivery EXCEPT !.due = @ \ {t},
                                        !.again = @ \cup ({t} \ finished_tasks)]
    /\ UNCHANGED <<graph, waiting_for, finished_tasks, error, pc, state, result,
                   subtasks, failed_task, timers, cancel_request, deadline_passed>>

(* Another line of retries of an operation at top level. *)
SecondRetry(t) == [op |-> t.op, gen |-> t.gen + 1, try |-> t.try + 1]

(* _handle_terminated_task of a task it has handled before, which is in    *)
(* the graph no longer.  The subgraph it was in has forgotten it, and      *)
(* `del self.tasks[task.id]` raises out of execute(); at top level it      *)
(* comes to the same result again, and a second retry depends on nothing.  *)
HandleAgain(t) ==
    /\ pc = "handle"
    /\ t \in redelivery.again
    /\ redelivery' = [redelivery EXCEPT !.again = @ \ {t}, !.handled = @ \cup {t}]
    /\ \/ /\ Contained(t)
          /\ error' = "crashed"
          /\ pc' = "returned"
          /\ graph' = graph
       \/ /\ ~Contained(t)
          /\ ~Retries(t)
          /\ error' = IF Fails(t) THEN FailOnce ELSE error
          /\ UNCHANGED <<graph, pc>>
       \/ /\ ~Contained(t)
          /\ ~IsSubgraph(t)
          /\ Retries(t)
          /\ t.gen < MaxGen /\ t.try < MaxTry
          /\ graph' = AddTasks(graph, {SecondRetry(t)})
          /\ UNCHANGED <<error, pc>>
    /\ UNCHANGED <<waiting_for, finished_tasks, state, result, subtasks, failed_task,
                   timers, cancel_request, deadline_passed>>

-----------------------------------------------------------------------------
(* The other threads.  The model ends when execute() returns: what arrives *)
(* after that is read by nobody.                                           *)

(* The response of a sent operation: the AMQP consumer's or the local task *)
(* thread's set_state and async_result.result, and the _task_finished      *)
(* callback they run.                                                      *)
Finish(t) ==
    /\ pc # "returned"
    /\ state[t] = "sent"
    /\ t \in waiting_for
    /\ \E r \in Outcome[t.op] :
          /\ WithinBound(t, r)
          /\ Settle(t, StateFor(r), r)
    /\ UNCHANGED <<graph, waiting_for, error, pc, subtasks, failed_task, timers,
                   cancel_request, deadline_passed,
                   redelivery>>

(* The threading.Timer of with_execute_after calls apply_async again. *)
TimerFires(t) ==
    /\ pc # "returned"
    /\ t \in timers
    /\ timers' = timers \ {t}
    /\ \/ cancel_request /\ UNCHANGED <<state, result, finished_tasks>>
       \/ ~cancel_request /\ Send(t)
    /\ UNCHANGED <<graph, waiting_for, error, pc, subtasks, failed_task,
                   cancel_request, deadline_passed,
                   redelivery>>

(* workflow_api.set_cancel_request, from the thread that reads the parent's *)
(* messages in dispatch.                                                   *)
Cancel ==
    /\ pc # "returned"
    /\ ~cancel_request
    /\ cancel_request' = TRUE
    /\ UNCHANGED <<graph, waiting_for, finished_tasks, error, pc, state, result,
                   subtasks, failed_task, timers, deadline_passed,
                   redelivery>>

DeadlinePasses ==
    /\ pc # "returned"
    /\ error = "failed"
    /\ ~deadline_passed
    /\ deadline_passed' = TRUE
    /\ UNCHANGED <<graph, waiting_for, finished_tasks, error, pc, state, result,
                   subtasks, failed_task, timers, cancel_request, redelivery>>

-----------------------------------------------------------------------------
Run(t)    == RunOperation(t) \/ RunSubgraph(t)
Handle(t) == \/ HandleEnd(t) \/ HandleFail(t) \/ HandleRetry(t)
             \/ HandleRebuild(t) \/ HandlePropagate(t)

MainLoop == \/ Check \/ RunDone \/ HandleDone
            \/ \E t \in graph.ready : Run(t) \/ AnswerAtOnce(t)
            \/ \E t \in finished_tasks : Handle(t)
            \/ \E t \in redelivery.again : HandleAgain(t)

Due == \/ \E t \in waiting_for : Finish(t)
       \/ \E t \in timers : TimerFires(t)
       \/ \E t \in redelivery.due : CallBackAgain(t)

Next == \/ MainLoop
        \/ Due
        \/ Cancel
        \/ DeadlinePasses

Spec == Init /\ [][Next]_vars

(* The main loop never blocks for more than a second.  While anything is   *)
(* due from agents or timers one of them comes at last, and the clock goes *)
(* on; since no task answers twice, or calls back thrice, that is enough   *)
(* for all of them.                                                        *)
MainLoopFairness == WF_vars(MainLoop)
WorldFairness == /\ WF_vars(Due)
                 /\ WF_vars(DeadlinePasses)

FairSpec == Spec /\ MainLoopFairness /\ WorldFairness

(* Agents may never answer and the clock may stand still. *)
MainLoopSpec == Spec /\ MainLoopFairness
=============================================================================
