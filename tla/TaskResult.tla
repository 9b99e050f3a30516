----------------------------- MODULE TaskResult -----------------------------
(***************************************************************************)
(* How the result of a task reaches the main loop: tasks.WorkflowTaskResult*)
(* between the thread that receives the response and the thread that runs  *)
(* TaskDependencyGraph.execute, statement by statement.                    *)
(*                                                                         *)
(* The main loop applies a task, which starts a thread that will set the   *)
(* result, and then registers a callback with on_result.  on_result        *)
(* appends the callback and then looks at the result; the result's setter  *)
(* stores the result and then calls the callbacks.  Nothing locks.         *)
(*                                                                         *)
(* TasksGraph takes the delivery of a result as one step, or as two where  *)
(* both the setter and on_result come to deliver it (AnswerAtOnce and      *)
(* CallBackAgain there); this module opens that step, and shows the two.   *)
(***************************************************************************)
EXTENDS Naturals, FiniteSets

CONSTANTS
    Task,          \* independent operations, all of which fail recoverably
    TotalRetries   \* total_retries of each of them

ASSUME TaskResultAssumption ==
    IsFiniteSet(Task) /\ Task # {} /\ TotalRetries \in Nat

VARIABLES
    pc,             \* the statement the main loop is at
    current,        \* the task _run_task works on
    tasks,          \* _tasks
    ready,          \* _ready
    finished_tasks, \* _finished_tasks
    tasks_wait,     \* the _tasks_wait event
    callbacks,      \* callbacks[t]: the length of _callbacks
    result,         \* result[t]: whether _result is set
    thread,         \* thread[t]: where the thread delivering t's result is
    called,         \* called[t]: how far it is in its loop over _callbacks
    retried         \* retried[t]: how many retries were made for t

vars == <<pc, current, tasks, ready, finished_tasks, tasks_wait, callbacks,
          result, thread, called, retried>>

TypeOK ==
    /\ pc \in {"check", "clear", "run", "append", "test", "call", "wait",
               "handle", "returned"}
    /\ current \in Task
    /\ tasks \subseteq Task
    /\ ready \subseteq Task
    /\ finished_tasks \subseteq Task
    /\ tasks_wait \in BOOLEAN
    /\ callbacks \in [Task -> 0..1]
    /\ result \in [Task -> BOOLEAN]
    /\ thread \in [Task -> {"none", "working", "loop", "wake", "done"}]
    /\ called \in [Task -> 0..1]
    /\ retried \in [Task -> Nat]

Init ==
    /\ pc = "check"
    /\ current \in Task
    /\ tasks = Task
    /\ ready = Task
    /\ finished_tasks = {}
    /\ tasks_wait = FALSE
    /\ callbacks = [t \in Task |-> 0]
    /\ result = [t \in Task |-> FALSE]
    /\ thread = [t \in Task |-> "none"]
    /\ called = [t \in Task |-> 0]
    /\ retried = [t \in Task |-> 0]

results == <<callbacks, result, thread, called>>

-----------------------------------------------------------------------------
(* The main loop *)

Check ==
    /\ pc = "check"
    /\ pc' = IF tasks = {} THEN "returned" ELSE "clear"
    /\ UNCHANGED <<current, tasks, ready, finished_tasks, tasks_wait, results, retried>>

Clear ==
    /\ pc = "clear"
    /\ tasks_wait' = FALSE
    /\ pc' = "run"
    /\ UNCHANGED <<current, tasks, ready, finished_tasks, results, retried>>

(* _run_task: apply_async, which hands the task to another thread. *)
Apply(t) ==
    /\ pc = "run"
    /\ t \in ready
    /\ ready' = ready \ {t}
    /\ current' = t
    /\ thread' = [thread EXCEPT ![t] = "working"]
    /\ pc' = "append"
    /\ UNCHANGED <<tasks, finished_tasks, tasks_wait, callbacks, result, called, retried>>

(* on_result: self._callbacks.append((f, a, kw)) *)
Append ==
    /\ pc = "append"
    /\ callbacks' = [callbacks EXCEPT ![current] = @ + 1]
    /\ pc' = "test"
    /\ UNCHANGED <<current, tasks, ready, finished_tasks, tasks_wait, result,
                   thread, called, retried>>

(* Mutant: on_result never looks at the result. *)
TestResultNever ==
    /\ pc = "test"
    /\ pc' = "run"
    /\ UNCHANGED <<current, tasks, ready, finished_tasks, tasks_wait, results, retried>>

(* on_result: if self._result is not self._NOT_SET *)
TestResult ==
    /\ pc = "test"
    /\ pc' = IF result[current] THEN "call" ELSE "run"
    /\ UNCHANGED <<current, tasks, ready, finished_tasks, tasks_wait, results, retried>>

(* on_result calls _task_finished itself. *)
CallBack ==
    /\ pc = "call"
    /\ finished_tasks' = finished_tasks \cup {current}
    /\ tasks_wait' = TRUE
    /\ pc' = "run"
    /\ UNCHANGED <<current, tasks, ready, results, retried>>

AllApplied ==
    /\ pc = "run"
    /\ ready = {}
    /\ pc' = "wait"
    /\ UNCHANGED <<current, tasks, ready, finished_tasks, tasks_wait, results, retried>>

(* self._tasks_wait.wait(1) returns because the event is set, or because a *)
(* second has passed.                                                      *)
Woken ==
    /\ pc = "wait"
    /\ tasks_wait
    /\ pc' = "handle"
    /\ UNCHANGED <<current, tasks, ready, finished_tasks, tasks_wait, results, retried>>

TimesOut ==
    /\ pc = "wait"
    /\ ~tasks_wait
    /\ pc' = "handle"
    /\ UNCHANGED <<current, tasks, ready, finished_tasks, tasks_wait, results, retried>>

(* _handle_terminated_task of a recoverable failure: a retry if the limit  *)
(* allows one; what becomes of the retry is not followed here.             *)
Handle(t) ==
    /\ pc = "handle"
    /\ t \in finished_tasks
    /\ finished_tasks' = finished_tasks \ {t}
    /\ retried' = [retried EXCEPT ![t] = IF TotalRetries > 0 THEN @ + 1 ELSE @]
    /\ tasks' = tasks \ {t}
    /\ tasks_wait' = TRUE
    /\ UNCHANGED <<pc, current, ready, results>>

AllHandled ==
    /\ pc = "handle"
    /\ finished_tasks = {}
    /\ pc' = "check"
    /\ UNCHANGED <<current, tasks, ready, finished_tasks, tasks_wait, results, retried>>

MainLoop == \/ Check \/ Clear \/ Append \/ TestResult \/ CallBack
            \/ AllApplied \/ Woken \/ TimesOut \/ AllHandled
            \/ \E t \in Task : Apply(t) \/ Handle(t)

-----------------------------------------------------------------------------
(* The thread that delivers the result of t *)

(* The setter: self._result = result *)
SetResult(t) ==
    /\ thread[t] = "working"
    /\ result' = [result EXCEPT ![t] = TRUE]
    /\ thread' = [thread EXCEPT ![t] = "loop"]
    /\ UNCHANGED <<pc, current, tasks, ready, finished_tasks, tasks_wait,
                   callbacks, called, retried>>

(* The setter's loop sees callbacks appended while it runs; the callback   *)
(* is _task_finished: first the dict, then the event.                      *)
CallNext(t) ==
    /\ thread[t] = "loop"
    /\ called[t] < callbacks[t]
    /\ finished_tasks' = finished_tasks \cup {t}
    /\ thread' = [thread EXCEPT ![t] = "wake"]
    /\ UNCHANGED <<pc, current, tasks, ready, tasks_wait, callbacks, result,
                   called, retried>>

Wake(t) ==
    /\ thread[t] = "wake"
    /\ tasks_wait' = TRUE
    /\ called' = [called EXCEPT ![t] = @ + 1]
    /\ thread' = [thread EXCEPT ![t] = "loop"]
    /\ UNCHANGED <<pc, current, tasks, ready, finished_tasks, callbacks, result, retried>>

AllCalled(t) ==
    /\ thread[t] = "loop"
    /\ called[t] >= callbacks[t]
    /\ thread' = [thread EXCEPT ![t] = "done"]
    /\ UNCHANGED <<pc, current, tasks, ready, finished_tasks, tasks_wait,
                   callbacks, result, called, retried>>

Deliver(t) == SetResult(t) \/ CallNext(t) \/ Wake(t) \/ AllCalled(t)

Next == MainLoop \/ \E t \in Task : Deliver(t)

(* Every thread runs, and an operation answers at last. *)
Spec == /\ Init
        /\ [][Next]_vars
        /\ WF_vars(MainLoop)
        /\ \A t \in Task : WF_vars(Deliver(t))

-----------------------------------------------------------------------------
(* No result is lost: whichever of the two threads is ahead, a result that *)
(* was set is handled, although neither the list of callbacks nor the      *)
(* event is locked and the event may be cleared after it was set.  It may  *)
(* be handled by both, and retried for each, but no more than that.        *)
ResultIsHandled ==
    \A t \in Task : /\ result[t] ~> t \notin tasks
                    /\ [](retried[t] <= 2 * TotalRetries)
=============================================================================
