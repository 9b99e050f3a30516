------------------------- MODULE ExecutionLifecycle -------------------------
(***************************************************************************)
(* cloudify.dispatch.WorkflowHandler._handle_remote_workflow: one thread,  *)
(* the child, runs the workflow's function; another, the parent, polls its *)
(* messages and the execution's status at the manager, passes requests to  *)
(* cancel on through cloudify.workflows.workflow_api, and writes how the   *)
(* execution ended.                                                        *)
(*                                                                         *)
(* The child is what workflows are made of: code of their author, graphs   *)
(* that are executed, and results that are waited for, each of which       *)
(* registers an event to be set when a cancel request comes.               *)
(***************************************************************************)
EXTENDS Integers, Sequences, FiniteSets

CONSTANTS
    MaxGet,    \* bound: calls of WorkflowTaskResult.get in one process
    MaxError,  \* bound: calls to the manager, or clean-ups, that raise
    MaxLife    \* bound: processes that run the execution

ASSUME LifecycleAssumption == MaxGet \in Nat /\ MaxError \in Nat /\ MaxLife \in Nat \ {0}

VARIABLES
    restoring,      \* this is the workflow restore_snapshot
    status,         \* at the manager
    asked,          \* history: the strongest cancellation asked for
    life,           \* number of the process
    parent,         \* where the parent is
    seen,           \* execution.status as the parent last got it
    cancel_request, \* workflow_api.cancel_request
    kill_request,   \* workflow_api.kill_request
    callbacks,      \* workflow_api.cancel_callbacks, by the event each sets
    iterated,       \* the callbacks there were when the parent began to call them
    visited,        \* those it has called
    events,         \* the events of get() that are set
    child,          \* where the child is
    executing,      \* TaskDependencyGraph.execute is on its stack
    gets,           \* calls of get(); the last one may be in progress
    answered,       \* those whose task's result is set
    result_queue,   \* from child to parent
    errors,         \* calls that raised
    broken          \* history: what made the parent give up by itself

vars == <<restoring, status, asked, life, parent, seen, cancel_request, kill_request, callbacks,
          iterated, visited, events, child, executing, gets, answered,
          result_queue, errors, broken>>

manager   == <<restoring, status, asked, life>>
requests  == <<cancel_request, kill_request>>
iteration == <<iterated, visited>>
workflow  == <<child, executing, gets>>

Cancelling == {"cancelling", "force_cancelling", "kill_cancelling"}
END_STATES == {"terminated", "failed", "cancelled"}
Status     == {"pending", "started"} \cup Cancelling \cup END_STATES
ChildEnded == {"returned", "cancelled", "raised"}

ParentState == {"starting", "polling", "asking", "notifying", "succeeding",
                "cancelling", "failing", "done"}
ChildState  == {"none", "running", "deaf", "looping", "leaving", "leaving_cancelled",
                "leaving_failed", "getting", "got", "settling", "unwinding_cancelled",
                "unwinding_failed", "killed"} \cup ChildEnded

(* The event of TaskDependencyGraph.execute, and those of get(). *)
GraphEvent == 0
Callback   == 0..MaxGet

TypeOK ==
    /\ restoring \in BOOLEAN
    /\ status \in Status
    /\ asked \in {"no"} \cup Cancelling
    /\ life \in 1..MaxLife
    /\ parent \in ParentState
    /\ seen \in Status
    /\ cancel_request \in BOOLEAN
    /\ kill_request \in BOOLEAN
    /\ callbacks \subseteq Callback
    /\ iterated \subseteq Callback
    /\ visited \subseteq Callback
    /\ events \subseteq 1..MaxGet
    /\ child \in ChildState
    /\ executing \in BOOLEAN
    /\ gets \in 0..MaxGet
    /\ answered \subseteq 1..MaxGet
    /\ result_queue \in {<<>>, <<"result">>, <<"cancelled">>, <<"error">>}
    /\ errors \in 0..MaxError
    /\ broken \in {"no", "function", "error", "iteration"}

Init ==
    /\ restoring \in BOOLEAN
    /\ status = "pending"
    /\ asked = "no"
    /\ life = 1
    /\ errors = 0
    /\ parent = "starting"
    /\ seen = "pending"
    /\ cancel_request = FALSE
    /\ kill_request = FALSE
    /\ callbacks = {}
    /\ iterated = {}
    /\ visited = {}
    /\ events = {}
    /\ child = "none"
    /\ executing = FALSE
    /\ gets = 0
    /\ answered = {}
    /\ result_queue = <<>>
    /\ broken = "no"

-----------------------------------------------------------------------------
(* The user, the manager and the machine, outside this code                *)

Severity(s) == CASE s = "cancelling" -> 1 [] s = "force_cancelling" -> 2
                 [] s = "kill_cancelling" -> 3 [] OTHER -> 0

RequestCancel(s) ==
    /\ status \notin END_STATES
    /\ Severity(s) > Severity(status)
    /\ status' = s
    /\ asked' = s
    /\ UNCHANGED <<restoring, life, parent, seen, requests, callbacks, iteration,
                   events, workflow, answered, result_queue, errors, broken>>

(* The process dies, or gave up with no status written, and the execution  *)
(* is dispatched again.                                                    *)
Crash ==
    /\ life < MaxLife
    /\ status \notin END_STATES
    /\ life' = life + 1
    /\ parent' = "starting"
    /\ seen' = "pending"
    /\ cancel_request' = FALSE
    /\ kill_request' = FALSE
    /\ callbacks' = {}
    /\ iterated' = {}
    /\ visited' = {}
    /\ events' = {}
    /\ child' = "none"
    /\ executing' = FALSE
    /\ gets' = 0
    /\ answered' = {}
    /\ result_queue' = <<>>
    /\ broken' = "no"
    /\ UNCHANGED <<restoring, status, asked, errors>>

-----------------------------------------------------------------------------
(* The child                                                               *)

Child(pc) == child' = pc

(* What get() returns to. *)
Back == IF executing THEN "looping" ELSE "running"

(* TaskDependencyGraph.execute registers its event and loops; it looks for *)
(* a cancel request before anything else in each turn, at least once a     *)
(* second.                                                                 *)
BeginExecute ==
    /\ child = "running"
    /\ Child("looping")
    /\ callbacks' = callbacks \cup {GraphEvent}
    /\ executing' = TRUE
    /\ UNCHANGED <<manager, parent, seen, requests, iteration, events, gets,
                   answered, result_queue, errors, broken>>

IsFinished ==
    /\ child = "looping"
    /\ Child(IF cancel_request THEN "leaving_cancelled" ELSE "leaving")
    /\ UNCHANGED <<manager, parent, seen, requests, callbacks, iteration, events,
                   executing, gets, answered, result_queue, errors, broken>>

TaskFails ==
    /\ child = "looping"
    /\ ~cancel_request
    /\ Child("leaving_failed")
    /\ UNCHANGED <<manager, parent, seen, requests, callbacks, iteration, events,
                   executing, gets, answered, result_queue, errors, broken>>

LeaveExecute ==
    /\ \/ child = "leaving" /\ Child("running")
       \/ child = "leaving_cancelled" /\ Child("unwinding_cancelled")
       \/ child = "leaving_failed" /\ Child("unwinding_failed")
    /\ callbacks' = callbacks \ {GraphEvent}
    /\ executing' = FALSE
    /\ UNCHANGED <<manager, parent, seen, requests, iteration, events, gets,
                   answered, result_queue, errors, broken>>

(* WorkflowTaskResult.get, of the author's or of an on_success handler: it *)
(* registers its event, and waits for it without a timeout.                *)
BeginGet ==
    /\ child \in {"running", "looping"}
    /\ gets < MaxGet
    /\ gets' = gets + 1
    /\ Child("getting")
    /\ callbacks' = callbacks \cup {gets'}
    /\ UNCHANGED <<manager, parent, seen, requests, iteration, events, executing,
                   answered, result_queue, errors, broken>>

Respond ==
    /\ child \in {"getting", "got", "settling"}
    /\ gets \notin answered
    /\ answered' = answered \cup {gets}
    /\ events' = events \cup {gets}
    /\ UNCHANGED <<manager, parent, seen, requests, callbacks, iteration,
                   workflow, result_queue, errors, broken>>

GetWakes ==
    /\ child = "getting"
    /\ gets \in events
    /\ Child("got")
    /\ callbacks' = callbacks \ {gets}
    /\ UNCHANGED <<manager, parent, seen, requests, iteration, events, executing,
                   gets, answered, result_queue, errors, broken>>

(* Cancelled, unless there is a result after all.  A failed task that is   *)
(* not retried raises out of get().                                        *)
GetLooks ==
    /\ child = "got"
    /\ \/ cancel_request /\ gets \notin answered /\ Child("settling")
       \/ gets \in answered /\ Child(Back)
       \/ gets \in answered /\ Child("unwinding_failed")
    /\ UNCHANGED <<manager, parent, seen, requests, callbacks, iteration, events,
                   executing, gets, answered, result_queue, errors, broken>>

(* The result is set to ExecutionCancelled, which raises 'Result already   *)
(* set' if the response came since get() looked.                           *)
GetSettles ==
    /\ child = "settling"
    /\ Child(IF gets \in answered THEN "unwinding_failed" ELSE "unwinding_cancelled")
    /\ answered' = answered \cup {gets}
    /\ UNCHANGED <<manager, parent, seen, requests, callbacks, iteration, events,
                   executing, gets, result_queue, errors, broken>>

(* The author's code looks for a request, raises, or hangs; or takes no    *)
(* notice, and returns.                                                    *)
AuthorCode ==
    /\ child = "running"
    /\ \/ cancel_request /\ Child("unwinding_cancelled")
       \/ Child("unwinding_failed")
       \/ Child("deaf")
    /\ UNCHANGED <<manager, parent, seen, requests, callbacks, iteration, events,
                   executing, gets, answered, result_queue, errors, broken>>

(* _remote_workflow_child_thread forwards how the function ended.  An      *)
(* author may find it too late to cancel, and return.                      *)
ChildEnds ==
    /\ \/ /\ child \in {"running", "unwinding_cancelled"}
          /\ Child("returned")
          /\ result_queue' = Append(result_queue, "result")
       \/ /\ child = "unwinding_cancelled"
          /\ Child("cancelled")
          /\ result_queue' = Append(result_queue, "cancelled")
       \/ /\ child = "unwinding_failed"
          /\ Child("raised")
          /\ result_queue' = Append(result_queue, "error")
    /\ UNCHANGED <<manager, parent, seen, requests, callbacks, iteration, events,
                   executing, gets, answered, errors, broken>>

ChildStep == \/ BeginExecute \/ IsFinished \/ TaskFails \/ LeaveExecute
             \/ BeginGet \/ GetWakes \/ GetLooks \/ GetSettles
             \/ AuthorCode \/ ChildEnds

-----------------------------------------------------------------------------
(* The parent                                                              *)

Parent(pc) == parent' = pc

(* The manager refuses "started" for an execution that is being cancelled. *)
WorkflowStarted ==
    /\ parent = "starting"
    /\ \/ /\ status \in Cancelling
          /\ Parent("cancelling")
          /\ UNCHANGED <<status, child>>
       \/ /\ status \notin Cancelling
          /\ status' = "started"
          /\ Parent("polling")
          /\ Child("running")
    /\ UNCHANGED <<restoring, asked, life, seen, requests, callbacks, iteration, events,
                   executing, gets, answered, result_queue, errors, broken>>

(* _validate_workflow_func: there is no such function, or it cannot be     *)
(* resumed.                                                                *)
CannotRun ==
    /\ parent = "starting"
    /\ Parent("failing")
    /\ broken' = "function"
    /\ UNCHANGED <<manager, seen, requests, callbacks, iteration, events, workflow,
                   answered, result_queue, errors>>

GetMessage ==
    /\ parent = "polling"
    /\ result_queue # <<>>
    /\ result_queue' = Tail(result_queue)
    /\ \/ Head(result_queue) = "result" /\ Parent("succeeding")
       \/ Head(result_queue) = "cancelled" /\ Parent("cancelling")
       \/ Head(result_queue) = "error" /\ Parent("failing")
    /\ UNCHANGED <<manager, seen, requests, callbacks, iteration, events, workflow,
                   answered, errors, broken>>

(* The status is not polled while a snapshot is restored. *)
NoMessage ==
    /\ parent = "polling"
    /\ result_queue = <<>>
    /\ ~restoring
    /\ Parent("asking")
    /\ UNCHANGED <<manager, seen, requests, callbacks, iteration, events, workflow,
                   answered, result_queue, errors, broken>>

(* Mutant: the child is told once only. *)
AskOnce ==
    /\ parent = "asking"
    /\ seen' = status
    /\ \/ /\ status \in Cancelling
          /\ ~cancel_request
          /\ cancel_request' = TRUE
          /\ iterated' = callbacks
          /\ visited' = {}
          /\ Parent("notifying")
       \/ /\ status \in {"force_cancelling", "kill_cancelling"}
          /\ cancel_request
          /\ Parent("cancelling")
          /\ UNCHANGED <<cancel_request, iteration>>
       \/ /\ status \notin {"force_cancelling", "kill_cancelling"}
          /\ status \in Cancelling => cancel_request
          /\ Parent("polling")
          /\ UNCHANGED <<cancel_request, iteration>>
    /\ UNCHANGED <<manager, kill_request, callbacks, events, workflow, answered,
                   result_queue, errors, broken>>

(* The status is asked for, and a request passed on, every time; the set   *)
(* of callbacks is iterated while the child adds to it and takes from it.  *)
AskStatus ==
    /\ parent = "asking"
    /\ seen' = status
    /\ \/ /\ status \in Cancelling
          /\ cancel_request' = TRUE
          /\ iterated' = callbacks
          /\ visited' = {}
          /\ Parent("notifying")
       \/ /\ status \notin Cancelling
          /\ Parent("polling")
          /\ UNCHANGED <<cancel_request, iteration>>
    /\ UNCHANGED <<manager, kill_request, callbacks, events, workflow, answered,
                   result_queue, errors, broken>>

SameSize == Cardinality(callbacks) = Cardinality(iterated)

CallCallback(f) ==
    /\ parent = "notifying"
    /\ SameSize
    /\ f \in callbacks \ visited
    /\ visited' = visited \cup {f}
    /\ events' = events \cup ({f} \cap 1..MaxGet)
    /\ UNCHANGED <<manager, parent, seen, requests, callbacks, iterated, workflow,
                   answered, result_queue, errors, broken>>

(* "Set changed size during iteration": RuntimeError in the parent. *)
IterationBreaks ==
    /\ parent = "notifying"
    /\ ~SameSize
    /\ Parent("failing")
    /\ broken' = "iteration"
    /\ UNCHANGED <<manager, seen, requests, callbacks, iteration, events, workflow,
                   answered, result_queue, errors>>

(* Mutant: a request to cancel ends the loop like a forced one. *)
NotifiedAlwaysEnds ==
    /\ parent = "notifying"
    /\ SameSize
    /\ iterated \cap callbacks \subseteq visited
    /\ Parent("cancelling")
    /\ UNCHANGED <<manager, seen, requests, callbacks, iteration, events, workflow,
                   answered, result_queue, errors, broken>>

(* All were called, unless one took another's place meanwhile.  A kill     *)
(* request is passed on after the cancel request, and calls them again.    *)
Notified ==
    /\ parent = "notifying"
    /\ SameSize
    /\ iterated \cap callbacks \subseteq visited
    /\ \/ /\ seen = "kill_cancelling"
          /\ ~kill_request
          /\ kill_request' = TRUE
          /\ iterated' = callbacks
          /\ visited' = {}
          /\ parent' = parent
       \/ /\ seen = "kill_cancelling" => kill_request
          /\ Parent(IF seen = "cancelling" THEN "polling" ELSE "cancelling")
          /\ UNCHANGED <<kill_request, iteration>>
    /\ UNCHANGED <<manager, seen, cancel_request, callbacks, events, workflow,
                   answered, result_queue, errors, broken>>

(* _workflow_succeeded, _workflow_cancelled, _workflow_failed *)
WriteStatus ==
    /\ \/ parent = "succeeding" /\ status' = "terminated"
       \/ parent = "cancelling" /\ status' = "cancelled"
       \/ parent = "failing" /\ status' = "failed"
    /\ Parent("done")
    /\ UNCHANGED <<restoring, asked, life, seen, requests, callbacks, iteration, events,
                   workflow, answered, result_queue, errors, broken>>

(* A call to the manager, an event or a clean-up raises: the workflow is   *)
(* taken for failed, unless that cannot be written either, or it was the   *)
(* first look at the status, which nothing guards.                         *)
CallRaises ==
    /\ errors < MaxError
    /\ errors' = errors + 1
    /\ broken' = "error"
    /\ \/ parent \in {"starting", "asking", "succeeding", "cancelling"} /\ Parent("failing")
       \/ parent \in {"starting", "failing"} /\ Parent("done")
    /\ UNCHANGED <<manager, seen, requests, callbacks, iteration, events, workflow,
                   answered, result_queue>>

(* The status was written, and the event of the start raises. *)
StartRaises ==
    /\ parent = "starting"
    /\ status \notin Cancelling
    /\ errors < MaxError
    /\ errors' = errors + 1
    /\ broken' = "error"
    /\ status' = "started"
    /\ Parent("failing")
    /\ UNCHANGED <<restoring, asked, life, seen, requests, callbacks, iteration, events,
                   workflow, answered, result_queue>>

(* main() returns, and the child is a daemon thread. *)
Exit ==
    /\ parent = "done"
    /\ child \notin ChildEnded \cup {"none", "killed"}
    /\ Child("killed")
    /\ UNCHANGED <<manager, parent, seen, requests, callbacks, iteration, events,
                   executing, gets, answered, result_queue, errors, broken>>

ParentStep == \/ WorkflowStarted \/ CannotRun
              \/ GetMessage \/ NoMessage \/ AskStatus
              \/ (\E f \in Callback : CallCallback(f)) \/ IterationBreaks \/ Notified
              \/ WriteStatus \/ CallRaises \/ StartRaises \/ Exit

Next == \/ \E s \in Cancelling : RequestCancel(s)
        \/ Crash
        \/ ChildStep \/ Respond
        \/ ParentStep

Spec == Init /\ [][Next]_vars

(* Both threads run.  Agents may never answer: only a request to cancel    *)
(* makes an execute() end that has tasks to wait for.                      *)
ChildProgress == (child = "looping" => cancel_request) /\ ChildStep

FairSpec == Spec /\ WF_vars(ParentStep) /\ WF_vars(ChildProgress)

-----------------------------------------------------------------------------
(* The parent was told to end without the child. *)
Forced == seen \in {"force_cancelling", "kill_cancelling"}

(* How an execution is said to have ended is how it did: it terminated     *)
(* only if its function returned, was cancelled only if somebody asked for *)
(* it and the function gave way, was not started or was given up by force, *)
(* and failed only if the function raised or the parent gave up.           *)
OutcomeIsTrue ==
    /\ status = "terminated" => child = "returned"
    /\ status = "cancelled" => asked # "no" /\ (child \in {"cancelled", "none"} \/ Forced)
    /\ status = "failed" => child = "raised" \/ broken # "no"

(* The author's code hangs, and nothing stronger than a cancel was asked.  *)
Ignored == child = "deaf" /\ status = "cancelling"

(* The parent could not write that it failed. *)
GaveUp == parent = "done" /\ status \notin END_STATES

(* Who asks for a cancellation gets one, or another end, although agents   *)
(* may never answer and events may be registered after the request came:   *)
(* it is passed on again with every poll.  restore_snapshot does not poll. *)
CancellationEnds == asked # "no" ~> status \in END_STATES \/ Ignored \/ GaveUp \/ restoring
=============================================================================
