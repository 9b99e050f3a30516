# cloudify-common in TLA+

cloudify-common is the library under every part of Cloudify: the engine that
executes workflows, the messaging between a workflow and the agents that run
its operations, the context that plugins see, local storage, the REST client and
the parser of blueprints.  This directory models its concurrent core in TLA+,
checks it with TLC on small instances and proves the most important of its
properties with TLAPS for every instance.

Contents: [components](#components) - [modules](#modules-and-code) -
[runs](#runs) - [bounds](#bounds) - [fairness](#fairness) -
[proofs](#proofs) - [findings](#findings) - [known behaviour](#known-behaviour) -
[not modelled](#what-is-not-modelled) -
[plan](#plan)

## Components

| component | state | operations | hard behaviour | correct when |
|---|---|---|---|---|
| Task dependency graph (`workflows/tasks_graph.py`) | `_tasks`, `_dependencies`, `_dependents`, `_ready`, `_waiting_for`, `_finished_tasks`, `_error` | add/remove tasks and dependencies, sequences, forkjoins, subgraphs, `execute`, `store`/`restore` | results from other threads, retries and rebuilds in the middle of an execution, failures side by side, a process that dies at any point | tasks start in order, none is forgotten or started twice, `execute` returns, with an error iff something failed; a resumed execution goes on where it was |
| Workflow tasks (`workflows/tasks.py`) | state, result and callbacks of each task, retries | `apply_async`, `set_state`, `handle_task_terminated`, `duplicate_for_retry`, `WorkflowTaskResult` | results and callbacks meet without a lock; delayed retries | every result is handled, retries stay within their limit |
| Workflow API (`workflows/workflow_api.py`) | `cancel_request`, callbacks | `set_cancel_request` | comes from another thread | a cancelled execution ends |
| Lifecycle of instances (`plugins/lifecycle.py`) | handlers attached to subgraphs; states of instances | install, uninstall, reinstall, rollback; `_SubgraphOnFailure` and its kin | a failed subgraph is rebuilt while its operations are in flight; a workflow begins on what another left half done | an instance is whole when it is reported, nothing is left when it is gone |
| Built-in workflows (`plugins/workflows.py`) | deployment modification | install, uninstall, update, scale, heal, rollback, execute_operation | partial failure, rollback, cancellation | a modification is finished or rolled back, and so are its instances |
| Workflow context and dispatcher (`workflows/workflow_context.py`) | `_tasks`, `_responses`, stored states of operations; queue of local tasks | send a task, receive its response, resume | response before anyone waits, reconnection, crash and resume | no operation twice, no response lost |
| AMQP client (`amqp_client.py`) | connection, `_connection_tasks_queue`, `_sem`, `_tasks_buffer` | publish, ack, consume, run tasks in threads | reconnection, redelivery, bounded pool, errors across threads | a task is run at least or at most once, as `late_ack` says |
| Dispatch (`dispatch.py`) | status of the execution, queues between threads | run an operation or a workflow, cancel | three parties decide on one status; updates of contexts when an operation ends | the final status is what happened |
| Local execution (`workflows/local.py`) | node instances with versions, locks | get, update, store executions | concurrent updates | no lost update |
| Operation context (`context.py`, `manager.py`) | runtime properties with a dirty flag and a version | update, refresh, conflict handlers | conflicting updates, lost responses | no silent overwrite |
| Cluster client (`cluster.py`) | active host, known hosts | failover of REST requests | manager dies | a request reaches a live manager |
| Multi-instance graph (`dsl_parser/multi_instance.py`, `rel_graph.py`) | the graph of a deployment's instances, before and after | create a plan, modify it (scale), extract the difference | containers, groups, hints and connections change at once; what one modification returns the next starts from | counts as asked, connections as planned, the difference complete |
| Plugin installer (`plugin_installer.py`) | directories, `plugin.id` files, lock | install, uninstall | concurrent installs on a host | a plugin is whole or absent |
| Context proxy (`proxy/`, `script_runner/`) | socket, return value, retry flag | attribute access, return, retry | a script and its process | the script's last word wins |
| DSL parser (`dsl_parser/`, the rest) | tree of elements | parse, merge, evaluate functions | order of elements, cycles | deterministic output, cycles rejected |
| REST client (`cloudify_rest_client/`) | none | one method per request | - | - |

How they interact: dispatch runs a workflow's function in a child thread; the
function builds a graph of tasks through the lifecycle plugin and executes it;
the engine sends operations through the dispatcher and the AMQP client to agents,
where dispatch runs them with a context over the manager's storage.  What the
operations and `set_node_instance_state` leave in the storage is what the next workflow
reads, and a scaling first asks the multi-instance graph what is to come and go.

The way an operation takes: `execute()` pops a ready task and calls
`apply_async`; that stores the state SENDING, registers the task with the
handler of the execution's response queue, stores SENT and publishes.  The
agent's `TaskConsumer` acks, runs and answers.  The response comes to
`_WorkflowTaskHandler.process` in the connection's thread, which stores the
outcome and sets `async_result.result`; the setter calls `_task_finished`, which
puts the task into `_finished_tasks` and wakes the main loop;
`_handle_terminated_task` then removes the task, frees what waits for it, retries
it, or lets the failure rise through the subgraphs.

The behaviours of this code that are hard to test, with the line each bites at
and the properties that speak of it, are listed under `hazards` in
`PROJECT.json`.

## Modules and code

`DependencyGraph` has no variables: the four dicts and sets of
`TaskDependencyGraph` as one record `[tasks, dependencies, dependents, ready]` and
its operations as operators on it.  `AddTasks`, `AddDependencies`, `ReleaseFrom`
(remove_dependency of many sources), `RemoveTasks` (remove_task, which frees
dependents) and `TakeOver` (a retry inherits every edge).  `GraphBuilding` and
`TasksGraph` both extend it.

`GraphBuilding` is the graph as an author builds it (`draft`): any sequence of
`add_task` (of a new task or one that is there), `add_dependency`,
`remove_dependency`, `remove_task` and `TaskSequence.add` (of a task or a
forkjoin, an empty one too).  `linearize` is a recursive function, checked on
every graph that the calls reach against what a topological order is, and proved to
give one.

`TasksGraph` is `execute()` with everything it drives.  The main loop has three
phases (`pc`): `Check` is `_is_finished`; `RunOperation`/`RunSubgraph` pop one ready task
each; `HandleEnd`, `HandleFail`, `HandleRetry`, `HandleRebuild` and `HandlePropagate` are
the arms of `_handle_terminated_task` with the task's `handle_task_terminated` and
the on_failure handler of `lifecycle.py` it calls, all in one step, because
nothing in there waits and nobody else writes the same state.  Other threads
are `Finish` (a response), `TimerFires` (`with_execute_after`), `Cancel` and
`DeadlinePasses` (`wait_after_fail`).  A result may be delivered twice (see `TaskResult`): of
a task in `Hasty` the response may come while the main loop is in `on_result`
(`AnswerAtOnce`); the setter then delivers it too, at any time after
(`CallBackAgain`), and the main loop handles the task again (`HandleAgain`), which for a failed
one at top level puts a second retry into the graph (`SecondRetry`) and for one in a
subgraph raises out of `execute()`.  `redelivery` keeps which result that is.  A task is `[op, gen, try]`: the n-th retry in the
m-th build of its subgraph, which stands for the new object and id the code
makes each time.  The workflow itself (`Op`, `Parent`, `Needs`, `Handler`, `TotalRetries`)
is given by constants.  `TasksGraphProperties` has the properties.

`TaskResult` zooms into one step of `TasksGraph`, and shows where that has to be two: `on_result` (append, then
look), the setter of `result` (set, then call) and the event `_tasks_wait`, with the
main loop's `clear` and `wait(1)`, statement by statement in two threads.

`RemoteTask` zooms into another: `apply_async` of remote tasks,
`wait_for_task`, `send_task` and `process`, over reconnections and over crashes of
the process with resumption from the stored states.  The broker is a set
of responses; `delivered` is the sequence of this connection's deliveries, so
that an index is a delivery tag; `acked` are tags of this connection.
`Answer` (agents), `Redeliver` (broker) and `Resume` (management worker and
`restore`) are outside this component.  The content of a response is
abstracted, and an empty or malformed one, which the code acks and drops, is
not produced.

`TaskConsumer` is the other end: the connection thread (deliver, process,
methods of `_connection_tasks_queue`, reconnect) and one thread per task
(`_process_message`), with the semaphore and `_tasks_buffer`.  A delivery is a message
and the session it came by.  `Restart` and `LinkDrops` are the environment's.  That an
ack on a channel of an earlier connection raises an error which is not
`ConnectionClosed`, that an ack on a link that just died may seem to have been
done, and that a message is delivered again only by another session, are pika's
and RabbitMQ's behaviour as the code relies on it.

`ExecutionLifecycle` is the process of one workflow: the parent thread of
`_handle_remote_workflow` (start, poll the queue, poll the status, pass a request
on callback by callback, write the end), the child thread that runs the
author's function (any order of `execute()`, `WorkflowTaskResult.get` and code that looks
for requests, hangs or raises), and `workflow_api` between them.  Requests for a
cancellation and the death of the process with a new dispatch are the
environment's.  A turn of `execute()` is one step here, and `TasksGraph` has what it
does.

`ResumeGraph` puts a store under the engine of `TasksGraph`: `Store` is what `set_state`
and `store_operation` write within each of its steps (also a state that the task had
already: a subgraph that was restored as started may be stored as failed until it is
applied again).  `apply_async` stores SENDING before it sends and SENT after, with steps of others
between, so an operation may be stored as "sending" when its process dies (`AboutToSend`,
`LeftStored`).  `Resume` is a new process that
rebuilds the graph (`RestoredTasks`, `RestoredEdges`, `ActiveTarget` for a dependency on
what was retried since) and, for an install, puts the cleanup before it that
`_update_resumed_install` asks for.  A forced resume first makes the manager set what
failed back to pending (`Reset`, external).  What was sent goes on while no
process lives, and answers the next one.  It follows executions in which no result is
delivered twice; what that does is with `TasksGraph`.

`AtomicProperties` is what storing runtime properties promises: an operation has a
copy of what it read, stores it in one step over the very properties it had
read, or merges it into the present ones.  `RuntimeProperties` is what the code does:
versions, dirty flags, requests that wait, `update(on_conflict)` with its loop, the
update that `finally` adds for each instance of the operation's context, the retry
of a request at another manager, and either storage behind it.  With the manager the copy
that an operation gets has its intrinsic functions evaluated (`Fetched`, `Evaluated`) and is
stored back whole, so a function that nobody edited is replaced by what it came
to; `Given` says which values those are.  `ImplementsAtomic` is
the refinement, and it is proved.

`InstanceTasks` has no variables: for each state an instance may be in, the tasks that
`install_node_instance_subgraph` and its three kin put into a sequence.
`BuiltinWorkflows` runs workflows of `plugins/workflows.py` one after another over it.  A
workflow reads the states (`seen`), builds one graph or two, and each task is a
step that changes the stored state or what is in force (`inforce`).  At any task it
may fail, be cancelled or die.  Operations that are in flight then are awaited by nobody
and end at any time after, or never (`OthersGoOn`, `stray`, `StrayLands`): between
workflows or during a later one, which knows nothing of them.  What is really there
(`Present`) is therefore what the states were told of, and what strays have changed
since (`lateMade`, `lateUndone`) that no operation of a graph has changed again (`Settle`).  How a graph is executed is not repeated here.  The bookkeeping of
deployment modifications is the manager's, as the workflows use it.

`MultiInstance`, with `Removal` for the choice of what a scale-in takes, is `create_deployment_plan` and `modify_deployment` on plans given by constants:
containers and groups are walked outside in, one element in one container per
step, then connections are made and the difference is extracted and applied.  A
set in Python has no order, so where the code takes the first of some, the model
takes any.

`PluginInstaller` is `install` and `uninstall` of versions of a plugin: a version is its lock file, its
directory, virtualenv, packages and `plugin.id`, each of which appears and goes in a step
of its own.  A lock file is a number (its inode), so that one which was removed is
still locked by who has it open, and the next has another.  The file lock is one
between processes, the other between threads of a process, as the comment at
`plugin_installer.py:324` says.  `rmtree` takes a directory away file by file, and passes over what it
cannot remove (`RemoveOne`).  The operating system, and the manager a plugin is uploaded to, are
outside of it.

`MC*` modules and `*.cfg` files give TLC the instances.  `*Proofs` modules hold the
proofs.  Definitions marked `Mutant` are plausible bugs: each property is known to
fail when one of them takes the place of the definition below it.

## Runs

| run | question | properties |
|---|---|---|
| `instance` | does the engine keep order and books with an instance subgraph, a relationship subgraph in it and another subgraph behind it, where operations are retried, ignored and fail side by side and the whole is rebuilt; does `execute()` return only when what it speaks of is whole, and end when cancelled although agents, timers and the clock stand still? | `EdgesConsistent`, `ReadyIsWhatCanRun`, `OneAttemptAtATime`, `SubgraphsKnowTheirTasks`, `RetriesBounded`, `GoodEndsAreWhole`, `StartsInOrder`, `ExecuteEnds` |
| `building` | does the graph stay sound under any calls of an author, and does `linearize` order it? | `ReadyIsExact`, `OrdersAreKept` |
| `task_result` | is every result handled although nothing locks? | `ResultIsHandled` |
| `task_consumer` | is a task acked late run at least once and one acked early at most once; are slots lost; does every task run? | `SlotsAccountedFor`, `AtLeastOnce`, `AtMostOnce`, `EveryTaskRuns` |
| `remote_task` | is an operation requested twice or its response lost over crashes and reconnections; does every task end? | `RequestedOnce`, `ResponseKeptUntilStored`, `EveryTaskEnds` |
| `execution` | does the final status say how the function ended, and does a cancellation end the execution, with events registered and discarded while the request is passed on? | `OutcomeIsTrue`, `CancellationEnds` |
| `resume` | does an execution that is resumed after any step, twice, with and without force, hold its order, do nothing again, clean up first, and end complete? | `ResumedIsComplete`, `OrderSurvivesResume`, `DoneOnce`, `CleanupComesFirst`, `ResumedEnds` |
| `storage` | do operations that share an instance store as if each did so at once, over both storages, with conflicts, lost responses and states set meanwhile? | `ImplementsAtomic`, `NothingOverwritten`, `StateIsKept`, `UpdatesEnd` |
| `lifecycle` | what does each workflow make of the half-done state that failed, cancelled or dead ones left? | `InstalledIsWhole`, `NothingIsLeftBehind`, `TargetsComeFirst` |
| `scaling` | are counts, connections and hints kept over any two modifications, and is the returned difference all of it? | `CountsKept`, `ConnectedAsPlanned`, `DifferenceIsComplete`, `OnlyWhatWasAsked`, `HintsHonoured` |
| `plugins` | is a plugin whole or absent, and does it stay, when threads of one process or two install and uninstall versions, steps fail, a process dies and a plugin is uploaded anew? | `WholeOrAbsent`, `InstalledStays`, `CallsEnd` |
| `scaled_in_target` | a comment the code contradicts, see [findings](#findings) | `RemovedAreNotIncluded` |

Some properties name exceptions.  Each is a behaviour the run reaches and the
property says that nothing else goes wrong:

* `ExecuteEnds`, `ResumedEnds`: `execute()` may wait for ever for a relationship
  subgraph that was started and then removed with the instance around it.
* `OneAttemptAtATime`, `SubgraphsKnowTheirTasks`: a result delivered twice (`redelivery`).
  Then the graph has two retries of a failed operation of the top level and no more, or
  the task is handled that its container does not list any more, which is what raises
  `KeyError`; no other task is doubled, and none else is missing.
* `GoodEndsAreWhole`: `execute()` may return cleanly while operations of a subgraph
  whose failure was ignored, or of a build that failed and was rebuilt, are in flight.
* `EveryTaskRuns`: a task that acks early is lost if the process dies before it
  runs (`LostByDeath`); a task put into `_tasks_buffer` just after the last
  thread looked there waits until another task ends (`LeftInBuffer`); bodies that
  do not parse are never acked and fill the prefetch window (`WindowBlocked`).
* `AtMostOnce`: an ack that the connection swallowed as it died (`lost_ack`).
* `EveryTaskEnds`: SENT stored and the process died before it sent
  (`NeverSent`); `wait_for_task` and `process` each left what they had for the other
  (`MissedEachOther`); the ack of a stale tag closed the channel (`conn = "gone"`).
* `RequestedOnce`: a publish that was repeated because the broker's confirm did
  not arrive (`unconfirmed`).  `ResponseKeptUntilStored`: a stale tag that was acked
  (`wrong_ack`).
* `OutcomeIsTrue`: an execution fails although its function did not raise when the
  function cannot be run, when a call of the parent raises, and when the child
  changes `cancel_callbacks` while `set_cancel_request` iterates it (`broken` = "function",
  "error", "iteration"): a cancelled workflow may end as failed.
* `CancellationEnds`: a function that hangs and was only asked to
  cancel (`Ignored`), a failure that could not be written (`GaveUp`), and the workflow
  `restore_snapshot`, which does not poll.
* `OrderSurvivesResume`, `ResumedIsComplete`, `CleanupComesFirst`: an operation whose failed state
  was stored and whose retry, or the failure of what is around it, was not: the
  next process takes it for ended (`overlooked`).  Of what is applied, `OrderSurvivesResume`
  speaks of first attempts only: see `tasks_graph.py:387` under [known behaviour](#known-behaviour).
  `CleanupComesFirst` speaks of a create that the resume finds pending, as the code does, and not of
  one that was stored as "sending": see `lifecycle.py:333` there.
* `NothingOverwritten`: a stored intrinsic function that became what it evaluates to (`Given`).
* `InstalledIsWhole`, `NothingIsLeftBehind`, `TargetsComeFirst`: an instance whose reinstall went by the state
  it had before its first install (`misled`), what a workflow gave up undoing or wrote a
  state over that denies it (`abandoned`, `Overwritten`), and links that no longer are as the state of their instance says
  (`unrecorded`); what strays made during a later workflow or when a state denied it already, and
  what they undid (`lateMade`, `lateUndone`).  What a stray makes while no workflow runs, and no
  state denies it, is not excepted: a later uninstall has to undo it (`Foreseen`).  Each is described under [known behaviour](#known-behaviour).
* `WholeOrAbsent`, `InstalledStays`: what an `uninstall`, which takes no lock, may have reached,
  until nothing of it is left (`touched`); what a process left that died in an install,
  what a step outside of the `try` left that cleans up, and what `rmtree` passed over (`spoiled`).
* The properties of `scaling`: what an instance that came back by the finding was
  counted for (`Unaffected`), and as it is stored with its groups, what is in these too.  `HintsHonoured` speaks of the
  graph that is worked out from the containers: a connection may bring an included instance back afterwards.

## Bounds

* `MaxTry`, `MaxGen` (`TasksGraph`): retries of an operation and builds of a subgraph.
  1 and 2: the second build is the one whose limit is denied after it was put
  into the graph.  `WithinBound` keeps an operation from asking for a retry that
  the code would grant beyond `MaxTry`; a denied one is always possible.
* `Hasty`, `MayDouble` (`TasksGraph`): one setter is behind at a time; in a subgraph it may be that of a
  task of the first build, and at top level a second retry of an operation counts as its next build,
  so `MaxGen` 2 allows one.
* Subgraphs nest two deep (`NestingAssumption`), as `lifecycle.py` nests what a workflow
  begins with.  A rebuilt subgraph is a copy of the one that failed.  For an
  uninstall that is what the code makes; after an install it makes a reinstall
  (`lifecycle.py:741`), which has an uninstall and an install in it and nests three deep.
  What the engine does with it is the same at each level: a subgraph in a subgraph that ends or
  fails tells the one around it (`HandleEnd`, `HandlePropagate`).  What the uninstall in it
  undoes is in `BuiltinWorkflows` (`Reinstall`).
* The workflow has a fork, a join, a retry, an ignored failure, a polled state, a NOP
  and one subgraph of each handler.  The outcomes of each operation (`Outcome`) are cut to those that matter at its place.
* The model of the engine ends when `execute()` returns.
* `Task` of three and one sequence of up to three adds (`MaxAdds`) in `GraphBuilding`
  reach every graph on three tasks, cyclic ones too.  `linearize` needs as many
  rounds as there are tasks.
* Two tasks in `TaskResult`, with one retry: the loop handles one while the
  other is delivered.
* `MaxSession` 2, two slots, two good messages and two bad ones in `TaskConsumer`: a
  task waits in the buffer only behind two held slots, of which a redelivery may
  hold one, and two bodies that do not parse fill the window of two (`WindowBlocked`).
* Two tasks, `MaxLife` 2, `MaxSession` 3, `MaxRequest` 2 in `RemoteTask`: a reconnection
  before or after a resumption, and tags of one task taken for the other's.
* Two calls of `get()`, two errors and two processes in `ExecutionLifecycle`: one event
  more than `execute`'s to register or discard during an iteration, an error while
  another is being written, and a request that outlives the process it was for.
* `MaxResume` 2, `MaxGen` 0, `MaxTry` 2 in `ResumeGraph`: a dependency on a task that was
  retried in one process and again in the next, and a cleanup interrupted by
  another death.  Of two operations side by side in a subgraph one may fail for good while
  the other is out, and the subgraph comes back for it.  Each operation may be stored as "sending" when the
  process dies.  A NOP lies before the
  operation that is retried.  There are no rebuilds, since a rebuilt subgraph is
  stored without its tasks (known behaviour).  A graph with an ignored failure before
  that operation too takes twice as long and shows the same.
* `MaxEdits` 3, `MaxOutside` 1, two instances and two operations, one of a node and one of
  a relationship, in `RuntimeProperties`: each pair of writers, a merge over a merge, a
  source stored and a target refused, and one event of the environment (a lost
  response, a state set, an operation run again) between any two steps.  One of the
  stored properties is an intrinsic function.
* `MaxWorkflows` 3, `MaxFailures` 2, `SubgraphRetries` 1 in `BuiltinWorkflows`: two workflows that fail
  and one that goes by what they left.  `app` implements all operations, `db` two and
  the instance that is added one, so each state is skipped by somebody.  Heal reinstalls `db`.
  Strays have no bound of their own: each failure leaves what was in flight, and all of
  it may land in any order, or never.
  The theorems have no bound, and one of them came to what the run does not reach: a start
  that is left in force (`Overwritten`, see [known behaviour](#known-behaviour)) takes four
  workflows of which two fail.  With the constants set to one instance without
  relationships, 5 workflows and 3 failures TLC reaches it, and finds nothing else.
* `MaxInstances` 2, `MaxModifications` 2, `MaxHints` 1 in `MultiInstance`: the second modification
  starts from what the first returned.  The plan has every kind of connection
  within a group, across its border and out of it; a second set of default
  numbers begins mostly empty.  On five smaller plans (nested groups, three instances of a
  node, the target of a connection in a group) the properties hold as well.
* Two threads, two versions, two calls and one upload in `PluginInstaller`, on a
  host that may have a version already: an install beside an install or an
  uninstall of the same version or of the other, and one after what was left.
  Of a death and a file that `rmtree` passes over there is one (`MaxFailures`).

## Fairness

* `MainLoopFairness`: the loop of `execute()` never blocks for more than a second,
  since `_tasks_wait.wait(1)` ends by itself.  Only this is assumed for the first part of
  `ExecuteEnds`: a cancel request ends `execute()`.
* `WorldFairness`: while operations or timers are due (`Due`) one of them comes, which is
  enough for each as none comes twice, and the clock goes on.
  An agent that never answers keeps a workflow open, and the code has no
  timeout for that; so the second part is about agents that answer.
* `TaskResult` needs fairness of both threads, and nothing for the event: a lost
  wake-up costs a second.
* `TaskConsumer`: threads run, the broker goes on delivering (apart from the
  connection's other work, as `process_data_events` is called in every turn), and an
  ended process is started again.
* `RemoteTask`: each `apply_async` goes on, the connection's thread runs, each agent
  answers.  Reconnections and resumptions are never forced.
* `ExecutionLifecycle`: both threads run, and an `execute()` with tasks to wait for ends
  only by a request (`ChildProgress`); responses, requests and new processes are never
  forced.
* `ResumeGraph`: the loop of `execute()`, answers and timers, and the end of
  `wait_after_fail`.  Nothing makes a process die or be resumed.
* `RuntimeProperties`: per operation, that its request is answered and that `finally` goes on;
  the author's body, the workflow and the network owe nothing.
* `PluginInstaller`: each thread runs, which a lock does not prevent for ever since a call that
  holds one ends; calls, uploads and deaths are never forced.
* `BuiltinWorkflows`, `MultiInstance` and `GraphBuilding` assume none: what they are asked is safety.

## Proofs

TLAPS checks the following for every value of the constants that satisfies the
named assumptions.

* `TasksGraphProofs`, from `TaskAssumption`, `BoundAssumption`, `WorkflowAssumption` and
  `NestingAssumption`, in layers of which each rests on ones before.
  * `ConsistencyInv`, `TypeOK` with the graph `Consistent`: `TypeCorrect` (`[]TypeOK`) and
    `EdgesStayConsistent` (`[]EdgesConsistent`).  Neither is inductive alone, since a step's
    edges stay in the graph only if the types of `subtasks` and of the tasks are
    known, and an end in a subgraph removes more than one task.  `RetriesStayBounded`
    (`[]RetriesBounded`) needs `RetriesInv` too: what is in the graph or listed by a
    subgraph is already within its limit, except the denied build, and that is
    only there when `error` stops the loop.
  * `EngineInv`: `ReadyIsRunnable` (`[]ReadyIsWhatCanRun`), `AttemptsAreOneAtATime`
    (`[]OneAttemptAtATime`) and `SubgraphsKeepTheirBooks` (`[]SubgraphsKnowTheirTasks`), which are not
    provable one by one, and both speak of results that are delivered twice.  `FlightInv` says that `_ready` and `_waiting_for` share what
    waits for nothing and that results and timers belong to what is in flight.  That
    `remove_dependency`, when a subgraph starts, makes nothing ready that was applied
    before needs `BooksInv`: what a subgraph lists is what is nested in it, and waits
    for it as long as it has not started.  That a retry or a rebuilt subgraph
    comes into the graph as a new object needs `FreshInv`: attempts and builds beyond
    those alive were never made.  A subgraph that the author makes wait for
    something in it (`SelfNeed`) is the one case where a rebuild could meet itself: it never
    starts, so it is never rebuilt.
  * `TwiceInv`, with `EngineInv`, for results that are delivered twice: such a task has its answer,
    and is handled, or out of the graph for good (`TwiceAnswered`); no two of them are of
    one operation and build (`TwiceOnce`); and an operation at top level has one line of retries
    for each result of it that was handled twice, and one more (`Lines`).  `OperationsGoOn` is what every
    step but a second handling keeps: an answer stays, and nothing comes alive that was
    made before.  Each of the theorems above and below holds of executions with such
    results too.
  * `WholeInv`: `GoodEndsStayWhole` (`[]GoodEndsAreWhole`).  Each operation of a subgraph is still
    listed, or came to a good end, or the subgraph has failed (`Accounted`); so is each
    at top level, in the graph (`TopAccounted`); a subgraph that succeeded lists nothing and
    has no failed task (`Closed`); what is in flight and out of the graph lies in a
    subgraph that failed (`Cut`).
  * `OrderInv`: `SiblingsStartInOrder` (`SiblingNeeds => (Spec => StartsInOrder)`).  What waits still has
    an edge to an attempt of each operation it needs, or that came to a good end, or
    the subgraph around it failed and it will not run, or `error` stops the loop
    (`PendingInOrder`); the failure of a subgraph is handled before the loop runs anything
    again (`FailedHandled`, `HandleFirst`).  `SiblingNeeds`, that dependencies are between
    operations of one subgraph or of the top level, is what the lifecycle builds unless an
    author names the operation to depend on, and holds of the workflow that TLC
    checks.  Without it the property is false of the code (see "Known behaviour").
* Also in `TasksGraphProofs`, the lemmas these rest on, one per operation of the graph:
  each keeps `Consistent` (types, mirrored dicts, edges inside, none from a task to
  itself) and `Tight` (what waits for nothing is ready or was applied, and not
  both), with the edges it makes and takes away.  Of the author's calls (`GraphBuilding`,
  whose specification is `AuthorSpec`): `AuthorTypeCorrect`, `NothingIsEverStranded` and
  `ReadyStaysExact`, by `BuildingInv` (consistency and the two properties); one lemma per
  operation says what it leaves free and ready.
  * `OrdersStayKept` (`[]OrdersAreKept`) by `AuthorInv`, which adds `SequencesKept`: the end of
    a sequence (`last`) is in the graph, is not empty once anything was added, and is or waits for
    all that was added before.  That is lost when a task or an edge is removed, so it holds while
    `orderly` does.
  * Of `linearize`, on any consistent graph, cyclic or not: a task is listed in the round
    after the last of its dependencies (`LinearizeRounds`), once, and after all it waits for
    (`ListedOnce`, `ListedInOrder`); there are rounds enough, since each that lists
    anything lists other tasks than those before it (`RoundsEnough`, the only place that needs
    `BuildingAssumption`, that there are finitely many tasks); and what is never listed is on
    a cycle or waits for one, as a finite set of tasks each of which depends on one of the set has a
    cycle (`CycleInside`).  What a task waits for is said by closed sets (`WaitsFor`), so
    that no path has to be counted.
  * That the rounds exist at all, and what they list, is proved by induction over the naturals
    (`Induction`, `Recursion`), stated for sets.
* `ResumeGraphProofs`, over the first layer above and with `ResumeAssumption`:
  * `ResumeInv`, with `ConsistencyInv` alone of the layers above, as a resumed engine keeps
    little of the others: `DoneStaysDone` (`ResumeSpec => DoneOnce`).  It speaks of the graph as
    it was first stored and of its retries (`Tracked`), and relates three things: memory and
    store (`GoodStored`: what has succeeded is stored so, unless it is a NOP), the attempts
    of the store among themselves (`ChainStored`, `RetriedEnded`: what was tried again had ended,
    and not for good) and the engine and the store (`LastStored`: what is in the graph or
    in flight is the last attempt stored; `NotEnded`, `EndStored` and `TimerPending` say how
    far it has come).  A resume takes the last attempts that had not ended, from the
    store or after `Reset`, and no later attempt of one that succeeded is stored; so none is
    in the graph again.  One lemma per step of the engine says what it leaves in the
    graph and stores, and `Sheds` that a handler takes away what it removes and stores
    nothing else.
  * `CompleteInv`, over `ResumeInv`: `ResumedComesToItsEnd` (`ResumeSpec => []ResumedIsComplete`).  An
    execution that ends without an error has an empty graph; `AllAccounted` says that then
    nothing is missing: each operation of the first build at top level has an attempt
    or a build that came to a good end, or is in the graph and stored, or failed
    for good when there is an error (`StillDue`), unless a resume has overlooked it.  Being in
    the graph is not enough: what is not stored would be lost at the next
    crash, and what is stored of a subgraph that was not would crash the resume
    (`RootsStored`).  What a resume reads back is what was true in memory, and came from
    a result that says so (`EndAgrees`), hence what it finds ended has come to a good end or
    is overlooked.  That no subgraph is taken for one that ended while it runs needs
    what it lists and when it is told (`TrackedListed`, `SubgraphTold`), and that one is never
    sent or tried again (`SubgraphStored`).  A rebuild whose retries are used up is the odd
    case: the new build is in the graph and not stored, so it is the old one, failed,
    that accounts for the subgraph.
* `TaskConsumerProofs`: `NoTaskIsLost` (`[]AtLeastOnce`).  An ack takes a message off
  the broker, so `NothingLostInv` says that with `late_ack` whatever is in
  `outbox` is about a task that was run, and that a thread that asks for an answer
  has run its task.  `SlotsStayAccountedFor` (`[]SlotsAccountedFor`) and `TypeCorrect` by `PoolInv`: a
  delivery is in one place only - not yet come, in the connection thread's hands, in
  `_tasks_buffer` or at a thread - so that when a thread passes its slot on, takes the next
  task or ends, the slots that are held change by just what the semaphore
  does.  `NoTaskIsRunTwice` (`[]AtMostOnce`) by `OnceInv` over `BrokerInv`: a message is with the
  broker or has been handled, never both, as the ack that lets a thread run
  its task was made in the session the message came by.
* `RemoteTaskProofs`: `NothingIsSentTwice` (`[]RequestedOnce`) by `SentOnceInv`: a task
  whose stored state is before SENT, or whose `apply_async` is on its way to the
  publish, was not requested yet.  `ResponsesAreKept`
  (`[]ResponseKeptUntilStored`) by `KeptInv`: what was acked on this connection, or
  is about to be, is stored as terminated, and the tag kept with a response is
  that response's as long as its connection lasts.  `TypeCorrect` with the bounds of the
  counters.
* `ExecutionLifecycleProofs`: `OutcomesAreTrue` (`[]OutcomeIsTrue`) by `OutcomeInv`: where the
  parent is says what it knows of the child, what lies in the queue is how the
  child ended, and nobody gives way to a request that was not made.  `TypeCorrect`
  says that the queue never holds a second message.
* `RuntimePropertiesProofs`: `StorageInvariant` (`[]StorageInv`): a copy with the version of the
  storage was made from what the storage has, a copy that is not dirty is as it was
  fetched, a request is for a dirty copy of the instance the operation has come
  to, and `finally` leaves no copy behind.From it, `StatesAreKept`, `NothingIsOverwritten` (for any set of intrinsic functions and whatever
  they come to, `Given`) and
  `Refinement` (`Spec => ImplementsAtomic`): every step of contexts and storage is one of
  `AtomicProperties` or changes nothing it speaks of.  A request refused while a merge
  is going on, for instance, leaves the abstract copy alone, because the call still
  holds what the author had.
* `BuiltinWorkflowsProofs`: `InstalledStaysWhole` (`[]InstalledIsWhole`), `NothingStaysBehind`
  (`[]NothingIsLeftBehind`), `TargetsAreFirst` (`TargetsComeFirst`) and `TypeCorrect`, for any deployment, any
  number of workflows, of failures and of operations that go on after their workflow.  None of the two invariants is inductive: that an
  install leaves an instance whole depends on what the state that it was built for said,
  and on what every task of it did since.
  * An assertion says what is known of an instance: its state, what is surely in force
    (`sure`) and what may be (`may`).  `Holds`: what the state claims is sure (`Claims`: "configured",
    for one, that create and configure were done) and what it denies is not in force
    (`Denied`).  `Post` is what a task makes of an assertion.  A plan `Leads` from one to another if
    each task can be given an assertion after it that holds, so that the plan may
    end at any of its tasks.  For each of the kinds of plans it is proved that it leads to
    what its graph is for from any assertion that holds in the state it was made for
    (`InstallLeads`, `UninstallLeads`, `RollbackLeads`; `RebuiltWorks` for the plan that is built
    again from the state the graph was built by).
  * `LifecycleInv`: `SoundInv`, that what is left of each plan leads from what is known now to
    what the graph is for, and that of instances without a plan the state holds;
    `StubInv`, that each link between an intact instance and one of the graph is as the graph
    will leave it, or has its task in a stub; `LeftInv`, that what is still in force of
    instances out of the deployment is excused; `PlanInv`, `FactsInv` and `TriesInv`, the types of it
    all; and `GraphInv`, which graph of which workflow runs, over which instances, and that a
    scaling that scales back only sets states.
  * `Steps` and `Moves` say what a step of one instance does to the facts, and one
    lemma per part of the invariant says that they keep it; each action of `Next` then
    is an instance of them.  At the end of a graph the plans are empty, so what they lead to
    is there (`DoneIsWhole`, `UndoneIsExcused`).
  * All of this is about `inforce`, what the states were told of (`WholeByGraphs`, `GoneByGraphs`).  `LateInv`
    adds what strays did: it lies over `inforce`, of their own instances.  A stray that
    lands while no workflow runs and that no state denies goes into `inforce`, and there
    the invariant has to hold of it (`ForeseenKeeps`): after an uninstall that ended well
    the states say "deleted", so none is foreseen (`EndedUndone`).  The two parts together
    give the properties over `Present`; `PresentMoves` is what a step of a graph does to that.
  * From `InstancesAssumption` and `DeploymentAssumption`: instances are no names of operations or
    states, relationships have no cycle, and an instance that a scaling adds under others
    has no targets of its own (added between two of them it would order them, which `Before`, a
    constant here, does not follow).
  * `Among`, the selection of the targets that are there, is recursive; what it returns is
    proved by induction on the length, stated for a set of numbers (`Induction`, from
    the well-foundedness of the naturals) as the library's rule for predicates cannot be used.
* Also in `BuiltinWorkflowsProofs`, of the modifications of a deployment (`MultiInstance`, whose
  specification is `DeploymentSpec`), from `PlanAssumption` (connections between nodes, nothing contained in
  itself at any distance): `HintsAreHonoured` (`HintsHonoured`), for any plan, any numbers and any
  sequence of modifications, by `ScalingInv`.
  * When the difference is returned the property speaks of all containers at once, while the code
    chose in one container after the other.  `HintsKept` says that of each container that was
    treated the choice is still to be read off the new graph, which needs `TreeGrown`: whatever
    is in the graph and was in the previous one is where it was, so no later container brings back
    what an earlier one let go, and ids that are made up are of no instance before
    (`NewInstancesAreNew`).  A container that has gone is never treated; of what was in it nothing
    is left (`NothingStaysInGone`).
  * `PreviousIsStored`: the previous graph is the one that the stored instances make.  That it
    can be made at all needs `StoreTyped`: what is stored of a difference are instances of nodes, each with a
    sequence of group instances, and connections between them (`ReturnStores`, over `EdgesKnown`).
  * The choice within one container is `HintsDecide`, for `Removal`: in whatever order the sets are
    walked, the first so many of what is included, what is free and what is excluded take all of
    one before any of the next.
  * `Chain`, what an instance is in, is a recursive function over the containers and not over
    numbers.  That it is defined (`ChainIsDefined`) is proved by gluing together the chains of all
    sets of instances that are closed upwards; that it is a sequence, by a least counterexample.
* `PluginInstallerProofs`: `InstalledIsWholeOrAbsent` (`[]WholeOrAbsent`), `InstalledKept` (`InstalledStays`) and
  `InstallsExclude`, that the two locks keep installs of one version apart, by `InstallerInv`.  It speaks
  of the versions that no uninstall has touched.  `Work` is what an install has made so
  far at each of its statements, and that the lock file it has open is the one that is
  there; with `LocksApart`, nobody else is then inside (`OneInside`), and `LocksApart` alone would
  not do, since a lock file that was removed is still locked.  `Directory` is
  what anybody may find: no `plugin.id` but an empty one unless the rest is there, and
  nothing half made unless somebody is at it or the version is spoiled.  One lemma
  per step; a version whose uninstall is over is empty, so it satisfies both.  From
  `InstallerAssumption`, which says that `Empty` is no id and that the bounds are numbers.

Only model-checked: liveness (`ExecuteEnds`, `CancellationEnds`, `ResultIsHandled`, `EveryTaskRuns`,
`EveryTaskEnds`, `ResumedEnds`, `UpdatesEnd`, `CallsEnd`), which is out of the prover's reach;
`OrderSurvivesResume` and `CleanupComesFirst` of `resume`, which speak of pairs of tasks over
any number of attempts; and of `scaling` `CountsKept`, `ConnectedAsPlanned`, `DifferenceIsComplete` and
`OnlyWhatWasAsked`, which need induction over the levels of containers.  `TypeOK` of `TaskResult` is
stated for the reader and is neither in a run nor proved.

## Findings

`scaled_in_target` (`src/dsl_parser/rel_graph.py:661`): an all_to_one connection keeps its previous
target though the same modification removed it.  The target comes back into the
new graph without its attributes: it is not listed as removed, one instance more
than asked for stays, and a later modification that adds a source raises `KeyError`.
The comment at `rel_graph.py:478` says that removed nodes "will not be included in the
resulting graph".

## Known behaviour

What the models do because the code does it, where a reader might expect
otherwise.  The properties leave it out by name, or are stated so that they hold.

* `tasks_graph.py:351` compares the deadline of `wait_after_fail` the wrong way round (the docstring
  at line 314 says how long it waits): `execute()` returns at the first look after a
  failure unless the deadline has passed, and then waits for what is in flight.
* `tasks_graph.py:347`: in that wait, a subgraph that was started and then taken out with the
  subgraph around it stays in `_waiting_for`, and `execute()` never returns.
* `lifecycle.py:1155`, `tasks_graph.py:549`: the second relationship subgraph of an instance that fails
  sets a result that is set, and "Result already set" (`tasks.py:345`) ends `execute()`.
* `tasks_graph.py:252`: a subgraph that depends on one operation of another is freed when that
  operation is removed with a failed subgraph, without having run (docstring at 261).
* `tasks_graph.py:344`: with a subgraph whose failure is ignored, `execute()` may return without an
  error while operations of it are in flight.  The workflow of `instance` ignores no subgraph.
  The same holds for a build that failed and was rebuilt, which the run does reach.
  `GoodEndsAreWhole` excepts these two and no others.
* `tasks.py:797` and 123: a result delivered both by the setter and by `on_result` is handled twice.
  A failed operation of the top level then has two retries in the graph, in flight at once, and one
  retry beyond `total_retries`; for one in a subgraph `del self.tasks[task.id]`
  (`tasks_graph.py:536`) raises `KeyError` out of `execute()`.
* `tasks.py:480` sends again what was stored as "sending" when the process died, and
  `_would_resend` (`lifecycle.py:333`) asks for pending tasks only: a create whose process died
  between the two may be run twice with no delete before the second, which is what
  the docstring at `lifecycle.py:145` is about.
* `endpoint.py:171` fetches a node instance with its functions evaluated (`functions.py:1103`), and an
  update stores the whole copy: an operation that changes one runtime property replaces an
  intrinsic function stored in another one by what it came to.
* `tasks_graph.py:385`: of a rebuilt subgraph only the subgraph itself is stored; after a crash
  it is restored empty and succeeds (`test_tasks_graph.py:263` restores one whose tasks were
  stored with the graph).
* `tasks_graph.py:387`: a retry is stored with what the task it replaces still waits for, which is
  nothing.  A resumed execution therefore runs it beside what that task had waited for, where the
  resume does it again: a NOP (`tasks.py:754`, never stored as ended) and, if the resume is forced, an
  operation that failed and was ignored.  `OrderSurvivesResume` therefore speaks of first attempts.
* `tasks_graph.py:153`: a failed operation is stored as failed before its retry is stored; a process
  that dies in between leaves it ended, and what waits for it goes on.
* `lifecycle.py:741`: a reinstall after a failed install of a heal goes by the state the instance
  had when the graph was built, and undoes nothing of that install
  (`test_lifecycle_retry.py:108` passes as local storage begins without a state, see the comment
  at `lifecycle.py:55`); the same holds for a scale-out that scales back in (`workflows.py:434`).
* `lifecycle.py:616`: `uninstall` and `rollback` skip the stop of an instance whose state says it is not
  started.  After an uninstall that failed in "stopping", with the start still in force, an
  install goes through "creating" and "configured"; when it fails there, a full rollback or
  the next uninstall skips the stop, and the start is never undone.
* `tasks_graph.py:340` and 351: operations in flight when an execution is cancelled or fails go on.  The
  create of a cancelled install may be done after a later uninstall has ended well, and then
  nothing undoes it; a stop or a delete may be done during a later install, which then reports an
  instance as started that is not whole.
* A scale-out that is cancelled while it installs rolls its modification back
  without uninstalling.
* A heal or a scale-out that dies after it unlinked an instance that stays leaves
  the link down, and no later install establishes it, since the instance is started.
* `lifecycle.py:565`: "initializing" is set over "created" and "configured" of an instance that is
  installed again.
* `conflict_handlers.py:28`: `simple_merge_handler` brings back a property that another operation deleted.
* `context.py:401`: `update(on_conflict)` catches the manager's conflict and not `StorageConflictError`, so
  over local storage the handler is never called.
* `manager.py:465`: `setdefault`, `|=` and changes inside a value do not make a copy dirty and are lost.
* `local.py:683`: `FileStorage` opens its file for writing, which truncates it, and then writes; a
  process that dies in between leaves an empty file.  Not modelled.
* `plugin_installer.py:294`: `uninstall` takes no lock.  It removes the lock file, so that two processes
  may install at once, each with its own file; it can take away what an install
  puts there meanwhile, and, if the directory of all versions was empty when it
  looked (line 315), another version too.  If its process dies it may leave `plugin.id` without
  the packages, which `install` takes for an existing installation.
* `plugin_installer.py:212`, 260, 304: `rmtree` ignores errors, so a failed install may leave files, and
  each later install is refused as corrupted; an uninstall is reported either way.
* `plugin_installer.py:206` and 262: what virtualenv or, for a source plugin, the writing of `plugin.id`
  leaves when it fails is not removed, and each later install is refused as corrupted.
* `rel_graph.py:122-135`: the host of a group instance is that of whichever member was seen last.

## What is not modelled

* Local tasks: their threads take from one queue and set a result, as `TaskResult` has it
  for any task; fields that `dump` writes and `DryRun`.
* What timers and late answers do between the return of `execute()` and the exit of the
  process; rebuilds, and results that are delivered twice, in an execution that is resumed.
* The inner levels of a reinstall that takes the place of a failed subgraph (see [bounds](#bounds)).
* An `rmtree` of the directory above all versions that fails, which leaves it empty; an error of
  `os.remove` of the lock file.
* `close` and `add_handler` of a connection, request/response clients, the choice of a broker's
  host; requests to RabbitMQ.
* `update`, `install_new_agents`, `validate_agents` and `execute_operation` (a sequence of operations without a
  state that decides anything), and what surrounds an operation of an instance: agents,
  monitoring, validation, pre and post operations.
* How a local environment is initialised, the files of `FileStorage`, local workflows.
* What a plugin is unpacked from and how it is chosen by platform.
* The proxy of scripts, one request at a time between a script and the
  parent that waits for it.
* The parser apart from the multi-instance graph: a sequential translation of one
  document into another, with a schema and rules per element and no state that
  outlives a parse.  Documents small enough for TLC would leave out what there is.
* The REST client, SNMP, compute helpers, mocks, logging and constants, which have no state
  or control worth a model.

All of these are listed with their reason in `PROJECT.json`.

## Plan

What a next step would add, in this order:

1. The order of dependencies that cross subgraphs: what `StartsInOrder` may still promise when the
   subgraph they lead into never fails.
2. `CleanupComesFirst` over `CompleteInv`; `OrderSurvivesResume` for workflows that rebuild no
   subgraph; `DifferenceIsComplete` over `ScalingInv` and the chains of what is stored.
3. Refinement: an abstract agent (each task run once or more) implemented by
   `TaskConsumer`, an abstract ordered execution by `TasksGraph` on flat workflows.
4. Local tasks (`workflow_context.py:1141-1176`); failover of the cluster client by itself.
5. Evaluation of intrinsic functions with its detection of cycles, and the order in which
   elements are parsed, each against a definition of what it should return.
