---------------------------- MODULE ResumeGraph ----------------------------
(***************************************************************************)
(* A workflow that survives the death of its process: every operation of   *)
(* TaskDependencyGraph is stored with the graph (store, store_operation),  *)
(* every change of a task's state is stored (set_state), and an execution  *)
(* that is resumed rebuilds its graph from what was stored                 *)
(* (make_or_get_graph, restore).  An install that is resumed also cleans   *)
(* up what its interrupted operation may have left                         *)
(* (LifecycleProcessor._update_resumed_install).                           *)
(*                                                                         *)
(* The engine is the one of TasksGraph.  The process may die between any   *)
(* two of its steps; a task that was sent goes on without it and answers   *)
(* into a queue that the resumed execution reads.                          *)
(***************************************************************************)
EXTENDS TasksGraphProperties, FiniteSetsExt

CONSTANTS
    Local,      \* operations that are not RemoteWorkflowTasks
    Cleanup,    \* Cleanup[s]: the cleanup subgraph of an install subgraph
    Resent,     \* Resent[s]: its create (or start) operation
    Entered,    \* Entered[s]: setting the instance's state to "creating" ...
    Left,       \* Left[s]: ... and to "created"
    MaxResume   \* bound: how often the execution is resumed

(* The subgraphs that install a node instance, and what is only built when *)
(* one of them is resumed.                                                 *)
Installs      == DOMAIN Cleanup
CleanupOps    == UNION {Inside(Cleanup[s]) : s \in Installs}
FirstBuild    == Op \ CleanupOps

ASSUME ResumeAssumption ==
    /\ Local \subseteq Op \ Subgraph
    /\ Installs \subseteq Subgraph
    /\ \A s \in Installs : /\ Cleanup[s] \in Subgraph
                           /\ Parent[Cleanup[s]] = NoOp
                           /\ {Resent[s], Entered[s], Left[s]} \subseteq Members(s)
    /\ MaxResume \in Nat

VARIABLES
    ops,       \* the stored operations: [state, dependencies] by task
    restored,  \* the tasks of this process that came out of the store
    resumed,   \* times the execution was resumed
    overlooked \* history: what had ended but not been acted on at a resume

store  == <<ops, restored, resumed, overlooked>>
rvars  == <<vars, store>>

Retry(t) == t.try > 0
Retried(t) == [t EXCEPT !.try = @ - 1]

-----------------------------------------------------------------------------
(* What is stored                                                          *)

(* graph.store(name): every task with what it depends on. *)
StoredGraph(g) ==
    [t \in g.tasks |-> [state |-> "pending", dependencies |-> g.dependencies[t]]]

(* Pre-run states of local tasks are not stored, and a NOP always is       *)
(* pending.                                                                *)
Unstored(t, s) == t.op \in Nop \/ (t.op \in Local /\ s \in {"sent", "started"})

(* What set_state is called on.  It stores the state even if the task has  *)
(* it already: a subgraph restored as started is started again.            *)
StateSet(t) == \/ state'[t] # state[t]
               \/ IsSubgraph(t) /\ t \in waiting_for' \ waiting_for

(* Mutant: states are stored, but never a task that takes another's place. *)
StoreNothingNew(new) ==
    ops' = [t \in DOMAIN ops |->
               IF StateSet(t) /\ ~Unstored(t, state'[t])
               THEN [ops[t] EXCEPT !.state = state'[t]] ELSE ops[t]]

(* set_state writes the state of a stored task; store_operation adds       *)
(* the task that takes the place of another, before it is in the graph.    *)
(* Both are done within the step that changes the task.                    *)
Store(new) ==
    ops' = [t \in DOMAIN ops \cup new |->
        IF t \in DOMAIN ops
        THEN IF StateSet(t) /\ ~Unstored(t, state'[t])
             THEN [ops[t] EXCEPT !.state = state'[t]] ELSE ops[t]
        ELSE [state |-> "pending",
              dependencies |-> IF Retry(t) THEN graph.dependencies[Retried(t)]
                               ELSE graph.dependencies[FirstTask(t.op, t.gen - 1)]]]

(* What the author's code, or a handler, makes a subgraph of. *)
MadeOf(s) == IF IsSubgraph(s) /\ s.try = 0 THEN TasksFor(Members(s.op), s.gen) ELSE {}

(* The first process: the graph was built and stored just before execute. *)
ResumeInit ==
    /\ graph = Build(EmptyGraph, FirstBuild, 0)
    /\ ops = StoredGraph(graph)
    /\ waiting_for = {} /\ finished_tasks = {} /\ failed_task = {} /\ timers = {}
    /\ redelivery = [due |-> {}, again |-> {}, handled |-> {}]
    /\ error = "none" /\ pc = "check"
    /\ state = [t \in Task |-> "pending"]
    /\ result = [t \in Task |-> "not_set"]
    /\ subtasks = [s \in Task |-> MadeOf(s)]
    /\ cancel_request = FALSE /\ deadline_passed = FALSE
    /\ restored = {} /\ overlooked = {} /\ resumed = 0

(* with_execute_after: execute_after is not stored, so a restored retry is *)
(* sent at once.                                                           *)
Apply(t) == Run(t) /\ (t \in restored => t \notin timers')

(* The task that a handler of t puts in its place, and stores: a retry, or *)
(* the subgraph it rebuilt -- not the tasks in that.                       *)
NewStored(t) ==
    {u \in graph'.tasks \ graph.tasks :
        u.op = t.op /\ (~IsSubgraph(t) \/ WithinRetries(t, t.gen))}

Kept == UNCHANGED <<restored, resumed, overlooked>>

Loop == /\ \/ \E t \in Task : \/ Apply(t) /\ Store({})
                              \/ Handle(t) /\ Store(NewStored(t))
           \/ (Check \/ RunDone \/ HandleDone) /\ Store({})
        /\ Kept

Answer(t)   == Finish(t) /\ Store({}) /\ Kept
Delayed(t)  == TimerFires(t) /\ Store({}) /\ Kept
CancelOrder == Cancel /\ Store({}) /\ Kept
WindowEnds  == DeadlinePasses /\ Store({}) /\ Kept

-----------------------------------------------------------------------------
(* Restoring the graph                                                     *)

(* A forced resume makes the manager set what failed back to pending,      *)
(* except what has a stored retry.                                         *)
Reset(stored) ==
    [t \in DOMAIN stored |->
        IF /\ stored[t].state \in {"failed", "rescheduled"}
           /\ t.try = MaxTry \/ Duplicate(t) \notin DOMAIN stored
        THEN [stored[t] EXCEPT !.state = "pending"] ELSE stored[t]]

(* Mutant: what had been sent is taken to be over. *)
LiveNotSent(stored) == {t \in DOMAIN stored : stored[t].state \in {"pending", "started"}}

Live(stored) == {t \in DOMAIN stored : stored[t].state \notin TERMINATED_STATES}

(* _restore_operations: what has not terminated, and the subgraphs around  *)
(* it, up the hierarchy, even those that have.                             *)
RestoredTasks(stored) ==
    LET live    == Live(stored)
        around  == {Container(t) : t \in {u \in live : Contained(u)}}
        beyond  == {Container(t) : t \in {u \in around : Contained(u)}}
    IN  live \cup around \cup beyond

(* Mutant: a dependency on a task that was retried goes to its first retry *)
(* although that was retried too.                                          *)
ActiveTargetOnce(stored, d) ==
    IF Duplicate(d) \in DOMAIN stored THEN Duplicate(d) ELSE d

(* _retrieve_active_target: the end of the chain of retries of d. *)
ActiveTarget(stored, d) ==
    LET chain == {u \in DOMAIN stored : u.op = d.op /\ u.gen = d.gen /\ u.try >= d.try}
    IN  IF chain = {} THEN d ELSE [d EXCEPT !.try = Max({u.try : u \in chain})]

(* _restore_dependencies, and add_task's edge to the restored container.   *)
RestoredEdges(stored, kept) ==
    {e \in kept \X kept :
        \/ Contained(e[1]) /\ e[2] = Container(e[1])
        \/ \E d \in stored[e[1]].dependencies :
               e[2] = IF d \in kept THEN d ELSE ActiveTarget(stored, d)}

(* Mutant: what is restored is in the graph, and not ready to be run. *)
RestoredGraphNotReady(stored) ==
    LET kept == RestoredTasks(stored)
    IN  [AddDependencies(AddTasks(EmptyGraph, kept), RestoredEdges(stored, kept))
            EXCEPT !.ready = {}]

RestoredGraph(stored) ==
    LET kept == RestoredTasks(stored)
    IN  AddDependencies(AddTasks(EmptyGraph, kept), RestoredEdges(stored, kept))

(* The state of each task as the store has it.  A subgraph around a live   *)
(* task has started -- one that has not, and is read before its tasks, is  *)
(* pending until it runs, where nothing asks --, and a task that is not    *)
(* stored is yet to be made.                                               *)
RestoredState(stored, kept) ==
    [t \in Task |->
        IF \E u \in kept : Contained(u) /\ Container(u) = t THEN "started"
        ELSE IF t \in DOMAIN stored THEN stored[t].state
        ELSE "pending"]

RestoredSubtasks(stored, kept) ==
    [s \in Task |-> IF s \in DOMAIN stored
                    THEN {t \in kept : Contained(t) /\ Container(t) = s}
                    ELSE MadeOf(s)]

-----------------------------------------------------------------------------
(* The cleanup before an install goes on                                   *)

(* The instance's state, as the tasks that set it left it. *)
Interrupted(s) ==
    /\ \E t \in DOMAIN ops : t.op = Entered[s] /\ ops[t].state = "succeeded"
    /\ \A t \in DOMAIN ops : t.op = Left[s] => ops[t].state # "succeeded"

(* Mutant: only an operation that was never tried is cleaned up after. *)
WouldResendFirst(s, kept, st) ==
    \E t \in kept : t.op = Resent[s] /\ ~Retry(t) /\ st[t] = "pending"

(* _would_resend *)
WouldResend(s, kept, st) ==
    \E t \in kept : t.op = Resent[s] /\ st[t] = "pending"

CleanedUp(kept, st) ==
    {s \in Installs : FirstTask(s, 0) \in kept /\ Interrupted(s) /\ WouldResend(s, kept, st)}

(* _run_subgraph_before: the cleanup waits for what the install waited     *)
(* for, and the install for the cleanup.  It is not stored: nothing of it  *)
(* outlives the process, and the next resume may build another one.        *)
WithCleanup(g, S) ==
    LET built    == Build(g, UNION {Inside(Cleanup[s]) : s \in S}, 0)
        first(s) == FirstTask(Cleanup[s], 0)
    IN  AddDependencies(built,
            UNION {({first(s)} \X g.dependencies[FirstTask(s, 0)])
                   \cup {<<FirstTask(s, 0), first(s)>>} : s \in S})

(* What failed, or is to be tried or polled again, with no stored task that *)
(* takes its place: the store does not say so, and neither a handler nor   *)
(* the subgraph around it will hear of it again.                           *)
NotActedOn(stored) ==
    {t \in DOMAIN stored :
        /\ stored[t].state \in TERMINATED_STATES
        /\ Duplicate(t) \notin DOMAIN stored
        /\ IF IsSubgraph(t) THEN stored[t].state = "failed" /\ Handler[t.op] # "ignore"
           ELSE Retries(t) \/ OperationFails(t)}

(* make_or_get_graph in a new process.  A graph whose stored task is in a  *)
(* subgraph that was never stored cannot be restored (KeyError).           *)
Restore(stored) ==
    LET kept == RestoredTasks(stored)
        st   == RestoredState(stored, kept)
    IN  IF kept \subseteq DOMAIN stored
        THEN /\ graph' = WithCleanup(RestoredGraph(stored), CleanedUp(kept, st))
             /\ state' = st
             /\ result' = [t \in Task |-> IF t \in DOMAIN stored \ kept THEN result[t]
                                          ELSE "not_set"]
             /\ subtasks' = RestoredSubtasks(stored, kept)
             /\ restored' = kept
             /\ error' = "none"
             /\ pc' = "check"
        ELSE /\ error' = "crashed"
             /\ pc' = "returned"
             /\ UNCHANGED <<graph, state, result, subtasks, restored>>

(* The tasks apply_async may be at when the process dies: it sets a remote *)
(* task to "sending" before it does anything else, and to "sent" when it   *)
(* is about to send it.                                                    *)
AboutToSend ==
    {t \in DOMAIN ops :
        /\ t.op \notin Subgraph \cup Nop \cup Local
        /\ ops[t].state = "pending" /\ ~cancel_request
        /\ \/ pc = "run" /\ error = "none" /\ t \in graph.ready
           \/ pc # "returned" /\ t \in timers}

(* The store of a process that dies while it sends those in hit: the main  *)
(* loop one, and the thread of each timer one.                             *)
LeftStored(hit) ==
    [t \in DOMAIN ops |-> IF t \in hit THEN [ops[t] EXCEPT !.state = "sending"]
                                       ELSE ops[t]]

(* The process dies, or the execution has ended in an error, and it is     *)
(* resumed; only a forced resume takes up an execution that has ended.     *)
Resume(forced) ==
    /\ resumed < MaxResume
    /\ error # "crashed"
    /\ pc = "returned" => forced /\ error # "none"
    /\ \E hit \in SUBSET AboutToSend :
          /\ Cardinality(hit \cap graph.ready) <= 1
          /\ LET stored == IF forced THEN Reset(LeftStored(hit)) ELSE LeftStored(hit)
             IN  /\ ops' = stored
                 /\ Restore(stored)
                 /\ overlooked' = overlooked \cup NotActedOn(stored)
    /\ waiting_for' = {}
    /\ finished_tasks' = {}
    /\ failed_task' = {}
    /\ timers' = {}
    /\ cancel_request' = FALSE
    /\ deadline_passed' = FALSE
    /\ resumed' = resumed + 1
    /\ redelivery' = redelivery

ResumeNext == \/ Loop
              \/ \E t \in Task : Answer(t) \/ Delayed(t)
              \/ CancelOrder
              \/ WindowEnds
              \/ \E forced \in BOOLEAN : Resume(forced)

ResumeSpec == ResumeInit /\ [][ResumeNext]_rvars

(* Fairness: the main loop goes round, and while something is in flight    *)
(* something answers at last.  Nothing makes a process die, or be resumed. *)
ResumeFairSpec == /\ ResumeSpec
                  /\ WF_rvars(Loop)
                  /\ WF_rvars(\E t \in Task : Answer(t) \/ Delayed(t))
                  /\ WF_rvars(WindowEnds)

-----------------------------------------------------------------------------
Resuming == resumed' # resumed /\ error' # "crashed"

(* The store says nothing of what o came to at the time of a resume. *)
Overlooked(o) == \E u \in overlooked : u.op = o

(* Order holds across processes.  What was stored when the process died is *)
(* what goes on: every task of the first build that had not ended is in    *)
(* the restored graph, still in its subgraph, and still waits for each     *)
(* task it waited for -- a retry, if that was retried since the edge was   *)
(* stored.  And in whichever process a task is first applied, what the     *)
(* author made it depend on has come to a good end, or a resume could not  *)
(* know that it had not (_restore_operations, _restore_dependencies).      *)
(* (A retry is stored without what the attempt before it had waited for.)  *)
OrderSurvivesResume ==
    [][ /\ Resuming =>
              \A t \in graph.tasks :
                  state[t] \notin TERMINATED_STATES /\ t.op \in FirstBuild /\ t.gen = 0 =>
                      /\ t \in graph'.tasks
                      /\ Contained(t) => t \in subtasks'[Container(t)]
                      /\ \A d \in graph.dependencies[t] \cap restored' :
                            d.gen = 0 => d \in graph'.dependencies[t]
        /\ \A o \in FirstBuild : Applied(FirstTask(o, 0)) =>
              \A e \in Needs : e[1] = o =>
                  \/ SettledIn(e[2], Builds(FirstTask(o, 0), e[2]))
                  \/ Overlooked(e[2])]_rvars

(* An operation of the graph as it was first built that has succeeded.     *)
(* Only its cleanup may be done twice, and a NOP, which is never stored.   *)
Done(u) ==
    /\ u.gen = 0 /\ u.op \notin Subgraph \cup Nop \cup CleanupOps
    /\ state[u] = "succeeded" /\ ~PollsAgain(u)

(* What is done stays done: through retries, crashes and resumes no later  *)
(* process takes an operation that has succeeded for one that has not, and *)
(* none applies it, or any other attempt at it, again.                     *)
DoneOnce ==
    [][\A u \in Task : Done(u) =>
         /\ Done(u)'
         /\ ~ \E t \in Task : Applied(t) /\ t.op = u.op /\ t.gen = u.gen]_rvars

(* _update_resumed_install's docstring: "if we are going to re-send the    *)
(* create operation, send delete first".  An install that was resumed while *)
(* its instance was being created sends a create that was pending only     *)
(* after the cleanup; not if an earlier resume overlooked that create had  *)
(* failed, and the state of the instance went on.  (Against the docstring, *)
(* a create that a process was sending as it died is sent again without:   *)
(* apply_async takes TASK_SENDING too, _would_resend TASK_PENDING alone.)  *)
CleanupComesFirst ==
    [][\A s \in Installs, t \in restored :
         /\ Applied(t) /\ t.op = Resent[s] /\ state[t] = "pending"
         /\ \A u \in restored : u.op # Entered[s]
         /\ ~Overlooked(t.op)
         => SettledIn(Cleanup[s], {0})]_rvars

(* An execution that ends without an error, in whichever process, has      *)
(* brought everything at top level to a good end, but for what a resume    *)
(* could not know.                                                         *)
ResumedIsComplete ==
    pc = "returned" /\ error = "none" =>
        \A o \in FirstBuild : Parent[o] = NoOp =>
            SettledIn(o, 0..MaxGen) \/ Overlooked(o)

(* A restored graph has all that its tasks wait for: every process that is *)
(* not killed comes to the end of execute(), or waits for an orphan.       *)
ResumedEnds == <>[](pc = "returned") \/ <>[]Orphaned
=============================================================================
