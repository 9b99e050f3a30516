------------------------- MODULE ResumeGraphProofs -------------------------
(***************************************************************************)
(* Theorems about executions that are resumed with the graph as it was     *)
(* stored, for every workflow.                                             *)
(***************************************************************************)
EXTENDS ResumeGraph, TasksGraphProofs

-----------------------------------------------------------------------------
(* What the store says of the first build *)

(* The tasks of the graph as it was first stored, and their retries: no    *)
(* subgraph that a handler rebuilt, and no cleanup.  Plain ones are        *)
(* operations.                                                             *)
Tracked(t) == t.gen = 0 /\ t.op \notin CleanupOps
Plain(t)   == Tracked(t) /\ ~IsSubgraph(t)

StoreTyped ==
    /\ DOMAIN ops \subseteq Task
    /\ ops \in [DOMAIN ops -> [state : State, dependencies : SUBSET Task]]
    /\ restored \subseteq Task

(* The attempts that led to a stored one are stored. *)
ChainStored(t) ==
    t \in DOMAIN ops => \A k \in 0..t.try : [t EXCEPT !.try = k] \in DOMAIN ops

(* What was tried again had ended, and not for good. *)
RetriedEnded(t) ==
    t \in DOMAIN ops /\ Duplicate(t) \in DOMAIN ops =>
        /\ ops[t].state \in TERMINATED_STATES
        /\ ops[t].state = "succeeded" => PollsAgain(t)

(* What has succeeded is stored as such, but for a NOP, whose state is not *)
(* stored.                                                                 *)
GoodStored(t) ==
    /\ t.op \notin Nop /\ state[t] = "succeeded" =>
           t \in DOMAIN ops /\ ops[t].state = "succeeded"
    /\ t \notin DOMAIN ops => state[t] = "pending"

NopPending(t) ==
    t.op \in Nop => /\ state[t] \in {"pending", "succeeded"}
                    /\ t \in DOMAIN ops => ops[t].state = "pending"

(* What the main loop still has to do with is the last attempt stored.     *)
LastStored(t) ==
    t \in Alive => t \in DOMAIN ops /\ Duplicate(t) \notin DOMAIN ops

(* What was not applied in this process has not ended in any. *)
NotEnded(t) ==
    t \in graph.tasks \ waiting_for =>
        state[t] \notin TERMINATED_STATES /\ (t \notin restored => state[t] = "pending")

(* The end that waits to be handled is stored. *)
EndStored(t) ==
    t \in finished_tasks =>
        /\ t \in waiting_for /\ t \notin timers /\ state[t] \in TERMINATED_STATES
        /\ IF t.op \in Nop THEN result[t] = "value" ELSE t \in DOMAIN ops => ops[t].state = state[t]

TimerPending(t) == t \in timers => t \in waiting_for /\ state[t] = "pending"

TaskStored(t) ==
    /\ ChainStored(t) /\ RetriedEnded(t) /\ GoodStored(t) /\ NopPending(t)
    /\ LastStored(t) /\ NotEnded(t) /\ EndStored(t) /\ TimerPending(t)

(* While the loop runs, what is ready can run, what was applied waits for  *)
(* nothing, a subgraph yet to be applied has all its tasks in the graph,   *)
(* and they wait for it.                                                   *)
TrackedReady ==
    \A t \in graph.ready : Tracked(t) =>
        t \in graph.tasks /\ graph.dependencies[t] = {} /\ t \notin waiting_for

TrackedApplied ==
    \A t \in waiting_for : Tracked(t) =>
        /\ graph.dependencies[t] = {}
        /\ Contained(t) => Container(t) \notin graph.tasks \ waiting_for

TrackedThere ==
    \A s \in graph.tasks \ waiting_for : Tracked(s) => subtasks[s] \subseteq graph.tasks

TrackedHeld ==
    \A t \in graph.tasks :
        Tracked(t) /\ Contained(t) /\ Container(t) \in graph.tasks \ waiting_for =>
            Container(t) \in graph.dependencies[t]

RunInv == TrackedReady /\ TrackedApplied /\ TrackedThere /\ TrackedHeld

ResumeInv ==
    /\ StoreTyped
    /\ error = "crashed" => pc = "returned"
    /\ error # "crashed" => ListsOwn /\ \A t \in Task : Plain(t) => TaskStored(t)
    /\ error = "none" => RunInv

(* A task is tracked just when its container is. *)
LEMMA TrackedShape ==
    ASSUME NEW t \in Task, Contained(t)
    PROVE  Tracked(t) <=> Tracked(Container(t))
<1>1. /\ t.op \in Op /\ Parent[t.op] \in Subgraph /\ Subgraph \subseteq Op
      /\ Container(t).op = Parent[t.op] /\ Container(t).gen = t.gen
  BY TaskFields, ContainerShape, WorkflowAssumption DEF Contained
<1>2. \A s \in Installs : /\ Cleanup[s] \in Op
                          /\ Parent[Cleanup[s]] = NoOp
  BY <1>1, ResumeAssumption
<1>3. t.op \in CleanupOps <=> \E s \in Installs : t.op \in Inside(Cleanup[s])
  BY DEF CleanupOps
<1>4. Parent[t.op] \in CleanupOps <=> \E s \in Installs : Parent[t.op] \in Inside(Cleanup[s])
  BY DEF CleanupOps
<1>5. ASSUME NEW s \in Installs
      PROVE  t.op \in Inside(Cleanup[s]) <=> Parent[t.op] \in Inside(Cleanup[s])
  <2>1. t.op # Cleanup[s]
    BY <1>2 DEF Contained
  <2>2. ASSUME Parent[t.op] \in Inside(Cleanup[s]) PROVE t.op \in Inside(Cleanup[s])
    <3>1. ~ (Parent[Parent[t.op]] \in Subgraph /\ Parent[Parent[Parent[t.op]]] = Cleanup[s])
      BY <1>1, <1>2, NestingAssumption, WorkflowAssumption
    <3> QED
      BY <1>1, <2>2, <3>1 DEF Inside
  <2>3. ASSUME t.op \in Inside(Cleanup[s]) PROVE Parent[t.op] \in Inside(Cleanup[s])
    BY <1>1, <2>1, <2>3 DEF Inside
  <2> QED
    BY <2>2, <2>3
<1>6. t.op \in CleanupOps <=> Parent[t.op] \in CleanupOps
  BY <1>3, <1>4, <1>5
<1> QED
  BY <1>1, <1>6 DEF Tracked

(* The state of a subgraph that is applied is set, and may stay the same. *)
Restarted(t) == IsSubgraph(t) /\ t \in waiting_for' \ waiting_for

(* What a step stores. *)
LEMMA StoreEffect ==
    ASSUME TypeOK, StoreTyped, state' \in [Task -> State], UNCHANGED restored,
           NEW new \in SUBSET Task, Store(new),
           \A t \in new : t.try > 0 \/ t.gen > 0
    PROVE  /\ StoreTyped'
           /\ DOMAIN ops' = DOMAIN ops \cup new
           /\ \A t \in DOMAIN ops : ~Restarted(t) =>
                 ops'[t].state = IF state'[t] # state[t] /\ ~Unstored(t, state'[t])
                                 THEN state'[t] ELSE ops[t].state
           /\ \A t \in DOMAIN ops : Restarted(t) /\ ~Unstored(t, state'[t]) =>
                 ops'[t].state = state'[t]
           /\ \A t \in new \ DOMAIN ops : ops'[t].state = "pending"
<1> DEFINE Entry(t) ==
        IF t \in DOMAIN ops
        THEN IF StateSet(t) /\ ~Unstored(t, state'[t])
             THEN [ops[t] EXCEPT !.state = state'[t]] ELSE ops[t]
        ELSE [state |-> "pending",
              dependencies |-> IF Retry(t) THEN graph.dependencies[Retried(t)]
                               ELSE graph.dependencies[FirstTask(t.op, t.gen - 1)]]
<1>1. ops' = [t \in DOMAIN ops \cup new |-> Entry(t)]
  BY DEF Store
<1>2. DOMAIN ops' = DOMAIN ops \cup new /\ \A t \in DOMAIN ops \cup new : ops'[t] = Entry(t)
  BY <1>1
<1> DEFINE Type == [state : State, dependencies : SUBSET Task]
<1>3. ASSUME NEW t \in DOMAIN ops
      PROVE  /\ Entry(t) \in Type
             /\ Entry(t).state = IF StateSet(t) /\ ~Unstored(t, state'[t])
                                 THEN state'[t] ELSE ops[t].state
  <2>1. t \in Task /\ ops[t] \in Type /\ state'[t] \in State
    BY <1>3 DEF StoreTyped
  <2>2. CASE StateSet(t) /\ ~Unstored(t, state'[t])
    <3>1. Entry(t) = [ops[t] EXCEPT !.state = state'[t]]
      BY <1>3, <2>2
    <3>2. /\ [ops[t] EXCEPT !.state = state'[t]] \in Type
          /\ [ops[t] EXCEPT !.state = state'[t]].state = state'[t]
      BY <2>1
    <3> QED
      BY <2>2, <3>1, <3>2
  <2>3. CASE ~(StateSet(t) /\ ~Unstored(t, state'[t]))
    BY <2>1, <2>3
  <2> QED
    BY <2>2, <2>3
<1>4. ASSUME NEW t \in new \ DOMAIN ops
      PROVE  Entry(t) \in Type /\ Entry(t).state = "pending"
  <2>1. /\ t \in Task /\ t.op \in Op /\ t.gen \in 0..MaxGen /\ t.try \in 0..MaxTry
        /\ graph.dependencies \in [Task -> SUBSET Task] /\ "pending" \in State
    BY <1>4, TaskFields DEF TypeOK, GraphType, State
  <2>2. Retry(t) => Retried(t) \in Task
    BY <2>1, BoundAssumption, TaskAssumption DEF Retry, Retried
  <2>3. ~Retry(t) => FirstTask(t.op, t.gen - 1) \in Task
    BY <1>4, <2>1, FirstTaskIsTask, BoundAssumption DEF Retry
  <2> DEFINE Deps == IF Retry(t) THEN graph.dependencies[Retried(t)]
                     ELSE graph.dependencies[FirstTask(t.op, t.gen - 1)]
  <2>4. Deps \in SUBSET Task
    BY <2>1, <2>2, <2>3
  <2>5. Entry(t) = [state |-> "pending", dependencies |-> Deps]
    BY <1>4
  <2> HIDE DEF Deps, Entry
  <2> QED
    BY <2>1, <2>4, <2>5
<1> HIDE DEF Entry
<1>5. \A t \in DOMAIN ops' : ops'[t] \in Type
  BY <1>2, <1>3, <1>4
<1>7. ops' \in [DOMAIN ops' -> Type]
  BY <1>1, <1>2, <1>5
<1>8. StoreTyped'
  BY <1>2, <1>7 DEF StoreTyped
<1> QED
  BY <1>2, <1>3, <1>4, <1>8 DEF StateSet, Restarted

(* A step that leaves a task alone leaves what is stored of it true. *)
LEMMA Untouched ==
    ASSUME NEW t \in Task, TaskStored(t),
           DOMAIN ops \subseteq DOMAIN ops',
           t \in DOMAIN ops' => t \in DOMAIN ops,
           Duplicate(t) \in DOMAIN ops' => Duplicate(t) \in DOMAIN ops,
           t \in DOMAIN ops => ops'[t].state = ops[t].state,
           state'[t] = state[t], result'[t] = result[t],
           t \in graph'.tasks => t \in graph.tasks,
           t \in waiting_for' => t \in waiting_for,
           t \in graph'.tasks \ waiting_for' => t \notin waiting_for,
           t \in finished_tasks' => t \in finished_tasks /\ t \in waiting_for',
           t \in timers' => t \in timers /\ t \in waiting_for',
           t \in restored' <=> t \in restored
    PROVE  TaskStored(t)'
<1>1. ChainStored(t)'
  BY DEF TaskStored, ChainStored
<1>2. RetriedEnded(t)'
  BY DEF TaskStored, RetriedEnded, PollsAgain
<1>3. GoodStored(t)' /\ NopPending(t)'
  BY DEF TaskStored, GoodStored, NopPending
<1>4. LastStored(t)'
  BY DEF TaskStored, LastStored, Alive
<1>5. NotEnded(t)'
  BY DEF TaskStored, NotEnded
<1>6. EndStored(t)'
  BY DEF TaskStored, EndStored
<1>7. TimerPending(t)'
  BY DEF TaskStored, TimerPending
<1> QED
  BY <1>1, <1>2, <1>3, <1>4, <1>5, <1>6, <1>7 DEF TaskStored

-----------------------------------------------------------------------------
(* Handlers that take tracked tasks out of the graph *)

(* Of its tracked tasks h has those of g but R.  What waits for nothing    *)
(* goes on doing so, and what waits goes on waiting for what is left.      *)
Sheds(g, h, R) ==
    \A t \in Task : Tracked(t) =>
        /\ t \in h.tasks <=> t \in g.tasks \ R
        /\ t \in h.ready => /\ t \notin R \cap g.tasks
                            /\ \/ t \in g.ready
                               \/ g.dependencies[t] # {} /\ h.dependencies[t] = {}
        /\ g.dependencies[t] = {} => h.dependencies[t] = {}
        /\ t \notin R => g.dependencies[t] \ R \subseteq h.dependencies[t]

LEMMA ShedsThen ==
    ASSUME NEW g, NEW h, NEW k, NEW R, NEW Q, Sheds(g, h, R), Sheds(h, k, Q),
           Consistent(h)
    PROVE  Sheds(g, k, R \cup Q)
<1> SUFFICES ASSUME NEW t \in Task, Tracked(t)
             PROVE  /\ t \in k.tasks <=> t \in g.tasks \ (R \cup Q)
                    /\ t \in k.ready => /\ t \notin (R \cup Q) \cap g.tasks
                                        /\ \/ t \in g.ready
                                           \/ g.dependencies[t] # {} /\ k.dependencies[t] = {}
                    /\ g.dependencies[t] = {} => k.dependencies[t] = {}
                    /\ t \notin R \cup Q => g.dependencies[t] \ (R \cup Q) \subseteq k.dependencies[t]
  BY DEF Sheds
<1>1. /\ t \in h.tasks <=> t \in g.tasks \ R
      /\ t \in h.ready => /\ t \notin R \cap g.tasks
                          /\ \/ t \in g.ready
                             \/ g.dependencies[t] # {} /\ h.dependencies[t] = {}
      /\ g.dependencies[t] = {} => h.dependencies[t] = {}
      /\ t \notin R => g.dependencies[t] \ R \subseteq h.dependencies[t]
  BY DEF Sheds
<1>2. /\ t \in k.tasks <=> t \in h.tasks \ Q
      /\ t \in k.ready => /\ t \notin Q \cap h.tasks
                          /\ \/ t \in h.ready
                             \/ h.dependencies[t] # {} /\ k.dependencies[t] = {}
      /\ h.dependencies[t] = {} => k.dependencies[t] = {}
      /\ t \notin Q => h.dependencies[t] \ Q \subseteq k.dependencies[t]
  BY DEF Sheds
<1>3. t \in k.tasks <=> t \in g.tasks \ (R \cup Q)
  BY <1>1, <1>2
<1>4. g.dependencies[t] = {} => k.dependencies[t] = {}
  BY <1>1, <1>2
<1>5. t \notin R \cup Q => g.dependencies[t] \ (R \cup Q) \subseteq k.dependencies[t]
  BY <1>1, <1>2
<1>6. ASSUME t \in k.ready
      PROVE  /\ t \notin (R \cup Q) \cap g.tasks
             /\ t \in g.ready \/ (g.dependencies[t] # {} /\ k.dependencies[t] = {})
  <2>1. t \notin (R \cup Q) \cap g.tasks
    <3>1. h.dependencies[t] # {} => t \in h.tasks
      BY DEF Consistent, EdgesInside, GraphType
    <3> QED
      BY <1>1, <1>2, <1>6, <3>1
  <2>2. t \in g.ready \/ (g.dependencies[t] # {} /\ k.dependencies[t] = {})
    BY <1>1, <1>2, <1>6, Zenon
  <2> QED
    BY <2>1, <2>2
<1> QED
  BY <1>3, <1>4, <1>5, <1>6

(* remove_task *)
LEMMA ShedsRemoved ==
    ASSUME NEW g, Consistent(g), NEW R \in SUBSET Task
    PROVE  /\ Sheds(g, RemoveTasks(g, R), R)
           /\ Consistent(RemoveTasks(g, R))
<1> DEFINE gone == R \cap g.tasks
           cut(t) == {x \in gone : t \in g.dependents[x]}
           h == RemoveTasks(g, R)
<1>1. Consistent(h) /\ h.tasks = g.tasks \ R
  BY RemoveTasksConsistent
<1>2. \A t \in Task : cut(t) = g.dependencies[t] \cap R
  BY DEF Consistent, GraphType, Mirrored, EdgesInside
<1>3. \A t \in Task : h.dependencies[t] = IF t \in gone THEN {} ELSE g.dependencies[t] \ cut(t)
  BY DEF RemoveTasks
<1>4. h.ready = (g.ready \cup {t \in Task : cut(t) # {} /\ g.dependencies[t] \subseteq cut(t)}) \ gone
  BY DEF RemoveTasks
<1> HIDE DEF h, cut
<1>5. ASSUME NEW t \in Task
      PROVE  /\ t \in h.tasks <=> t \in g.tasks \ R
             /\ t \in h.ready => /\ t \notin R \cap g.tasks
                                 /\ \/ t \in g.ready
                                    \/ g.dependencies[t] # {} /\ h.dependencies[t] = {}
             /\ g.dependencies[t] = {} => h.dependencies[t] = {}
             /\ t \notin R => g.dependencies[t] \ R \subseteq h.dependencies[t]
  BY <1>1, <1>2, <1>3, <1>4
<1> QED
  BY <1>1, <1>5 DEF Sheds, h

(* The build of a subgraph anew: no task of it is of the first build. *)
LEMMA ShedsBuilt ==
    ASSUME NEW g, Consistent(g), NEW O \in SUBSET Op, NEW n \in 0..MaxGen, n # 0
    PROVE  /\ Sheds(g, Build(g, O, n), {})
           /\ Consistent(Build(g, O, n))
           /\ Build(g, O, n).tasks = g.tasks \cup TasksFor(O, n)
<1>1. /\ Consistent(Build(g, O, n))
      /\ Build(g, O, n).tasks = g.tasks \cup TasksFor(O, n)
  BY BuildConsistent
<1> DEFINE a == AddTasks(g, TasksFor(O, n))
           h == AddDependencies(a, EdgesFor(O, n))
<1>2. \A t \in Task : t.gen = 0 => t \notin TasksFor(O, n) /\ \A d : <<t, d>> \notin EdgesFor(O, n)
  BY DEF TasksFor, EdgesFor, FirstTask
<1>3. /\ a.tasks = g.tasks \cup TasksFor(O, n) /\ a.ready = g.ready \cup TasksFor(O, n)
      /\ a.dependencies = g.dependencies /\ g.dependencies \in [Task -> SUBSET Task]
  BY DEF AddTasks, Consistent, GraphType
<1>4. /\ h.tasks = a.tasks
      /\ \A t \in Task : h.dependencies[t] =
             a.dependencies[t] \cup {d \in Task \ {t} : <<t, d>> \in EdgesFor(O, n)}
      /\ h.ready \subseteq a.ready
  BY DEF AddDependencies
<1> HIDE DEF a, h
<1>5. ASSUME NEW t \in Task, t.gen = 0
      PROVE  /\ t \in h.tasks <=> t \in g.tasks
             /\ t \in h.ready => t \in g.ready
             /\ h.dependencies[t] = g.dependencies[t]
  <2>1. t \notin TasksFor(O, n) /\ {d \in Task \ {t} : <<t, d>> \in EdgesFor(O, n)} = {}
    BY <1>2, <1>5
  <2> QED
    BY <1>3, <1>4, <2>1
<1>6. Sheds(g, h, {})
  BY <1>5 DEF Sheds, Tracked
<1> QED
  BY <1>1, <1>6 DEF Build, h, a

(* A task that is not tracked takes the place of another. *)
LEMMA ShedsTakenOver ==
    ASSUME NEW g, Consistent(g), NEW old \in Task, NEW new \in Task, ~Tracked(new)
    PROVE  /\ Sheds(g, TakeOver(g, old, new), {})
           /\ Consistent(TakeOver(g, old, new))
           /\ TakeOver(g, old, new).tasks = g.tasks \cup {new}
<1> DEFINE E == ({new} \X g.dependencies[old]) \cup (g.dependents[old] \X {new})
           a == AddTasks(g, {new})
           h == AddDependencies(a, E)
<1>1. /\ Consistent(TakeOver(g, old, new))
      /\ TakeOver(g, old, new).tasks = g.tasks \cup {new}
  BY TakeOverConsistent
<1>2. /\ a.tasks = g.tasks \cup {new} /\ a.ready = g.ready \cup {new}
      /\ a.dependencies = g.dependencies
      /\ g.dependencies \in [Task -> SUBSET Task] /\ g.dependents \in [Task -> SUBSET Task]
  BY DEF AddTasks, Consistent, GraphType
<1>3. /\ h.tasks = a.tasks
      /\ \A t \in Task : h.dependencies[t] = a.dependencies[t] \cup {d \in Task \ {t} : <<t, d>> \in E}
      /\ h.ready = a.ready \ {t \in Task : \E d \in Task \ {t} : <<t, d>> \in E}
  BY DEF AddDependencies
<1>4. \A t \in Task \ {new} : \A d : <<t, d>> \in E <=> d = new /\ t \in g.dependents[old]
  OBVIOUS
<1>5. \A t \in Task : t \in g.dependents[old] => g.dependencies[t] # {}
  BY DEF Consistent, Mirrored
<1> HIDE DEF a, h, E
<1>6. ASSUME NEW t \in Task, t # new
      PROVE  /\ t \in h.tasks <=> t \in g.tasks
             /\ t \in h.ready => t \in g.ready
             /\ g.dependencies[t] \subseteq h.dependencies[t]
             /\ g.dependencies[t] = {} => h.dependencies[t] = {}
  <2>1. h.dependencies[t] = g.dependencies[t] \cup {d \in Task \ {t} : <<t, d>> \in E}
    BY <1>2, <1>3
  <2>2. g.dependencies[t] = {} => {d \in Task \ {t} : <<t, d>> \in E} = {}
    BY <1>4, <1>5, <1>6
  <2> QED
    BY <1>2, <1>3, <1>6, <2>1, <2>2
<1>7. Sheds(g, h, {})
  BY <1>6 DEF Sheds
<1> QED
  BY <1>1, <1>7 DEF TakeOver, h, a, E

(* A step of a handler of t that takes R, with t, out of the graph and     *)
(* changes no tracked operation.                                           *)
LEMMA DropKeeps ==
    ASSUME ConsistencyInv, ConsistencyInv', ResumeInv,
           error # "crashed", error' # "crashed", error' = "none" => error = "none",
           NEW t \in finished_tasks, waiting_for' = waiting_for \ {t},
           UNCHANGED <<result, timers, restored>>,
           NEW new \in SUBSET Task, Store(new),
           \A u \in new : ~Tracked(u) /\ (u.try > 0 \/ u.gen > 0),
           NEW R, t \in R, Sheds(graph, graph', R),
           \A u \in R : u # t => Contained(u) /\ Container(u) \in R,
           \A u \in Task : Plain(u) =>
               state'[u] = state[u] /\ (u \in finished_tasks' => u \in finished_tasks /\ u # t),
           ListsOwn',
           \A s \in Task : Tracked(s) => subtasks'[s] \subseteq subtasks[s] /\ t \notin subtasks'[s]
    PROVE  ResumeInv'
<1>1. /\ TypeOK /\ StoreTyped /\ state' \in [Task -> State] /\ t \in Task
      /\ ListsOwn /\ \A u \in Task : Plain(u) => TaskStored(u)
      /\ graph.tasks \subseteq Task /\ waiting_for \subseteq Task
      /\ graph'.tasks \subseteq Task
  BY DEF ResumeInv, ConsistencyInv, TypeOK, GraphType
<1>2. /\ StoreTyped'
      /\ DOMAIN ops' = DOMAIN ops \cup new
      /\ \A u \in DOMAIN ops :
            ops'[u].state = IF state'[u] # state[u] /\ ~Unstored(u, state'[u])
                            THEN state'[u] ELSE ops[u].state
  BY <1>1, StoreEffect DEF Restarted
<1>3. \A u \in Task : Tracked(u) =>
          /\ u \in graph'.tasks <=> u \in graph.tasks \ R
          /\ u \in graph'.ready => /\ u \notin R \cap graph.tasks
                                   /\ \/ u \in graph.ready
                                      \/ graph.dependencies[u] # {} /\ graph'.dependencies[u] = {}
          /\ graph.dependencies[u] = {} => graph'.dependencies[u] = {}
          /\ u \notin R => graph.dependencies[u] \ R \subseteq graph'.dependencies[u]
  BY DEF Sheds
<1>4. ASSUME NEW u \in Task, Plain(u)
      PROVE  TaskStored(u)'
  <2>1. /\ TaskStored(u) /\ Tracked(u) /\ state'[u] = state[u]
        /\ u \in finished_tasks' => u \in finished_tasks /\ u # t
    BY <1>1, <1>4 DEF Plain
  <2>2. u \notin new /\ Duplicate(u) \notin new
    BY <2>1, TaskAssumption DEF Tracked, Duplicate
  <2>3. u \in finished_tasks => u \in waiting_for /\ u \notin timers
    BY <2>1 DEF TaskStored, EndStored
  <2>4. u \in timers => u \in waiting_for
    BY <2>1 DEF TaskStored, TimerPending
  <2>5. u \in DOMAIN ops => ops'[u].state = ops[u].state
    BY <1>2, <2>1
  <2> QED
    BY <1>2, <1>3, <2>1, <2>2, <2>3, <2>4, <2>5, Untouched
<1>5. ASSUME error' = "none"
      PROVE  RunInv'
  <2>1. RunInv
    BY <1>5 DEF ResumeInv
  <2>2. TrackedReady'
    <3> SUFFICES ASSUME NEW u \in graph'.ready, Tracked(u)
                 PROVE  /\ u \in graph'.tasks /\ graph'.dependencies[u] = {}
                        /\ u \notin waiting_for'
      BY DEF TrackedReady, Tracked
    <3>1. u \in Task
      BY DEF ConsistencyInv, TypeOK, GraphType
    <3>2. CASE u \in graph.ready
      <4>1. u \in graph.tasks /\ graph.dependencies[u] = {} /\ u \notin waiting_for
        BY <2>1, <3>2 DEF RunInv, TrackedReady
      <4> QED
        BY <1>3, <3>1, <4>1
    <3>3. CASE graph.dependencies[u] # {} /\ graph'.dependencies[u] = {}
      <4>1. u \in graph.tasks
        BY <3>1, <3>3 DEF ConsistencyInv, Consistent, EdgesInside
      <4>2. u \notin waiting_for
        BY <2>1, <3>3 DEF RunInv, TrackedApplied
      <4> QED
        BY <1>3, <3>1, <3>3, <4>1, <4>2
    <3> QED
      BY <1>3, <3>1, <3>2, <3>3
  <2>3. TrackedApplied'
    <3> SUFFICES ASSUME NEW u \in waiting_for', Tracked(u)
                 PROVE  /\ graph'.dependencies[u] = {}
                        /\ Contained(u) => Container(u) \notin graph'.tasks \ waiting_for'
      BY DEF TrackedApplied, Tracked, Contained, Container
    <3>1. /\ u \in Task /\ u \in waiting_for /\ graph.dependencies[u] = {}
          /\ Contained(u) => Container(u) \notin graph.tasks \ waiting_for
      BY <1>1, <2>1 DEF RunInv, TrackedApplied
    <3>2. ASSUME Contained(u) PROVE Container(u) \notin graph'.tasks \ waiting_for'
      <4>1. Tracked(Container(u)) /\ Container(u) \in Task
        BY <3>1, <3>2, TrackedShape, ContainerShape
      <4> QED
        BY <1>3, <3>1, <3>2, <4>1
    <3> QED
      BY <1>3, <3>1, <3>2
  <2>4. TrackedThere'
    <3> SUFFICES ASSUME NEW s \in graph'.tasks \ waiting_for', Tracked(s),
                        NEW x \in subtasks'[s]
                 PROVE  x \in graph'.tasks
      BY DEF TrackedThere, Tracked
    <3>1. s \in Task /\ s \in graph.tasks \ R
      BY <1>1, <1>3
    <3>2. s \in graph.tasks \ waiting_for
      BY <3>1
    <3>3. x \in subtasks[s] /\ x # t
      BY <3>1
    <3>4. x \in graph.tasks /\ Contained(x) /\ Container(x) = s /\ x \in Task
      BY <1>1, <2>1, <3>2, <3>3 DEF RunInv, TrackedThere, ListsOwn
    <3>5. x \notin R /\ Tracked(x)
      BY <3>1, <3>3, <3>4, TrackedShape
    <3> QED
      BY <1>3, <3>4, <3>5
  <2>5. TrackedHeld'
    <3> SUFFICES ASSUME NEW u \in graph'.tasks, Tracked(u), Contained(u),
                        Container(u) \in graph'.tasks \ waiting_for'
                 PROVE  Container(u) \in graph'.dependencies[u]
      BY DEF TrackedHeld, Tracked, Contained, Container
    <3>1. /\ u \in Task /\ u \in graph.tasks \ R
          /\ Tracked(Container(u)) /\ Container(u) \in Task
      BY <1>1, <1>3, TrackedShape, ContainerShape
    <3>2. Container(u) \in graph.tasks \ R
      BY <1>3, <3>1
    <3>3. Container(u) \in graph.dependencies[u]
      BY <2>1, <3>1, <3>2 DEF RunInv, TrackedHeld
    <3> QED
      BY <1>3, <3>1, <3>2, <3>3
  <2> QED
    BY <2>2, <2>3, <2>4, <2>5 DEF RunInv
<1>6. \A u \in Task : Plain(u)' <=> Plain(u)
  BY DEF Plain, Tracked, IsSubgraph
<1> QED
  BY <1>2, <1>4, <1>5, <1>6 DEF ResumeInv

(* All that is removed with a task is in something that is. *)
LEMMA UnderOwned ==
    ASSUME TypeOK, ListsOwn, NEW t \in Task
    PROVE  \A u \in Under(t) : u # t => Contained(u) /\ Container(u) \in Under(t)
<1> SUFFICES ASSUME NEW u \in Under(t), u # t
             PROVE  Contained(u) /\ Container(u) \in Under(t)
  OBVIOUS
<1>1. CASE u \in subtasks[t]
  BY <1>1 DEF Under, ListsOwn
<1>2. CASE \E v \in subtasks[t] : u \in subtasks[v]
  <2>1. PICK v \in subtasks[t] : u \in subtasks[v]
    BY <1>2
  <2>2. v \in Task /\ v \in Under(t)
    BY DEF TypeOK, Under
  <2> QED
    BY <2>1, <2>2 DEF ListsOwn
<1> QED
  BY <1>1, <1>2 DEF Under

(* What the container is told changes no operation's state, and what it    *)
(* lists is in it.                                                         *)
LEMMA ContainerTold ==
    ASSUME TypeOK, ListsOwn, NEW t \in Task,
           NEW fails \in BOOLEAN, NEW retried \in SUBSET Task,
           TellContainer(t, fails, retried), t \notin retried,
           Contained(t) => \A u \in retried : Contained(u) /\ Container(u) = Container(t)
    PROVE  /\ \A u \in Task : ~IsSubgraph(u) =>
                 state'[u] = state[u] /\ (u \in finished_tasks' => u \in finished_tasks /\ u # t)
           /\ ListsOwn'
           /\ \A s \in Task :
                 /\ t \notin subtasks'[s]
                 /\ subtasks'[s] \subseteq
                        subtasks[s] \cup (IF Contained(t) /\ s = Container(t) THEN retried ELSE {})
                 /\ ~ (Contained(t) /\ s = Container(t)) => subtasks'[s] = subtasks[s]
<1>1. CASE ~Contained(t)
  <2>1. /\ finished_tasks' = finished_tasks \ {t}
        /\ UNCHANGED <<state, subtasks, failed_task>>
    BY <1>1 DEF TellContainer
  <2>2. \A s \in Task : t \notin subtasks[s]
    BY <1>1 DEF ListsOwn
  <2> QED
    BY <1>1, <2>1, <2>2 DEF ListsOwn, Contained, Container
<1>2. CASE Contained(t)
  <2> DEFINE c == Container(t)
  <2>1. c \in Task /\ IsSubgraph(c) /\ c # t
    BY <1>2, ContainerShape
  <2>2. PICK ends :
           /\ subtasks' = [subtasks EXCEPT ![c] = (subtasks[c] \ {t}) \cup retried]
           /\ state' = [state EXCEPT ![c] = ends]
           /\ finished_tasks' \subseteq (finished_tasks \ {t}) \cup {c}
    BY <1>2 DEF TellContainer
  <2> HIDE DEF c
  <2>3. \A u \in Task : ~IsSubgraph(u) =>
            state'[u] = state[u] /\ (u \in finished_tasks' => u \in finished_tasks /\ u # t)
    BY <2>1, <2>2 DEF TypeOK
  <2>4. \A s \in Task : subtasks'[s] = IF s = c THEN (subtasks[s] \ {t}) \cup retried
                                                ELSE subtasks[s]
    BY <2>1, <2>2 DEF TypeOK
  <2>5. \A s \in Task : s # c => t \notin subtasks[s]
    BY DEF ListsOwn, c
  <2>6. ListsOwn'
    <3> SUFFICES ASSUME NEW s \in Task, NEW u \in subtasks'[s]
                 PROVE  Contained(u) /\ Container(u) = s
      BY DEF ListsOwn, Contained, Container
    <3> QED
      BY <1>2, <2>4 DEF ListsOwn, c
  <2> QED
    BY <1>2, <2>3, <2>4, <2>5, <2>6 DEF c
<1> QED
  BY <1>1, <1>2

LEMMA EndKeepsStore ==
    ASSUME ConsistencyInv, ConsistencyInv', ResumeInv, NEW t \in Task,
           HandleEnd(t) \/ HandleFail(t), Store(NewStored(t)), UNCHANGED restored
    PROVE  ResumeInv'
<1>1. /\ TypeOK /\ Consistent(graph)
      /\ pc = "handle" /\ t \in finished_tasks /\ waiting_for' = waiting_for \ {t}
      /\ graph' = RemoveTasks(graph, Under(t))
      /\ UNCHANGED <<result, timers>>
      /\ error' \in {error, "failed"} /\ (error' = "none" => error = "none")
  BY DEF ConsistencyInv, HandleEnd, HandleFail, Popped, FailOnce
<1>2. PICK fails \in BOOLEAN : TellContainer(t, fails, {})
  BY DEF HandleEnd, HandleFail
<1>3. error # "crashed" /\ error' # "crashed" /\ ListsOwn
  BY <1>1 DEF ResumeInv
<1>4. Under(t) \in SUBSET Task /\ t \in Under(t)
  BY <1>1, UnderIsTasks
<1>5. Sheds(graph, graph', Under(t)) /\ graph'.tasks = graph.tasks \ Under(t)
  BY <1>1, <1>4, ShedsRemoved, RemoveTasksConsistent
<1>6. NewStored(t) = {}
  BY <1>5 DEF NewStored
<1>7. \A u \in Under(t) : u # t => Contained(u) /\ Container(u) \in Under(t)
  BY <1>1, <1>3, UnderOwned
<1>8. /\ \A u \in Task : ~IsSubgraph(u) =>
             state'[u] = state[u] /\ (u \in finished_tasks' => u \in finished_tasks /\ u # t)
      /\ ListsOwn'
      /\ \A s \in Task : t \notin subtasks'[s] /\ subtasks'[s] \subseteq subtasks[s]
  <2>1. {} \in SUBSET Task /\ t \notin {}
    OBVIOUS
  <2>2. \A s \in Task : t \notin subtasks'[s]
    BY <1>1, <1>2, <1>3, <2>1, ContainerTold
  <2>3. \A s \in Task : subtasks'[s] \subseteq
            subtasks[s] \cup (IF Contained(t) /\ s = Container(t) THEN {} ELSE {})
    BY <1>1, <1>2, <1>3, <2>1, ContainerTold
  <2>4. /\ \A u \in Task : ~IsSubgraph(u) =>
               state'[u] = state[u] /\ (u \in finished_tasks' => u \in finished_tasks /\ u # t)
        /\ ListsOwn'
    BY <1>1, <1>2, <1>3, <2>1, ContainerTold
  <2> QED
    BY <2>2, <2>3, <2>4
<1> HIDE DEF NewStored
<1> QED
  BY <1>1, <1>3, <1>4, <1>5, <1>6, <1>7, <1>8, DropKeeps DEF Plain

LEMMA PropagateKeepsStore ==
    ASSUME ConsistencyInv, ConsistencyInv', ResumeInv, NEW t \in Task,
           HandlePropagate(t), Store(NewStored(t)), UNCHANGED restored
    PROVE  ResumeInv'
<1>1. /\ TypeOK /\ Consistent(graph) /\ state' \in [Task -> State]
      /\ pc = "handle" /\ t \in finished_tasks /\ waiting_for' = waiting_for \ {t}
      /\ IsSubgraph(t) /\ Contained(t) /\ UNCHANGED <<result, timers>>
  BY DEF ConsistencyInv, TypeOK, HandlePropagate, Propagates, Popped
<1>2. error # "crashed" /\ ListsOwn /\ StoreTyped
  BY <1>1 DEF ResumeInv
<1>3. /\ Under(t) \in SUBSET Task /\ t \in Under(t)
      /\ Container(t) \in Task /\ IsSubgraph(Container(t)) /\ Container(t) # t
  BY <1>1, UnderIsTasks, ContainerShape
<1>4. graph'.tasks \subseteq graph.tasks
  BY <1>1, <1>3, RemoveTasksConsistent DEF HandlePropagate
<1>5. NewStored(t) = {}
  BY <1>4 DEF NewStored
<1> HIDE DEF NewStored
<1>6. CASE error' = "crashed" /\ pc' = "returned"
  <2>1. StoreTyped'
    BY <1>1, <1>2, <1>5, StoreEffect
  <2> QED
    BY <1>6, <2>1 DEF ResumeInv
<1>7. CASE /\ state' = [state EXCEPT ![Container(t)] = "failed"]
           /\ finished_tasks' = (finished_tasks \ {t}) \cup {Container(t)}
           /\ subtasks' = [subtasks EXCEPT ![Container(t)] = @ \ {t}]
           /\ graph' = RemoveTasks(graph, Under(t))
           /\ UNCHANGED <<error, pc>>
  <2>1. Sheds(graph, graph', Under(t))
    BY <1>1, <1>3, <1>7, ShedsRemoved
  <2>2. \A u \in Under(t) : u # t => Contained(u) /\ Container(u) \in Under(t)
    BY <1>1, <1>2, UnderOwned
  <2>3. \A u \in Task : ~IsSubgraph(u) =>
            state'[u] = state[u] /\ (u \in finished_tasks' => u \in finished_tasks /\ u # t)
    BY <1>1, <1>3, <1>7 DEF TypeOK
  <2>4. \A s \in Task : subtasks'[s] = IF s = Container(t) THEN subtasks[s] \ {t}
                                                          ELSE subtasks[s]
    BY <1>1, <1>3, <1>7 DEF TypeOK
  <2>5. \A s \in Task : t \notin subtasks'[s] /\ subtasks'[s] \subseteq subtasks[s]
    BY <1>2, <2>4 DEF ListsOwn
  <2>6. ListsOwn'
    BY <1>2, <2>5 DEF ListsOwn, Contained, Container
  <2> QED
    BY <1>1, <1>2, <1>3, <1>5, <1>7, <2>1, <2>2, <2>3, <2>5, <2>6, DropKeeps DEF Plain
<1> QED
  BY <1>6, <1>7 DEF HandlePropagate

LEMMA RebuildKeepsStore ==
    ASSUME ConsistencyInv, ConsistencyInv', ResumeInv, NEW s \in Task,
           HandleRebuild(s), Store(NewStored(s)), UNCHANGED restored
    PROVE  ResumeInv'
<1> DEFINE n     == s.gen + 1
           O     == Inside(s.op)
           new   == FirstTask(s.op, n)
           shed  == RemoveTasks(graph, Under(s) \ {s})
           built == Build(shed, O, n)
           over  == TakeOver(built, s, new)
<1>1. /\ TypeOK /\ Consistent(graph)
      /\ pc = "handle" /\ s \in finished_tasks /\ waiting_for' = waiting_for \ {s}
      /\ IsSubgraph(s) /\ ~Contained(s) /\ s.gen < MaxGen
      /\ \/ graph' = RemoveTasks(over, Under(s)) /\ error' = error
         \/ graph' = RemoveTasks(built, Under(s)) /\ error' = FailOnce
      /\ finished_tasks' = finished_tasks \ {s}
      /\ UNCHANGED <<state, result, subtasks, timers>>
  BY DEF ConsistencyInv, HandleRebuild, Rebuilds, Popped
<1>2. error # "crashed" /\ error' # "crashed" /\ (error' = "none" => error = "none") /\ ListsOwn
  BY <1>1 DEF ResumeInv, FailOnce
<1>3. /\ Under(s) \in SUBSET Task /\ s \in Under(s) /\ Under(s) \ {s} \in SUBSET Task
      /\ s.op \in Op /\ s.gen \in 0..MaxGen
  BY <1>1, UnderIsTasks, TaskFields
<1>4. n \in 0..MaxGen /\ n # 0 /\ n > 0 /\ O \in SUBSET Op
  BY <1>1, <1>3, BoundAssumption DEF Inside
<1>5. new \in Task /\ new.gen = n /\ ~Tracked(new) /\ new \in TasksFor(O, n)
  BY <1>3, <1>4, FirstTaskIsTask DEF Tracked, TasksFor, Inside
<1> HIDE DEF n, O, new
<1>6. Sheds(graph, shed, Under(s) \ {s}) /\ Consistent(shed) /\ shed.tasks \subseteq graph.tasks
  BY <1>1, <1>3, ShedsRemoved, RemoveTasksConsistent
<1> HIDE DEF shed
<1>7. /\ Sheds(shed, built, {}) /\ Consistent(built)
      /\ built.tasks = shed.tasks \cup TasksFor(O, n)
  BY <1>4, <1>6, ShedsBuilt
<1> HIDE DEF built
<1>8. /\ Sheds(built, over, {}) /\ Consistent(over)
      /\ over.tasks = built.tasks \cup {new}
  BY <1>5, <1>7, ShedsTakenOver
<1> HIDE DEF over
<1>9. /\ Sheds(graph, built, Under(s) \ {s})
      /\ Sheds(graph, over, Under(s) \ {s})
  <2>1. Sheds(graph, built, (Under(s) \ {s}) \cup {})
    BY <1>6, <1>7, ShedsThen
  <2>2. Sheds(graph, over, ((Under(s) \ {s}) \cup {}) \cup {})
    BY <1>7, <1>8, <2>1, ShedsThen
  <2>3. (Under(s) \ {s}) \cup {} = Under(s) \ {s}
    OBVIOUS
  <2> QED
    BY <2>1, <2>2, <2>3
<1>10. /\ Sheds(graph, graph', Under(s))
       /\ graph'.tasks \subseteq graph.tasks \cup TasksFor(O, n)
  <2>1. (Under(s) \ {s}) \cup Under(s) = Under(s)
    OBVIOUS
  <2>2. CASE graph' = RemoveTasks(over, Under(s))
    <3>1. Sheds(over, graph', Under(s)) /\ graph'.tasks = over.tasks \ Under(s)
      BY <1>3, <1>8, <2>2, ShedsRemoved, RemoveTasksConsistent
    <3>2. Sheds(graph, graph', (Under(s) \ {s}) \cup Under(s))
      BY <1>8, <1>9, <3>1, ShedsThen
    <3> QED
      BY <1>5, <1>6, <1>7, <1>8, <2>1, <3>1, <3>2
  <2>3. CASE graph' = RemoveTasks(built, Under(s))
    <3>1. Sheds(built, graph', Under(s)) /\ graph'.tasks = built.tasks \ Under(s)
      BY <1>3, <1>7, <2>3, ShedsRemoved, RemoveTasksConsistent
    <3>2. Sheds(graph, graph', (Under(s) \ {s}) \cup Under(s))
      BY <1>7, <1>9, <3>1, ShedsThen
    <3> QED
      BY <1>6, <1>7, <2>1, <3>1, <3>2
  <2> QED
    BY <1>1, <2>2, <2>3
<1>11. /\ NewStored(s) \in SUBSET Task
       /\ \A u \in NewStored(s) : ~Tracked(u) /\ (u.try > 0 \/ u.gen > 0)
  <2>1. \A u \in TasksFor(O, n) : u.gen = n
    BY DEF TasksFor, FirstTask
  <2>2. graph'.tasks \subseteq Task
    BY DEF ConsistencyInv, TypeOK, GraphType
  <2> QED
    BY <1>4, <1>10, <2>1, <2>2 DEF NewStored, Tracked
<1>12. \A u \in Under(s) : u # s => Contained(u) /\ Container(u) \in Under(s)
  BY <1>1, <1>2, UnderOwned
<1>13. \A x \in Task : subtasks'[x] \subseteq subtasks[x] /\ s \notin subtasks'[x]
  BY <1>1, <1>2 DEF ListsOwn
<1>14. ListsOwn'
  BY <1>1, <1>2 DEF ListsOwn, Contained, Container
<1> HIDE DEF NewStored
<1> QED
  BY <1>1, <1>2, <1>3, <1>10, <1>11, <1>12, <1>13, <1>14, DropKeeps DEF Plain

(* A retry is made of a task and told to its container. *)
LEMMA RetryShape ==
    ASSUME ConsistencyInv, ConsistencyInv', ResumeInv, NEW t \in Task, HandleRetry(t)
    PROVE  /\ t \in finished_tasks /\ ~IsSubgraph(t) /\ Retries(t)
           /\ waiting_for' = waiting_for \ {t}
           /\ error # "crashed" /\ ListsOwn
           /\ Duplicate(t) \in Task /\ Duplicate(t) # t /\ Duplicate(t).try > 0
           /\ Duplicate(t).op = t.op /\ Duplicate(t).gen = t.gen
           /\ Duplicate(t).try = t.try + 1
           /\ graph' = RemoveTasks(TakeOver(graph, t, Duplicate(t)), {t})
           /\ graph'.tasks = (graph.tasks \cup {Duplicate(t)}) \ {t}
           /\ NewStored(t) = {Duplicate(t)} \ graph.tasks
           /\ UNCHANGED <<error, result, timers>>
           /\ \A u \in Task : ~IsSubgraph(u) =>
                 state'[u] = state[u] /\ (u \in finished_tasks' => u \in finished_tasks /\ u # t)
           /\ ListsOwn'
           /\ \A s \in Task :
                 /\ t \notin subtasks'[s]
                 /\ ~ (Contained(t) /\ s = Container(t)) => subtasks'[s] = subtasks[s]
<1> DEFINE D == Duplicate(t)
<1>1. /\ TypeOK /\ Consistent(graph) /\ pc = "handle"
      /\ t \in finished_tasks /\ ~IsSubgraph(t) /\ Retries(t) /\ t.try < MaxTry
      /\ waiting_for' = waiting_for \ {t} /\ TellContainer(t, FALSE, {D})
      /\ graph' = RemoveTasks(TakeOver(graph, t, D), {t})
      /\ UNCHANGED <<error, result, timers>>
  BY DEF ConsistencyInv, HandleRetry, Popped
<1>2. error # "crashed" /\ ListsOwn
  BY <1>1 DEF ResumeInv
<1>3. /\ D \in Task /\ D.op = t.op /\ D.gen = t.gen /\ D.try = t.try + 1
      /\ t.try \in Nat
  BY <1>1, DuplicateIsTask, TaskFields, BoundAssumption
<1>4. D # t /\ D.try > 0
  BY <1>3
<1> HIDE DEF D
<1>5. graph'.tasks = (graph.tasks \cup {D}) \ {t}
  <2>1. Consistent(TakeOver(graph, t, D)) /\ TakeOver(graph, t, D).tasks = graph.tasks \cup {D}
    BY <1>1, <1>3, TakeOverConsistent
  <2>2. {t} \in SUBSET Task
    OBVIOUS
  <2> QED
    BY <1>1, <2>1, <2>2, RemoveTasksConsistent
<1>6. NewStored(t) = {D} \ graph.tasks
  BY <1>1, <1>3, <1>4, <1>5 DEF NewStored
<1>7. Contained(t) => Contained(D) /\ Container(D) = Container(t)
  BY <1>3 DEF Contained, Container
<1>8. /\ \A u \in Task : ~IsSubgraph(u) =>
             state'[u] = state[u] /\ (u \in finished_tasks' => u \in finished_tasks /\ u # t)
      /\ ListsOwn'
      /\ \A s \in Task :
            /\ t \notin subtasks'[s]
            /\ ~ (Contained(t) /\ s = Container(t)) => subtasks'[s] = subtasks[s]
  <2>1. {D} \in SUBSET Task /\ t \notin {D} /\ FALSE \in BOOLEAN
    BY <1>3, <1>4
  <2>2. Contained(t) => \A u \in {D} : Contained(u) /\ Container(u) = Container(t)
    BY <1>7
  <2>3. \A s \in Task : t \notin subtasks'[s]
    BY <1>1, <1>2, <2>1, <2>2, ContainerTold
  <2>4. \A s \in Task : ~ (Contained(t) /\ s = Container(t)) => subtasks'[s] = subtasks[s]
    BY <1>1, <1>2, <2>1, <2>2, ContainerTold
  <2>5. /\ \A u \in Task : ~IsSubgraph(u) =>
               state'[u] = state[u] /\ (u \in finished_tasks' => u \in finished_tasks /\ u # t)
        /\ ListsOwn'
    BY <1>1, <1>2, <2>1, <2>2, ContainerTold
  <2> QED
    BY <2>3, <2>4, <2>5
<1> QED
  BY <1>1, <1>2, <1>3, <1>4, <1>5, <1>6, <1>8 DEF D

LEMMA UntrackedRetry ==
    ASSUME ConsistencyInv, ConsistencyInv', ResumeInv, NEW t \in Task, HandleRetry(t),
           ~Tracked(t), Store(NewStored(t)), UNCHANGED restored
    PROVE  ResumeInv'
<1> DEFINE D == Duplicate(t)
<1>1. /\ t \in finished_tasks /\ waiting_for' = waiting_for \ {t}
      /\ error # "crashed" /\ ListsOwn
      /\ D \in Task /\ D.try > 0 /\ D.op = t.op /\ D.gen = t.gen
      /\ graph' = RemoveTasks(TakeOver(graph, t, D), {t})
      /\ NewStored(t) = {D} \ graph.tasks
      /\ UNCHANGED <<error, result, timers>>
      /\ \A u \in Task : ~IsSubgraph(u) =>
             state'[u] = state[u] /\ (u \in finished_tasks' => u \in finished_tasks /\ u # t)
      /\ ListsOwn'
      /\ \A s \in Task :
            /\ t \notin subtasks'[s]
            /\ ~ (Contained(t) /\ s = Container(t)) => subtasks'[s] = subtasks[s]
  BY RetryShape
<1> HIDE DEF D
<1>2. ~Tracked(D)
  BY <1>1 DEF Tracked
<1>3. Sheds(graph, graph', {t})
  <2>1. Consistent(graph) /\ {t} \in SUBSET Task
    BY DEF ConsistencyInv
  <2>2. Sheds(graph, TakeOver(graph, t, D), {}) /\ Consistent(TakeOver(graph, t, D))
    BY <1>1, <1>2, <2>1, ShedsTakenOver
  <2>3. Sheds(TakeOver(graph, t, D), graph', {t})
    BY <1>1, <2>1, <2>2, ShedsRemoved
  <2>4. Sheds(graph, graph', {} \cup {t})
    BY <2>2, <2>3, ShedsThen
  <2>5. {} \cup {t} = {t}
    OBVIOUS
  <2> QED
    BY <2>4, <2>5
<1>4. \A s \in Task : Tracked(s) => subtasks'[s] \subseteq subtasks[s] /\ t \notin subtasks'[s]
  BY <1>1, TrackedShape
<1>5. /\ NewStored(t) \in SUBSET Task
      /\ \A u \in NewStored(t) : ~Tracked(u) /\ (u.try > 0 \/ u.gen > 0)
  BY <1>1, <1>2
<1> HIDE DEF NewStored
<1>6. \A u \in {t} : u # t => Contained(u) /\ Container(u) \in {t}
  OBVIOUS
<1>7. error' # "crashed" /\ (error' = "none" => error = "none") /\ t \in {t}
  BY <1>1
<1>8. UNCHANGED <<result, timers, restored>>
  BY <1>1
<1> QED
  BY <1>1, <1>3, <1>4, <1>5, <1>6, <1>7, <1>8, DropKeeps DEF Plain

(* The retry of a tracked task: nothing stored was tried after it. *)
LEMMA RetryNotStored ==
    ASSUME ConsistencyInv, ConsistencyInv', ResumeInv, NEW t \in Task, HandleRetry(t),
           Tracked(t)
    PROVE  LET D == Duplicate(t)
           IN  /\ Plain(t) /\ Plain(D) /\ TaskStored(t) /\ TaskStored(D)
               /\ t \in waiting_for /\ t \notin timers
               /\ t \in DOMAIN ops /\ ops[t].state \in TERMINATED_STATES
               /\ ops[t].state = "succeeded" => PollsAgain(t)
               /\ D \notin DOMAIN ops /\ D \notin Alive /\ state[D] = "pending"
               /\ D \notin finished_tasks /\ D \notin timers
<1> DEFINE D == Duplicate(t)
<1>1. /\ t \in finished_tasks /\ ~IsSubgraph(t) /\ Retries(t) /\ error # "crashed"
      /\ D \in Task /\ D.op = t.op /\ D.gen = t.gen
  BY RetryShape
<1> HIDE DEF D
<1>2. Plain(t) /\ Plain(D)
  BY <1>1 DEF Plain, Tracked, IsSubgraph
<1>3. TaskStored(t) /\ TaskStored(D)
  BY <1>1, <1>2 DEF ResumeInv
<1>4. t \in waiting_for /\ t \notin timers /\ state[t] \in TERMINATED_STATES
  BY <1>1, <1>3 DEF TaskStored, EndStored
<1>5. t \in DOMAIN ops /\ D \notin DOMAIN ops
  BY <1>3, <1>4 DEF TaskStored, LastStored, Alive, D
<1>6. t.op \notin Nop
  <2> SUFFICES ASSUME t.op \in Nop PROVE FALSE
    OBVIOUS
  <2>1. state[t] = "succeeded" /\ result[t] = "value"
    BY <1>1, <1>3, <1>4 DEF TaskStored, EndStored, NopPending, TERMINATED_STATES
  <2> QED
    BY <1>1, <2>1 DEF Retries, PollsAgain, AsksForRetry, NotSucceeded
<1>7. ops[t].state = state[t]
  BY <1>1, <1>3, <1>5, <1>6 DEF TaskStored, EndStored
<1>8. state[t] = "succeeded" => PollsAgain(t)
  BY <1>1 DEF Retries, AsksForRetry, NotSucceeded
<1>9. D \notin Alive
  BY <1>3, <1>5 DEF TaskStored, LastStored
<1>10. state[D] = "pending"
  BY <1>3, <1>5 DEF TaskStored, GoodStored
<1>11. D \notin finished_tasks /\ D \notin timers
  BY <1>3, <1>9 DEF TaskStored, EndStored, TimerPending, Alive
<1> QED
  BY <1>2, <1>3, <1>4, <1>5, <1>7, <1>8, <1>9, <1>10, <1>11 DEF D

LEMMA DuplicateOf ==
    ASSUME NEW t \in Task, NEW u \in Task
    PROVE  /\ Duplicate(t) = Duplicate(u) => t = u
           /\ Duplicate(t).try = t.try + 1
           /\ \A k \in 0..t.try : [Duplicate(t) EXCEPT !.try = k] = [t EXCEPT !.try = k]
           /\ [t EXCEPT !.try = t.try] = t
<1>1. /\ t = [op |-> t.op, gen |-> t.gen, try |-> t.try]
      /\ u = [op |-> u.op, gen |-> u.gen, try |-> u.try]
      /\ t.try \in Int /\ u.try \in Int
  BY TaskAssumption, BoundAssumption
<1>2. /\ Duplicate(t) = [op |-> t.op, gen |-> t.gen, try |-> t.try + 1]
      /\ Duplicate(u) = [op |-> u.op, gen |-> u.gen, try |-> u.try + 1]
  BY <1>1 DEF Duplicate
<1>4. /\ Duplicate(t).op = t.op /\ Duplicate(t).gen = t.gen /\ Duplicate(t).try = t.try + 1
      /\ Duplicate(u).op = u.op /\ Duplicate(u).gen = u.gen /\ Duplicate(u).try = u.try + 1
  BY <1>2
<1>3. Duplicate(t) = Duplicate(u) => t = u
  <2> SUFFICES ASSUME Duplicate(t) = Duplicate(u) PROVE t = u
    OBVIOUS
  <2>1. t.op = u.op /\ t.gen = u.gen /\ t.try + 1 = u.try + 1
    BY <1>4
  <2>2. t.try = u.try
    BY <1>1, <2>1
  <2> QED
    BY <1>1, <2>1, <2>2
<1> QED
  BY <1>1, <1>2, <1>3

LEMMA TrackedRetry ==
    ASSUME ConsistencyInv, ConsistencyInv', ResumeInv, NEW t \in Task, HandleRetry(t),
           Tracked(t), Store(NewStored(t)), UNCHANGED restored
    PROVE  ResumeInv'
<1> DEFINE D == Duplicate(t)
<1>1. /\ TypeOK /\ StoreTyped /\ state' \in [Task -> State] /\ Consistent(graph)
      /\ graph.tasks \subseteq Task /\ waiting_for \subseteq Task /\ graph.ready \subseteq Task
      /\ graph'.tasks \subseteq Task /\ graph'.ready \subseteq Task
  BY DEF ConsistencyInv, TypeOK, GraphType, ResumeInv
<1>2. /\ t \in finished_tasks /\ waiting_for' = waiting_for \ {t}
      /\ error # "crashed" /\ ListsOwn
      /\ D \in Task /\ D # t /\ D.try > 0 /\ D.op = t.op /\ D.gen = t.gen
      /\ graph' = RemoveTasks(TakeOver(graph, t, D), {t})
      /\ graph'.tasks = (graph.tasks \cup {D}) \ {t}
      /\ NewStored(t) = {D} \ graph.tasks
      /\ UNCHANGED <<error, result, timers>>
      /\ \A u \in Task : ~IsSubgraph(u) =>
             state'[u] = state[u] /\ (u \in finished_tasks' => u \in finished_tasks /\ u # t)
      /\ ListsOwn'
      /\ \A s \in Task :
            /\ t \notin subtasks'[s]
            /\ ~ (Contained(t) /\ s = Container(t)) => subtasks'[s] = subtasks[s]
  BY RetryShape
<1>3. /\ Plain(t) /\ Plain(D) /\ TaskStored(t) /\ TaskStored(D)
      /\ t \in waiting_for /\ t \notin timers
      /\ t \in DOMAIN ops /\ ops[t].state \in TERMINATED_STATES
      /\ ops[t].state = "succeeded" => PollsAgain(t)
      /\ D \notin DOMAIN ops /\ D \notin Alive /\ state[D] = "pending"
      /\ D \notin finished_tasks /\ D \notin timers
  BY RetryNotStored
<1>4. /\ D.try = t.try + 1 /\ t.try \in Nat
      /\ \A u \in Task : Duplicate(u) = D => u = t
      /\ \A k \in 0..t.try : [D EXCEPT !.try = k] = [t EXCEPT !.try = k]
      /\ [D EXCEPT !.try = D.try] = D
  BY <1>2, DuplicateOf, TaskFields, BoundAssumption
<1>5. Duplicate(D) \notin DOMAIN ops /\ Duplicate(D) # D
  <2> SUFFICES ASSUME Duplicate(D) \in DOMAIN ops PROVE FALSE
    BY <1>2, <1>4, DuplicateOf
  <2>1. Duplicate(D) \in Task
    BY <1>1 DEF StoreTyped
  <2>2. /\ Duplicate(D).op = D.op /\ Duplicate(D).gen = D.gen
        /\ Duplicate(D).try = D.try + 1
    BY <1>2, TaskAssumption DEF Duplicate
  <2>3. Plain(Duplicate(D))
    BY <1>3, <2>2 DEF Plain, Tracked, IsSubgraph
  <2>4. TaskStored(Duplicate(D))
    BY <1>2, <2>1, <2>3 DEF ResumeInv
  <2>5. [Duplicate(D) EXCEPT !.try = D.try] = D /\ D.try \in 0..Duplicate(D).try
    <3>1. D.try \in 0..D.try /\ D.try \in 0..Duplicate(D).try
      BY <1>4, <2>2
    <3>2. \A k \in 0..D.try : [Duplicate(D) EXCEPT !.try = k] = [D EXCEPT !.try = k]
      BY <1>2, DuplicateOf
    <3>3. [Duplicate(D) EXCEPT !.try = D.try] = [D EXCEPT !.try = D.try]
      BY <3>1, <3>2
    <3> QED
      BY <1>4, <3>1, <3>3
  <2> QED
    BY <1>3, <2>4, <2>5 DEF TaskStored, ChainStored
<1> HIDE DEF D
<1>6. NewStored(t) = {D}
  BY <1>2, <1>3 DEF Alive
<1>7. /\ StoreTyped'
      /\ DOMAIN ops' = DOMAIN ops \cup {D}
      /\ \A u \in DOMAIN ops : ~IsSubgraph(u) => ops'[u].state = ops[u].state
      /\ ops'[D].state = "pending"
  <2>1. {D} \in SUBSET Task /\ \A u \in {D} : u.try > 0 \/ u.gen > 0
    BY <1>2
  <2>2. Store({D})
    BY <1>6
  <2>3. /\ StoreTyped' /\ DOMAIN ops' = DOMAIN ops \cup {D}
        /\ \A u \in DOMAIN ops : ~IsSubgraph(u) =>
              ops'[u].state = IF state'[u] # state[u] /\ ~Unstored(u, state'[u])
                              THEN state'[u] ELSE ops[u].state
        /\ \A u \in {D} \ DOMAIN ops : ops'[u].state = "pending"
    BY <1>1, <2>1, <2>2, StoreEffect DEF Restarted
  <2>4. DOMAIN ops \subseteq Task
    BY <1>1 DEF StoreTyped
  <2> QED
    BY <1>2, <1>3, <2>3, <2>4
<1>8. TaskStored(D)'
  <2>1. ChainStored(D)'
    <3>1. \A k \in 0..D.try : [D EXCEPT !.try = k] \in DOMAIN ops'
      <4> TAKE k \in 0..D.try
      <4>1. CASE k = D.try
        BY <1>4, <1>7, <4>1
      <4>2. CASE k # D.try
        <5>1. k \in 0..t.try
          BY <1>4, <4>2
        <5>2. [t EXCEPT !.try = k] \in DOMAIN ops
          BY <1>3, <5>1 DEF TaskStored, ChainStored
        <5> QED
          BY <1>4, <1>7, <5>1, <5>2
      <4> QED
        BY <4>1, <4>2
    <3> QED
      BY <3>1 DEF ChainStored
  <2>2. Duplicate(D) \notin DOMAIN ops'
    BY <1>5, <1>7
  <2>3. /\ state'[D] = "pending" /\ D \notin finished_tasks' /\ D \notin timers'
        /\ D \notin waiting_for'
    BY <1>2, <1>3 DEF Plain, Alive
  <2>4. RetriedEnded(D)' /\ GoodStored(D)' /\ NopPending(D)' /\ LastStored(D)'
    BY <1>7, <2>2, <2>3 DEF RetriedEnded, GoodStored, NopPending, LastStored
  <2>5. NotEnded(D)' /\ EndStored(D)' /\ TimerPending(D)'
    BY <2>3 DEF NotEnded, EndStored, TimerPending, TERMINATED_STATES
  <2> QED
    BY <2>1, <2>4, <2>5 DEF TaskStored
<1>9. TaskStored(t)'
  <2>1. state'[t] = state[t] /\ ops'[t].state = ops[t].state /\ t \in DOMAIN ops'
    BY <1>2, <1>3, <1>7 DEF Plain
  <2>2. /\ t \notin graph'.tasks /\ t \notin waiting_for' /\ t \notin finished_tasks'
        /\ t \notin timers'
    BY <1>2, <1>3 DEF Plain
  <2>3. ChainStored(t)'
    BY <1>3, <1>7 DEF TaskStored, ChainStored
  <2>4. RetriedEnded(t)'
    BY <1>2, <1>3, <2>1 DEF RetriedEnded, PollsAgain
  <2>5. GoodStored(t)' /\ NopPending(t)'
    BY <1>3, <2>1 DEF TaskStored, GoodStored, NopPending
  <2>6. LastStored(t)' /\ NotEnded(t)' /\ EndStored(t)' /\ TimerPending(t)'
    BY <2>2 DEF LastStored, Alive, NotEnded, EndStored, TimerPending
  <2> QED
    BY <2>3, <2>4, <2>5, <2>6 DEF TaskStored
<1>10. ASSUME NEW u \in Task, Plain(u), u # t, u # D
       PROVE  TaskStored(u)'
  <2>1. /\ TaskStored(u) /\ state'[u] = state[u] /\ result'[u] = result[u]
        /\ u \in finished_tasks' => u \in finished_tasks
    BY <1>2, <1>10 DEF ResumeInv, Plain
  <2>2. Duplicate(u) # D
    BY <1>4, <1>10
  <2>3. u \in finished_tasks => u \in waiting_for /\ u \notin timers
    BY <2>1 DEF TaskStored, EndStored
  <2>4. u \in timers => u \in waiting_for
    BY <2>1 DEF TaskStored, TimerPending
  <2>5. u \in DOMAIN ops => ops'[u].state = ops[u].state
    BY <1>7, <1>10 DEF Plain
  <2> QED
    BY <1>2, <1>7, <1>10, <2>1, <2>2, <2>3, <2>4, <2>5, Untouched
<1>11. ASSUME error' = "none"
       PROVE  RunInv'
  <2>1. RunInv
    BY <1>2, <1>11 DEF ResumeInv
  <2>2. /\ graph.dependencies[t] = {}
        /\ Contained(t) => Container(t) \notin graph.tasks \ waiting_for
    BY <1>3, <2>1 DEF RunInv, TrackedApplied, Plain
  <2>3. /\ \A u \in Task : u \notin {t, D} =>
              /\ u \in graph'.tasks <=> u \in graph.tasks
              /\ u \in graph'.ready => u \in graph.ready
              /\ graph.dependencies[u] = {} => graph'.dependencies[u] = {}
              /\ graph.dependencies[u] \ {t} \subseteq graph'.dependencies[u]
        /\ t \notin graph'.tasks /\ (t \in graph'.ready => t \notin graph.tasks)
        /\ D \in graph'.tasks /\ graph'.dependencies[D] = {}
    <3>1. D \notin graph.tasks
      BY <1>3 DEF Alive
    <3> QED
      <4>1. LET h == RemoveTasks(TakeOver(graph, t, D), {t})
            IN  /\ \A u \in Task : u \notin {t, D} =>
                      /\ u \in h.tasks <=> u \in graph.tasks
                      /\ u \in h.ready => u \in graph.ready
                      /\ graph.dependencies[u] = {} => h.dependencies[u] = {}
                      /\ graph.dependencies[u] \ {t} \subseteq h.dependencies[u]
                /\ t \notin h.tasks /\ (t \in h.ready => t \notin graph.tasks)
                /\ D \in h.tasks /\ h.dependencies[D] = {}
        <5>1. Consistent(graph) /\ D \in Task /\ D # t /\ graph.dependencies[t] = {}
          BY <1>1, <1>2, <2>2
        <5> QED
          BY <3>1, <5>1, RetryGraph, ZenonT(60)
      <4> QED
        BY <1>2, <4>1
  <2>4. t \notin graph'.ready
    <3>1. CASE t \in graph.tasks
      BY <2>3, <3>1
    <3>2. CASE t \notin graph.tasks
      <4>1. t \notin graph.ready
        BY <1>3, <2>1 DEF RunInv, TrackedReady, Plain
      <4>2. graph'.ready \subseteq graph.ready \cup {D} \cup graph.tasks
        <5>1. /\ Consistent(TakeOver(graph, t, D)) /\ TakeOver(graph, t, D).tasks = graph.tasks \cup {D}
              /\ TakeOver(graph, t, D).ready \subseteq graph.ready \cup {D}
          BY <1>1, <1>2, TakeOverConsistent
        <5>2. {t} \in SUBSET Task
          OBVIOUS
        <5> QED
          BY <1>2, <5>1, <5>2, RemoveTasksConsistent
      <4> QED
        BY <1>2, <3>2, <4>1, <4>2
    <3> QED
      BY <3>1, <3>2
  <2>5. TrackedReady'
    <3> SUFFICES ASSUME NEW u \in graph'.ready, Tracked(u)
                 PROVE  /\ u \in graph'.tasks /\ graph'.dependencies[u] = {}
                        /\ u \notin waiting_for'
      BY DEF TrackedReady, Tracked
    <3>1. CASE u = D
      BY <1>2, <1>3, <2>3, <3>1 DEF Alive
    <3>2. CASE u # D
      <4>1. u \in Task /\ u # t
        BY <1>1, <2>4
      <4>2. u \in graph.tasks /\ graph.dependencies[u] = {} /\ u \notin waiting_for
        BY <2>1, <2>3, <3>2, <4>1 DEF RunInv, TrackedReady
      <4> QED
        BY <1>2, <2>3, <3>2, <4>1, <4>2
    <3> QED
      BY <3>1, <3>2
  <2>6. TrackedApplied'
    <3> SUFFICES ASSUME NEW u \in waiting_for', Tracked(u)
                 PROVE  /\ graph'.dependencies[u] = {}
                        /\ Contained(u) => Container(u) \notin graph'.tasks \ waiting_for'
      BY DEF TrackedApplied, Tracked, Contained, Container
    <3>1. /\ u \in Task /\ u \in waiting_for /\ graph.dependencies[u] = {} /\ u \notin {t, D}
          /\ Contained(u) => Container(u) \notin graph.tasks \ waiting_for
      BY <1>1, <1>2, <1>3, <2>1 DEF RunInv, TrackedApplied, Alive
    <3>2. ASSUME Contained(u) PROVE Container(u) \notin graph'.tasks \ waiting_for'
      <4>1. Container(u) \in Task /\ Container(u) \notin {t, D}
        BY <1>3, <3>1, <3>2, ContainerShape DEF Plain
      <4> QED
        BY <1>2, <2>3, <3>1, <3>2, <4>1
    <3> QED
      BY <2>3, <3>1, <3>2
  <2>7. TrackedThere'
    <3> SUFFICES ASSUME NEW s \in graph'.tasks \ waiting_for', Tracked(s),
                        NEW x \in subtasks'[s]
                 PROVE  x \in graph'.tasks
      BY DEF TrackedThere, Tracked
    <3>0. Contained(x) /\ Container(x) = s
      BY <1>1, <1>2 DEF ListsOwn, Contained, Container
    <3>1. CASE s \in {t, D}
      <4>1. x \in Task
        BY <1>1 DEF ConsistencyInv, TypeOK
      <4> QED
        BY <1>3, <3>0, <3>1, <4>1, ContainerShape DEF Plain
    <3>2. CASE s \notin {t, D}
      <4>1. s \in Task /\ s \in graph.tasks \ waiting_for
        BY <1>1, <1>2, <3>2
      <4>2. ~ (Contained(t) /\ s = Container(t))
        BY <2>2, <4>1
      <4>3. x \in subtasks[s] /\ x # t
        BY <1>2, <4>1, <4>2
      <4>4. x \in graph.tasks
        BY <2>1, <4>1, <4>3 DEF RunInv, TrackedThere
      <4> QED
        BY <1>2, <4>3, <4>4
    <3> QED
      BY <3>1, <3>2
  <2>8. TrackedHeld'
    <3> SUFFICES ASSUME NEW u \in graph'.tasks, Tracked(u), Contained(u),
                        Container(u) \in graph'.tasks \ waiting_for'
                 PROVE  Container(u) \in graph'.dependencies[u]
      BY DEF TrackedHeld, Tracked, Contained, Container
    <3>1. /\ u \in Task /\ Container(u) \in Task
          /\ Container(u) \notin {t, D}
      BY <1>1, <1>3, ContainerShape DEF Plain
    <3>2. Container(u) \in graph.tasks \ waiting_for
      BY <1>2, <2>3, <3>1
    <3>3. u # t
      BY <2>3
    <3>4. u # D
      <4> SUFFICES ASSUME u = D PROVE FALSE
        OBVIOUS
      <4>1. Contained(t) /\ Container(t) = Container(u)
        BY <1>2 DEF Contained, Container
      <4> QED
        BY <2>2, <3>2, <4>1
    <3>5. Container(u) \in graph.dependencies[u]
      BY <1>2, <2>1, <3>2, <3>3, <3>4 DEF RunInv, TrackedHeld
    <3> QED
      BY <2>3, <3>1, <3>3, <3>4, <3>5
  <2> QED
    BY <2>5, <2>6, <2>7, <2>8 DEF RunInv
<1>12. \A u \in Task : Plain(u)' <=> Plain(u)
  BY DEF Plain, Tracked, IsSubgraph
<1> QED
  BY <1>2, <1>7, <1>8, <1>9, <1>10, <1>11, <1>12 DEF ResumeInv

-----------------------------------------------------------------------------
(* Steps that apply a task, deliver an answer, or change none *)

(* One operation changes and no task enters or leaves the graph. *)
LEMMA TouchedStored ==
    ASSUME TypeOK, StoreTyped, NEW t \in Task,
           \A u \in Task : Plain(u) => TaskStored(u),
           state' \in [Task -> State], UNCHANGED restored, Store({}),
           graph'.tasks = graph.tasks,
           waiting_for' \subseteq waiting_for \cup {t}, waiting_for \subseteq waiting_for',
           \A u \in Task : u # t =>
               /\ state'[u] = state[u] /\ result'[u] = result[u]
               /\ u \in finished_tasks' => u \in finished_tasks
               /\ u \in timers' => u \in timers,
           Plain(t) =>
               /\ t \in waiting_for'
               /\ t \in DOMAIN ops /\ Duplicate(t) \notin DOMAIN ops
               /\ state[t] # "succeeded"
               /\ t.op \in Nop => /\ state'[t] \in {"pending", "succeeded"}
               /\ t \in finished_tasks' =>
                     /\ t \notin timers' /\ state'[t] \in TERMINATED_STATES
                     /\ state'[t] # state[t]
                     /\ t.op \in Nop => result'[t] = "value"
               /\ t \in timers' => state'[t] = "pending"
    PROVE  StoreTyped' /\ \A u \in Task : Plain(u)' => TaskStored(u)'
<1>1. /\ StoreTyped' /\ DOMAIN ops' = DOMAIN ops
      /\ \A u \in DOMAIN ops : Plain(u) =>
            ops'[u].state = IF state'[u] # state[u] /\ ~Unstored(u, state'[u])
                            THEN state'[u] ELSE ops[u].state
  <2>1. {} \in SUBSET Task /\ \A u \in {} : u.try > 0 \/ u.gen > 0
    OBVIOUS
  <2>2. /\ StoreTyped' /\ DOMAIN ops' = DOMAIN ops \cup {}
        /\ \A u \in DOMAIN ops : ~IsSubgraph(u) =>
              ops'[u].state = IF state'[u] # state[u] /\ ~Unstored(u, state'[u])
                              THEN state'[u] ELSE ops[u].state
    BY <2>1, StoreEffect DEF Restarted
  <2> QED
    BY <2>2 DEF Plain
<1>2. ASSUME NEW u \in Task, Plain(u), u # t
      PROVE  TaskStored(u)'
  <2>1. /\ TaskStored(u) /\ state'[u] = state[u] /\ result'[u] = result[u]
        /\ u \in finished_tasks' => u \in finished_tasks
        /\ u \in timers' => u \in timers
        /\ u \in waiting_for' <=> u \in waiting_for
    BY <1>2
  <2>2. u \in finished_tasks => u \in waiting_for /\ u \notin timers
    BY <2>1 DEF TaskStored, EndStored
  <2>3. u \in timers => u \in waiting_for
    BY <2>1 DEF TaskStored, TimerPending
  <2>4. u \in DOMAIN ops => ops'[u].state = ops[u].state
    BY <1>1, <1>2, <2>1
  <2> QED
    BY <1>1, <2>1, <2>2, <2>3, <2>4, Untouched
<1>3. ASSUME Plain(t)
      PROVE  TaskStored(t)'
  <2>1. /\ TaskStored(t)
        /\ t \in DOMAIN ops' /\ Duplicate(t) \notin DOMAIN ops'
    BY <1>1, <1>3
  <2>2. ChainStored(t)' /\ RetriedEnded(t)' /\ LastStored(t)' /\ NotEnded(t)'
    BY <1>1, <1>3, <2>1 DEF TaskStored, ChainStored, RetriedEnded, LastStored, NotEnded
  <2>3. NopPending(t)'
    BY <1>1, <1>3, <2>1 DEF TaskStored, NopPending, Unstored
  <2>4. state'[t] = "succeeded" /\ t.op \notin Nop => ops'[t].state = "succeeded"
    BY <1>1, <1>3, <2>1 DEF Unstored
  <2>5. GoodStored(t)'
    BY <2>1, <2>4 DEF GoodStored
  <2>6. EndStored(t)'
    BY <1>1, <1>3, <2>1 DEF EndStored, Unstored, TERMINATED_STATES
  <2>7. TimerPending(t)'
    BY <1>3 DEF TimerPending
  <2> QED
    BY <2>2, <2>3, <2>5, <2>6, <2>7 DEF TaskStored
<1>4. \A u \in Task : Plain(u)' <=> Plain(u)
  BY DEF Plain, Tracked, IsSubgraph
<1> QED
  BY <1>1, <1>2, <1>3, <1>4

(* What Send does to the task it sends. *)
LEMMA SentStored ==
    ASSUME TypeOK, NEW t \in Task, Send(t)
    PROVE  /\ \A u \in Task : u # t => state'[u] = state[u] /\ result'[u] = result[u]
           /\ finished_tasks \subseteq finished_tasks'
           /\ finished_tasks' \subseteq finished_tasks \cup {t}
           /\ t.op \in Nop => state'[t] = "succeeded" /\ result'[t] = "value"
           /\ t \in finished_tasks' => t \in finished_tasks \/ state'[t] \in TERMINATED_STATES
<1>1. CASE /\ state' = [state EXCEPT ![t] = "sent"]
           /\ UNCHANGED <<result, finished_tasks>>
           /\ t.op \notin Nop
  BY <1>1 DEF TypeOK
<1>2. CASE \E e \in Outcome[t.op] \cap {"RecoverableError", "NonRecoverableError"} :
              Settle(t, "failed", e) /\ t.op \notin Nop
  BY <1>2 DEF TypeOK, Settle, TERMINATED_STATES
<1>3. CASE Settle(t, "succeeded", "value")
  BY <1>3 DEF TypeOK, Settle, TERMINATED_STATES
<1> QED
  BY <1>1, <1>2, <1>3 DEF Send

LEMMA OperationRunStored ==
    ASSUME ConsistencyInv, ConsistencyInv', ResumeInv, NEW t \in Task, RunOperation(t),
           t \in restored => t \notin timers', Store({}), UNCHANGED restored
    PROVE  ResumeInv'
<1>1. /\ TypeOK /\ Consistent(graph) /\ state' \in [Task -> State]
      /\ graph.tasks \subseteq Task /\ waiting_for \subseteq Task
      /\ error = "none" /\ t \in graph.ready /\ ~IsSubgraph(t)
      /\ graph' = [graph EXCEPT !.ready = @ \ {t}]
      /\ waiting_for' = waiting_for \cup {t}
      /\ UNCHANGED <<error, pc, subtasks, failed_task>>
  BY DEF ConsistencyInv, TypeOK, GraphType, RunOperation
<1>2. /\ StoreTyped /\ ListsOwn /\ RunInv
      /\ \A u \in Task : Plain(u) => TaskStored(u)
  BY <1>1 DEF ResumeInv
<1>3. /\ graph'.tasks = graph.tasks /\ graph'.dependencies = graph.dependencies
      /\ graph'.ready = graph.ready \ {t}
  BY <1>1 DEF Consistent, GraphType
<1>4. \/ /\ UNCHANGED <<state, result, finished_tasks, timers>>
      \/ /\ t.try > 0 /\ timers' = timers \cup {t}
         /\ UNCHANGED <<state, result, finished_tasks>>
      \/ Send(t) /\ UNCHANGED timers
  BY DEF RunOperation
<1>5. \A u \in Task : u # t =>
          /\ state'[u] = state[u] /\ result'[u] = result[u]
          /\ u \in finished_tasks' => u \in finished_tasks
          /\ u \in timers' => u \in timers
  BY <1>1, <1>4, SentStored
<1>6. ASSUME Tracked(t)
      PROVE  t \in graph.tasks /\ graph.dependencies[t] = {} /\ t \notin waiting_for
  BY <1>1, <1>2, <1>6 DEF RunInv, TrackedReady
<1>7. ASSUME Plain(t)
      PROVE  /\ t \in waiting_for'
             /\ t \in DOMAIN ops /\ Duplicate(t) \notin DOMAIN ops
             /\ state[t] # "succeeded"
             /\ t.op \in Nop => state'[t] \in {"pending", "succeeded"}
             /\ t \in finished_tasks' =>
                   /\ t \notin timers' /\ state'[t] \in TERMINATED_STATES
                   /\ state'[t] # state[t]
                   /\ t.op \in Nop => result'[t] = "value"
             /\ t \in timers' => state'[t] = "pending"
  <2>1. TaskStored(t) /\ t \in graph.tasks /\ t \notin waiting_for
    BY <1>2, <1>6, <1>7 DEF Plain
  <2>2. /\ t \in DOMAIN ops /\ Duplicate(t) \notin DOMAIN ops
        /\ state[t] \notin TERMINATED_STATES /\ (t \notin restored => state[t] = "pending")
        /\ t \notin finished_tasks /\ t \notin timers
        /\ t.op \in Nop => state[t] \in {"pending", "succeeded"}
    BY <2>1 DEF TaskStored, LastStored, Alive, NotEnded, EndStored, TimerPending, NopPending
  <2>3. CASE UNCHANGED <<state, result, finished_tasks, timers>>
    BY <1>1, <2>2, <2>3 DEF TERMINATED_STATES
  <2>4. CASE timers' = timers \cup {t} /\ UNCHANGED <<state, result, finished_tasks>>
    BY <1>1, <2>2, <2>4 DEF TERMINATED_STATES
  <2>5. CASE Send(t) /\ UNCHANGED timers
    BY <1>1, <2>2, <2>5, SentStored DEF TERMINATED_STATES
  <2> QED
    BY <1>4, <2>3, <2>4, <2>5
<1>8. StoreTyped' /\ \A u \in Task : Plain(u)' => TaskStored(u)'
  BY <1>1, <1>2, <1>3, <1>5, <1>7, TouchedStored
<1>9. RunInv'
  <2>1. TrackedReady'
    BY <1>1, <1>2, <1>3 DEF RunInv, TrackedReady, Tracked
  <2>2. TrackedApplied'
    <3> SUFFICES ASSUME NEW u \in waiting_for', Tracked(u)
                 PROVE  /\ graph'.dependencies[u] = {}
                        /\ Contained(u) => Container(u) \notin graph'.tasks \ waiting_for'
      BY DEF TrackedApplied, Tracked, Contained, Container
    <3>1. CASE u \in waiting_for
      BY <1>1, <1>2, <1>3, <3>1 DEF RunInv, TrackedApplied
    <3>2. CASE u = t
      <4>1. Contained(t) => Container(t) \notin graph.tasks \ waiting_for
        BY <1>2, <1>6, <3>2 DEF RunInv, TrackedHeld
      <4> QED
        BY <1>1, <1>3, <1>6, <3>2, <4>1
    <3> QED
      BY <1>1, <3>1, <3>2
  <2>3. TrackedThere' /\ TrackedHeld'
    BY <1>1, <1>2, <1>3 DEF RunInv, TrackedThere, TrackedHeld, Tracked, Contained, Container
  <2> QED
    BY <2>1, <2>2, <2>3 DEF RunInv
<1>10. ListsOwn'
  BY <1>1, <1>2 DEF ListsOwn, Contained, Container
<1> QED
  BY <1>1, <1>8, <1>9, <1>10 DEF ResumeInv

(* The answer to a task in flight, and the timer of a retry. *)
LEMMA DueStored ==
    ASSUME ConsistencyInv, ConsistencyInv', ResumeInv, NEW t \in Task,
           Finish(t) \/ TimerFires(t), Store({}), UNCHANGED restored
    PROVE  ResumeInv'
<1>1. /\ TypeOK /\ StoreTyped /\ state' \in [Task -> State]
      /\ UNCHANGED <<graph, waiting_for, error, pc, subtasks, failed_task>>
      /\ error # "crashed"
  BY DEF ConsistencyInv, TypeOK, Finish, TimerFires, ResumeInv
<1>2. /\ ListsOwn /\ \A u \in Task : Plain(u) => TaskStored(u)
      /\ error = "none" => RunInv
  BY <1>1 DEF ResumeInv
<1>3. /\ ListsOwn' /\ (error = "none" => RunInv')
      /\ graph'.tasks = graph.tasks
      /\ waiting_for' \subseteq waiting_for \cup {t} /\ waiting_for \subseteq waiting_for'
  BY <1>1, <1>2 DEF ListsOwn, RunInv, TrackedReady, TrackedApplied, TrackedThere, TrackedHeld,
                    Contained, Container, Tracked
<1>4. \A u \in Task : u # t =>
          /\ state'[u] = state[u] /\ result'[u] = result[u]
          /\ u \in finished_tasks' => u \in finished_tasks
          /\ u \in timers' => u \in timers
  <2>1. CASE Finish(t)
    BY <1>1, <2>1 DEF TypeOK, Finish, Settle
  <2>2. CASE TimerFires(t)
    BY <1>1, <2>2, SentStored DEF TimerFires
  <2> QED
    BY <2>1, <2>2
<1>5. ASSUME Plain(t)
      PROVE  /\ t \in waiting_for'
             /\ t \in DOMAIN ops /\ Duplicate(t) \notin DOMAIN ops
             /\ state[t] # "succeeded"
             /\ t.op \in Nop => state'[t] \in {"pending", "succeeded"}
             /\ t \in finished_tasks' =>
                   /\ t \notin timers' /\ state'[t] \in TERMINATED_STATES
                   /\ state'[t] # state[t]
                   /\ t.op \in Nop => result'[t] = "value"
             /\ t \in timers' => state'[t] = "pending"
  <2>1. TaskStored(t)
    BY <1>2, <1>5
  <2>2. t \in waiting_for /\ state[t] \in {"sent", "pending"} /\ t \notin finished_tasks
    BY <2>1 DEF Finish, TimerFires, TaskStored, TimerPending, EndStored, TERMINATED_STATES
  <2>3. t \in DOMAIN ops /\ Duplicate(t) \notin DOMAIN ops /\ t \in waiting_for'
    BY <1>1, <2>1, <2>2 DEF TaskStored, LastStored, Alive
  <2>4. CASE Finish(t)
    <3>1. /\ state[t] = "sent" /\ timers' = timers /\ t \notin timers
          /\ t.op \notin Nop
      BY <2>1, <2>4 DEF Finish, TaskStored, TimerPending, NopPending
    <3>2. PICK r : Settle(t, StateFor(r), r)
      BY <2>4 DEF Finish
    <3>3. state'[t] \in {"succeeded", "failed", "rescheduled"}
      BY <1>1, <3>2 DEF Settle, StateFor, TypeOK
    <3> QED
      BY <2>2, <2>3, <3>1, <3>3 DEF TERMINATED_STATES
  <2>5. CASE TimerFires(t)
    <3>1. state[t] = "pending" /\ timers' = timers \ {t}
      BY <2>1, <2>5 DEF TimerFires, TaskStored, TimerPending
    <3>2. CASE UNCHANGED <<state, result, finished_tasks>>
      BY <2>2, <2>3, <3>1, <3>2
    <3>3. CASE Send(t)
      BY <1>1, <2>2, <2>3, <3>1, <3>3, SentStored DEF TERMINATED_STATES
    <3> QED
      BY <2>5, <3>2, <3>3 DEF TimerFires
  <2> QED
    BY <2>4, <2>5
<1>6. StoreTyped' /\ \A u \in Task : Plain(u)' => TaskStored(u)'
  BY <1>1, <1>2, <1>3, <1>4, <1>5, TouchedStored
<1> QED
  BY <1>1, <1>3, <1>6 DEF ResumeInv

LEMMA SubgraphRunStored ==
    ASSUME ConsistencyInv, ConsistencyInv', ResumeInv, NEW s \in Task, RunSubgraph(s),
           Store({}), UNCHANGED restored
    PROVE  ResumeInv'
<1> DEFINE g == [graph EXCEPT !.ready = @ \ {s}]
<1>1. /\ TypeOK /\ Consistent(graph) /\ state' \in [Task -> State]
      /\ graph.tasks \subseteq Task /\ waiting_for \subseteq Task
      /\ graph.ready \subseteq Task /\ subtasks[s] \subseteq Task
      /\ error = "none" /\ s \in graph.ready /\ IsSubgraph(s)
      /\ graph' = ReleaseFrom(g, s, subtasks[s])
      /\ waiting_for' = waiting_for \cup {s}
      /\ finished_tasks' \subseteq finished_tasks \cup {s}
      /\ \A u \in Task : u # s => state'[u] = state[u]
      /\ UNCHANGED <<error, pc, result, subtasks, timers>>
  BY DEF ConsistencyInv, TypeOK, GraphType, RunSubgraph
<1>2. /\ StoreTyped /\ ListsOwn /\ RunInv
      /\ \A u \in Task : Plain(u) => TaskStored(u)
  BY <1>1 DEF ResumeInv
<1>3. /\ g.tasks = graph.tasks /\ g.dependencies = graph.dependencies
      /\ g.ready = graph.ready \ {s}
  BY <1>1 DEF Consistent, GraphType
<1> HIDE DEF g
<1>4. /\ graph'.tasks = graph.tasks
      /\ \A u \in Task : graph'.dependencies[u] =
             IF u \in subtasks[s] THEN graph.dependencies[u] \ {s} ELSE graph.dependencies[u]
      /\ graph'.ready = (graph.ready \ {s}) \cup
                        {u \in subtasks[s] : graph.dependencies[u] \subseteq {s}}
  BY <1>1, <1>3 DEF ReleaseFrom
<1>5. Tracked(s) => /\ s \in graph.tasks /\ graph.dependencies[s] = {}
                    /\ s \notin waiting_for /\ subtasks[s] \subseteq graph.tasks
  BY <1>1, <1>2 DEF RunInv, TrackedReady, TrackedThere
<1>6. ASSUME NEW x \in subtasks[s], Tracked(x)
      PROVE  /\ Tracked(s) /\ x \in graph.tasks /\ x # s /\ Container(x) = s
             /\ x \notin waiting_for
  <2>1. x \in Task /\ Contained(x) /\ Container(x) = s
    BY <1>1, <1>2 DEF ListsOwn
  <2>2. Tracked(s) /\ x # s
    BY <1>6, <2>1, TrackedShape, ContainerShape
  <2>3. x \notin waiting_for
    BY <1>2, <1>5, <1>6, <2>1, <2>2 DEF RunInv, TrackedApplied
  <2> QED
    BY <1>5, <2>1, <2>2, <2>3
<1>7. StoreTyped' /\ \A u \in Task : Plain(u)' => TaskStored(u)'
  <2>1. ~Plain(s)
    BY <1>1 DEF Plain
  <2>2. \A u \in Task : u # s =>
            /\ state'[u] = state[u] /\ result'[u] = result[u]
            /\ u \in finished_tasks' => u \in finished_tasks
            /\ u \in timers' => u \in timers
    BY <1>1
  <2>3. waiting_for' \subseteq waiting_for \cup {s} /\ waiting_for \subseteq waiting_for'
    BY <1>1
  <2> QED
    BY <1>1, <1>2, <1>4, <2>1, <2>2, <2>3, TouchedStored
<1>8. TrackedReady'
  <2> SUFFICES ASSUME NEW u \in graph'.ready, Tracked(u)
               PROVE  /\ u \in graph'.tasks /\ graph'.dependencies[u] = {}
                      /\ u \notin waiting_for'
    BY DEF TrackedReady, Tracked
  <2>1. CASE u \in graph.ready \ {s}
    <3>1. u \in graph.tasks /\ graph.dependencies[u] = {} /\ u \notin waiting_for
      BY <1>2, <2>1 DEF RunInv, TrackedReady
    <3> QED
      BY <1>1, <1>4, <2>1, <3>1
  <2>2. CASE u \in subtasks[s] /\ graph.dependencies[u] \subseteq {s}
    BY <1>1, <1>4, <1>6, <2>2
  <2> QED
    BY <1>4, <2>1, <2>2
<1>9. TrackedApplied'
  <2> SUFFICES ASSUME NEW u \in waiting_for', Tracked(u)
               PROVE  /\ graph'.dependencies[u] = {}
                      /\ Contained(u) => Container(u) \notin graph'.tasks \ waiting_for'
    BY DEF TrackedApplied, Tracked, Contained, Container
  <2>1. /\ u \in Task /\ graph.dependencies[u] = {}
        /\ Contained(u) => Container(u) \notin graph.tasks \ waiting_for
    <3>1. CASE u \in waiting_for
      BY <1>1, <1>2, <3>1 DEF RunInv, TrackedApplied
    <3>2. CASE u = s
      BY <1>2, <1>5, <3>2 DEF RunInv, TrackedHeld
    <3> QED
      BY <1>1, <3>1, <3>2
  <2> QED
    BY <1>1, <1>4, <2>1
<1>10. TrackedThere'
  BY <1>1, <1>2, <1>4 DEF RunInv, TrackedThere, Tracked
<1>11. TrackedHeld'
  <2> SUFFICES ASSUME NEW u \in graph'.tasks, Tracked(u), Contained(u),
                      Container(u) \in graph'.tasks \ waiting_for'
               PROVE  Container(u) \in graph'.dependencies[u]
    BY DEF TrackedHeld, Tracked, Contained, Container
  <2>1. Container(u) # s /\ Container(u) \in graph.dependencies[u] /\ u \in Task
    BY <1>1, <1>2, <1>4 DEF RunInv, TrackedHeld
  <2> QED
    BY <1>4, <2>1
<1>12. ListsOwn'
  BY <1>1, <1>2 DEF ListsOwn, Contained, Container
<1> QED
  BY <1>1, <1>7, <1>8, <1>9, <1>10, <1>11, <1>12 DEF ResumeInv, RunInv

(* Steps that change no task, and no step. *)
LEMMA QuietStored ==
    ASSUME ConsistencyInv, ConsistencyInv', ResumeInv, Store({}),
           Check \/ RunDone \/ HandleDone \/ Cancel \/ DeadlinePasses, UNCHANGED restored
    PROVE  ResumeInv'
<1>1. /\ TypeOK /\ StoreTyped /\ state' \in [Task -> State]
      /\ UNCHANGED <<graph, waiting_for, finished_tasks, state, result, subtasks, timers>>
      /\ error # "crashed" /\ error' # "crashed" /\ (error' = "none" => error = "none")
      /\ graph.tasks \subseteq Task /\ waiting_for \subseteq Task
  BY DEF ConsistencyInv, TypeOK, GraphType, Check, RunDone, HandleDone, Cancel, DeadlinePasses,
         ResumeInv
<1>2. /\ ListsOwn /\ \A u \in Task : Plain(u) => TaskStored(u)
      /\ error = "none" => RunInv
  BY <1>1 DEF ResumeInv
<1>3. StoreTyped' /\ DOMAIN ops' = DOMAIN ops
      /\ \A u \in DOMAIN ops : u \in Task => ops'[u].state = ops[u].state
  <2>1. {} \in SUBSET Task /\ \A u \in {} : u.try > 0 \/ u.gen > 0
    OBVIOUS
  <2>2. /\ StoreTyped' /\ DOMAIN ops' = DOMAIN ops \cup {}
        /\ \A u \in DOMAIN ops :
              ops'[u].state = IF state'[u] # state[u] /\ ~Unstored(u, state'[u])
                              THEN state'[u] ELSE ops[u].state
    BY <1>1, <2>1, StoreEffect DEF Restarted
  <2> QED
    BY <1>1, <2>2
<1>4. ASSUME NEW u \in Task, Plain(u)
      PROVE  TaskStored(u)'
  <2>1. TaskStored(u)
    BY <1>2, <1>4
  <2>2. u \in finished_tasks => u \in waiting_for
    BY <2>1 DEF TaskStored, EndStored
  <2>3. u \in timers => u \in waiting_for
    BY <2>1 DEF TaskStored, TimerPending
  <2> QED
    BY <1>1, <1>3, <2>1, <2>2, <2>3, Untouched
<1>5. /\ ListsOwn' /\ (error' = "none" => RunInv')
      /\ \A u \in Task : Plain(u)' <=> Plain(u)
  BY <1>1, <1>2 DEF ListsOwn, RunInv, TrackedReady, TrackedApplied, TrackedThere, TrackedHeld,
                    Contained, Container, Tracked, Plain, IsSubgraph
<1> QED
  BY <1>1, <1>3, <1>4, <1>5 DEF ResumeInv

(* Any step of the engine within one process. *)
LEMMA EngineStored ==
    ASSUME ConsistencyInv, ConsistencyInv', ResumeInv,
           Loop \/ (\E t \in Task : Answer(t) \/ Delayed(t)) \/ CancelOrder \/ WindowEnds
    PROVE  ResumeInv'
<1>1. CASE \E t \in Task : Apply(t) /\ Store({}) /\ Kept
  <2>1. PICK t \in Task : Apply(t) /\ Store({}) /\ Kept
    BY <1>1
  <2>2. /\ RunOperation(t) \/ RunSubgraph(t)
        /\ t \in restored => t \notin timers'
        /\ UNCHANGED restored
    BY <2>1 DEF Apply, Run, Kept
  <2> QED
    BY <2>1, <2>2, OperationRunStored, SubgraphRunStored
<1>2. CASE \E t \in Task : Handle(t) /\ Store(NewStored(t)) /\ Kept
  <2>1. PICK t \in Task : Handle(t) /\ Store(NewStored(t)) /\ Kept
    BY <1>2
  <2>2. /\ \/ HandleEnd(t) \/ HandleFail(t) \/ HandleRetry(t)
           \/ HandleRebuild(t) \/ HandlePropagate(t)
        /\ UNCHANGED restored
    BY <2>1 DEF Handle, Kept
  <2> HIDE DEF NewStored
  <2> QED
    BY <2>1, <2>2, EndKeepsStore, PropagateKeepsStore, RebuildKeepsStore, UntrackedRetry,
       TrackedRetry
<1>3. CASE \E t \in Task : (Finish(t) \/ TimerFires(t)) /\ Store({}) /\ Kept
  BY <1>3, DueStored DEF Kept
<1>4. CASE (Check \/ RunDone \/ HandleDone \/ Cancel \/ DeadlinePasses) /\ Store({}) /\ Kept
  BY <1>4, QuietStored DEF Kept
<1> QED
  BY <1>1, <1>2, <1>3, <1>4 DEF Loop, Answer, Delayed, CancelOrder, WindowEnds

-----------------------------------------------------------------------------
(* A graph that is restored *)

(* The store as a resume reads it, after the manager's reset or without.   *)
ReadFrom(stored) ==
    \E hit \in SUBSET AboutToSend :
        stored = LeftStored(hit) \/ stored = Reset(LeftStored(hit))

(* What a resume may read of an operation that was stored as o. *)
MayRead(t, o, read) ==
    \/ read.state = o.state
    \/ /\ read.state = "pending"
       /\ o.state \in {"failed", "rescheduled"}
       /\ t.try = MaxTry \/ Duplicate(t) \notin DOMAIN ops
    \/ /\ read.state = "sending" /\ o.state = "pending"
       /\ t.op \notin Subgraph \cup Nop

LEMMA ReadStore ==
    ASSUME StoreTyped, NEW stored, ReadFrom(stored)
    PROVE  /\ DOMAIN stored = DOMAIN ops
           /\ stored \in [DOMAIN ops -> [state : State, dependencies : SUBSET Task]]
           /\ \A t \in DOMAIN ops : MayRead(t, ops[t], stored[t])
<1>1. PICK hit \in SUBSET AboutToSend :
          stored = LeftStored(hit) \/ stored = Reset(LeftStored(hit))
  BY DEF ReadFrom
<1> DEFINE Stored == [state : State, dependencies : SUBSET Task]
           left(t) == IF t \in hit THEN [ops[t] EXCEPT !.state = "sending"] ELSE ops[t]
           read(t) == IF /\ left(t).state \in {"failed", "rescheduled"}
                         /\ t.try = MaxTry \/ Duplicate(t) \notin DOMAIN ops
                      THEN [left(t) EXCEPT !.state = "pending"] ELSE left(t)
<1>2. LeftStored(hit) = [t \in DOMAIN ops |-> left(t)]
  BY DEF LeftStored
<1>3. DOMAIN LeftStored(hit) = DOMAIN ops /\ \A t \in DOMAIN ops : LeftStored(hit)[t] = left(t)
  BY <1>2
<1>4. Reset(LeftStored(hit)) = [t \in DOMAIN ops |-> read(t)]
  BY <1>3 DEF Reset
<1>5. ASSUME NEW t \in DOMAIN ops
      PROVE  /\ left(t) \in Stored /\ MayRead(t, ops[t], left(t))
             /\ read(t) \in Stored /\ MayRead(t, ops[t], read(t))
  <2>1. ops[t] \in Stored /\ "pending" \in State /\ "sending" \in State
    BY DEF StoreTyped, State
  <2>2. \A o \in Stored, s \in State : /\ [o EXCEPT !.state = s] \in Stored
                                      /\ [o EXCEPT !.state = s].state = s
    OBVIOUS
  <2>3. t \in hit => ops[t].state = "pending" /\ t.op \notin Subgraph \cup Nop
    BY DEF AboutToSend
  <2>4. left(t) \in Stored /\ MayRead(t, ops[t], left(t))
    BY <2>1, <2>2, <2>3 DEF MayRead
  <2>5. left(t).state \in {"failed", "rescheduled"} => left(t) = ops[t]
    BY <2>1, <2>2
  <2> HIDE DEF left, Stored
  <2> QED
    BY <2>1, <2>2, <2>4, <2>5 DEF MayRead
<1> HIDE DEF left, read
<1> QED
  BY <1>1, <1>2, <1>4, <1>5

LEMMA RestoredAreTasks ==
    ASSUME StoreTyped, NEW stored, ReadFrom(stored)
    PROVE  /\ RestoredTasks(stored) \in SUBSET Task
           /\ \A t \in RestoredTasks(stored) : ~IsSubgraph(t) => t \in Live(stored)
           /\ Live(stored) \subseteq RestoredTasks(stored)
<1>1. Live(stored) \subseteq Task
  BY ReadStore DEF Live, StoreTyped
<1>2. \A S \in SUBSET Task : \A t \in S : Contained(t) => Container(t) \in Task /\ IsSubgraph(Container(t))
  BY ContainerShape
<1>3. {Container(t) : t \in {u \in Live(stored) : Contained(u)}} \subseteq {t \in Task : IsSubgraph(t)}
  BY <1>1, <1>2
<1> DEFINE around == {Container(t) : t \in {u \in Live(stored) : Contained(u)}}
<1>4. {Container(t) : t \in {u \in around : Contained(u)}} \subseteq {t \in Task : IsSubgraph(t)}
  BY <1>2, <1>3
<1> QED
  BY <1>1, <1>3, <1>4 DEF RestoredTasks

LEMMA RestoredGraphShape ==
    ASSUME StoreTyped, NEW stored, ReadFrom(stored)
    PROVE  LET g == RestoredGraph(stored)
               kept == RestoredTasks(stored)
           IN  /\ Consistent(g) /\ g.tasks = kept
               /\ \A t \in g.ready : t \in kept /\ g.dependencies[t] = {}
               /\ \A t \in kept : Contained(t) /\ Container(t) \in kept =>
                     Container(t) \in g.dependencies[t]
<1> DEFINE kept == RestoredTasks(stored)
           E    == RestoredEdges(stored, kept)
           a    == AddTasks(EmptyGraph, kept)
           g    == AddDependencies(a, E)
<1>1. kept \in SUBSET Task
  BY RestoredAreTasks
<1>2. E \in SUBSET (kept \X kept)
  BY DEF RestoredEdges
<1>3. \A t \in kept : Contained(t) /\ Container(t) \in kept => <<t, Container(t)>> \in E
  BY DEF RestoredEdges
<1> HIDE DEF kept, E
<1>4. /\ Consistent(a) /\ a.tasks = kept /\ a.ready = kept
      /\ \A t \in Task : a.dependencies[t] = {}
  <2>1. Consistent(EmptyGraph)
    BY EmptyGraphConsistent
  <2>2. /\ Consistent(a) /\ a.tasks = EmptyGraph.tasks \cup kept
        /\ a.ready = EmptyGraph.ready \cup kept
        /\ a.dependencies = EmptyGraph.dependencies
    BY <1>1, <2>1, AddTasksConsistent
  <2> QED
    BY <2>2 DEF EmptyGraph
<1> HIDE DEF a
<1>5. Consistent(g) /\ g.tasks = kept
  BY <1>2, <1>4, AddDependenciesConsistent
<1>6. /\ \A t \in Task : g.dependencies[t] = a.dependencies[t] \cup {d \in Task \ {t} : <<t, d>> \in E}
      /\ g.ready = a.ready \ {t \in Task : \E d \in Task \ {t} : <<t, d>> \in E}
  BY DEF AddDependencies
<1> HIDE DEF g
<1>7. ASSUME NEW t \in g.ready
      PROVE  t \in kept /\ g.dependencies[t] = {}
  <2>1. t \in kept /\ t \in Task /\ {d \in Task \ {t} : <<t, d>> \in E} = {}
    BY <1>1, <1>4, <1>6
  <2> QED
    BY <1>4, <1>6, <2>1
<1>8. ASSUME NEW t \in kept, Contained(t), Container(t) \in kept
      PROVE  Container(t) \in g.dependencies[t]
  <2>1. t \in Task /\ Container(t) \in Task /\ Container(t) # t
    BY <1>1, <1>8, ContainerShape
  <2>2. Container(t) \in {d \in Task \ {t} : <<t, d>> \in E}
    BY <1>3, <1>8, <2>1
  <2> QED
    BY <1>6, <2>1, <2>2
<1> QED
  BY <1>5, <1>7, <1>8 DEF RestoredGraph, kept, E, a, g

(* The cleanup adds none but its own tasks, and no edge from another but   *)
(* from an install.                                                        *)
LEMMA WithCleanupShape ==
    ASSUME NEW g, Consistent(g), NEW S \in SUBSET Installs,
           \A s \in S : FirstTask(s, 0) \in g.tasks
    PROVE  LET h == WithCleanup(g, S)
           IN  /\ Consistent(h) /\ g.tasks \subseteq h.tasks
               /\ \A t \in Task : t.op \notin CleanupOps =>
                     /\ t \in h.tasks <=> t \in g.tasks
                     /\ t \in h.ready => t \in g.ready /\ h.dependencies[t] = g.dependencies[t]
                     /\ g.dependencies[t] \subseteq h.dependencies[t]
<1> DEFINE O == UNION {Inside(Cleanup[s]) : s \in S}
           first(s) == FirstTask(Cleanup[s], 0)
           built == Build(g, O, 0)
           E == UNION {({first(s)} \X g.dependencies[FirstTask(s, 0)])
                       \cup {<<FirstTask(s, 0), first(s)>>} : s \in S}
           h == AddDependencies(built, E)
           a == AddTasks(g, TasksFor(O, 0))
<1>1. /\ O \in SUBSET Op /\ O \subseteq CleanupOps /\ 0 \in 0..MaxGen
      /\ \A s \in S : Cleanup[s] \in O
  BY ResumeAssumption, WorkflowAssumption, BoundAssumption DEF Inside, CleanupOps
<1>2. /\ \A t \in TasksFor(O, 0) : t.op \in CleanupOps
      /\ \A t : t.op \notin CleanupOps => \A d : <<t, d>> \notin EdgesFor(O, 0)
  BY <1>1 DEF TasksFor, EdgesFor, FirstTask
<1>3. \A s \in S : first(s) \in TasksFor(O, 0) /\ first(s) \in Task /\ FirstTask(s, 0) \in g.tasks
  <2>1. TasksFor(O, 0) \subseteq Task
    BY <1>1, FirstTaskIsTask DEF TasksFor
  <2> QED
    BY <1>1, <2>1 DEF TasksFor
<1>4. /\ Consistent(built) /\ built.tasks = g.tasks \cup TasksFor(O, 0)
      /\ \A t \in Task : t.op \notin CleanupOps =>
            /\ t \in built.ready <=> t \in g.ready
            /\ built.dependencies[t] = g.dependencies[t]
  <2>1. Consistent(built) /\ built.tasks = g.tasks \cup TasksFor(O, 0)
    BY <1>1, BuildConsistent
  <2>2. /\ a.ready = g.ready \cup TasksFor(O, 0)
        /\ a.dependencies = g.dependencies /\ g.dependencies \in [Task -> SUBSET Task]
    BY DEF AddTasks, Consistent, GraphType
  <2>3. /\ \A t \in Task : built.dependencies[t] =
               a.dependencies[t] \cup {d \in Task \ {t} : <<t, d>> \in EdgesFor(O, 0)}
        /\ built.ready = a.ready \ {t \in Task : \E d \in Task \ {t} : <<t, d>> \in EdgesFor(O, 0)}
    BY DEF Build, AddDependencies
  <2> HIDE DEF O, built, a
  <2>4. ASSUME NEW t \in Task, t.op \notin CleanupOps
        PROVE  /\ t \in built.ready <=> t \in g.ready
               /\ built.dependencies[t] = g.dependencies[t]
    <3>1. t \notin TasksFor(O, 0) /\ {d \in Task \ {t} : <<t, d>> \in EdgesFor(O, 0)} = {}
      BY <1>2, <2>4
    <3>2. t \in built.ready <=> t \in a.ready
      BY <1>2, <2>3, <2>4
    <3>3. t \in a.ready <=> t \in g.ready
      BY <2>2, <3>1
    <3>4. built.dependencies[t] = a.dependencies[t] \cup {}
      BY <2>3, <3>1
    <3> QED
      BY <2>2, <3>2, <3>3, <3>4
  <2> QED
    BY <2>1, <2>4
<1>5. E \in SUBSET (built.tasks \X built.tasks)
  <2>1. \A s \in S : g.dependencies[FirstTask(s, 0)] \subseteq g.tasks
    BY <1>3 DEF Consistent, GraphType, EdgesInside
  <2> HIDE DEF first, O, built
  <2> QED
    BY <1>3, <1>4, <2>1
<1> HIDE DEF O, E, built, first
<1>6. Consistent(h) /\ h.tasks = built.tasks
  BY <1>4, <1>5, AddDependenciesConsistent
<1>7. /\ \A t \in Task : h.dependencies[t] = built.dependencies[t] \cup {d \in Task \ {t} : <<t, d>> \in E}
      /\ h.ready = built.ready \ {t \in Task : \E d \in Task \ {t} : <<t, d>> \in E}
  BY DEF AddDependencies
<1> HIDE DEF h
<1>8. ASSUME NEW t \in Task, t.op \notin CleanupOps
      PROVE  /\ t \in h.tasks <=> t \in g.tasks
             /\ t \in h.ready => t \in g.ready /\ h.dependencies[t] = g.dependencies[t]
             /\ g.dependencies[t] \subseteq h.dependencies[t]
  <2>1. t \in h.ready => {d \in Task \ {t} : <<t, d>> \in E} = {}
    BY <1>7
  <2>2. t \in h.tasks <=> t \in g.tasks
    BY <1>2, <1>4, <1>6, <1>8
  <2>3. /\ t \in built.ready <=> t \in g.ready
        /\ built.dependencies[t] = g.dependencies[t]
    BY <1>4, <1>8
  <2>4. h.dependencies[t] = built.dependencies[t] \cup {d \in Task \ {t} : <<t, d>> \in E}
    BY <1>7
  <2> QED
    BY <1>7, <2>1, <2>2, <2>3, <2>4
<1> QED
  BY <1>4, <1>6, <1>8 DEF WithCleanup, h, built, E, first, O

(* What a restored process starts with. *)
LEMMA ResumeEffect ==
    ASSUME ConsistencyInv, ResumeInv, NEW forced \in BOOLEAN, Resume(forced)
    PROVE  /\ ReadFrom(ops') /\ StoreTyped /\ error # "crashed"
           /\ waiting_for' = {} /\ finished_tasks' = {} /\ failed_task' = {} /\ timers' = {}
           /\ cancel_request' = FALSE /\ deadline_passed' = FALSE
           /\ redelivery' = redelivery
           /\ \/ /\ error' = "none" /\ pc' = "check"
                 /\ RestoredTasks(ops') \subseteq DOMAIN ops
                 /\ graph' = WithCleanup(RestoredGraph(ops'),
                                CleanedUp(RestoredTasks(ops'),
                                          RestoredState(ops', RestoredTasks(ops'))))
                 /\ state' = RestoredState(ops', RestoredTasks(ops'))
                 /\ result' = [t \in Task |-> IF t \in DOMAIN ops \ RestoredTasks(ops')
                                              THEN result[t] ELSE "not_set"]
                 /\ subtasks' = RestoredSubtasks(ops', RestoredTasks(ops'))
                 /\ restored' = RestoredTasks(ops')
              \/ /\ error' = "crashed" /\ pc' = "returned"
                 /\ UNCHANGED <<graph, state, result, subtasks, restored>>
<1>1. /\ error # "crashed" /\ StoreTyped
      /\ \E hit \in SUBSET AboutToSend :
            ops' = IF forced THEN Reset(LeftStored(hit)) ELSE LeftStored(hit)
      /\ Restore(ops')
      /\ waiting_for' = {} /\ finished_tasks' = {} /\ failed_task' = {} /\ timers' = {}
      /\ cancel_request' = FALSE /\ deadline_passed' = FALSE
      /\ redelivery' = redelivery
  BY DEF Resume, ResumeInv
<1>2. ReadFrom(ops')
  BY <1>1 DEF ReadFrom
<1>3. DOMAIN ops' = DOMAIN ops
  BY <1>1, <1>2, ReadStore
<1> QED
  BY <1>1, <1>2, <1>3 DEF Restore

LEMMA ResumeConsistent ==
    ASSUME ConsistencyInv, ResumeInv, NEW forced \in BOOLEAN, Resume(forced)
    PROVE  ConsistencyInv' /\ StoreTyped'
<1> DEFINE kept == RestoredTasks(ops')
           g    == RestoredGraph(ops')
           S    == CleanedUp(kept, RestoredState(ops', kept))
<1>1. /\ ReadFrom(ops') /\ StoreTyped /\ TypeOK /\ Consistent(graph)
      /\ waiting_for' = {} /\ finished_tasks' = {} /\ failed_task' = {} /\ timers' = {}
      /\ cancel_request' = FALSE /\ deadline_passed' = FALSE
      /\ redelivery' \in [due : SUBSET Task, again : SUBSET Task, handled : SUBSET Task]
  BY ResumeEffect DEF ConsistencyInv, TypeOK
<1>2. /\ DOMAIN ops' = DOMAIN ops /\ DOMAIN ops \subseteq Task
      /\ ops' \in [DOMAIN ops -> [state : State, dependencies : SUBSET Task]]
      /\ kept \in SUBSET Task
  BY <1>1, ReadStore, RestoredAreTasks DEF StoreTyped
<1>3. CASE /\ error' = "crashed" /\ pc' = "returned"
           /\ UNCHANGED <<graph, state, result, subtasks, restored>>
  BY <1>1, <1>2, <1>3 DEF ConsistencyInv, TypeOK, StoreTyped
<1>4. CASE /\ error' = "none" /\ pc' = "check"
           /\ kept \subseteq DOMAIN ops
           /\ graph' = WithCleanup(g, S)
           /\ state' = RestoredState(ops', kept)
           /\ result' = [t \in Task |-> IF t \in DOMAIN ops \ kept THEN result[t] ELSE "not_set"]
           /\ subtasks' = RestoredSubtasks(ops', kept)
           /\ restored' = kept
  <2>1. Consistent(g) /\ g.tasks = kept
    BY <1>1, RestoredGraphShape
  <2>2. S \in SUBSET Installs /\ \A s \in S : FirstTask(s, 0) \in g.tasks
    BY <2>1 DEF CleanedUp
  <2> HIDE DEF S, g, kept
  <2>3. Consistent(graph')
    BY <1>4, <2>1, <2>2, WithCleanupShape
  <2>4. state' \in [Task -> State]
    <3>1. \A t \in Task :
              (IF \E u \in kept : Contained(u) /\ Container(u) = t THEN "started"
               ELSE IF t \in DOMAIN ops' THEN ops'[t].state
               ELSE "pending") \in State
      BY <1>2 DEF State
    <3> QED
      BY <1>4, <3>1 DEF RestoredState
  <2>5. result' \in [Task -> Result]
    <3>1. \A t \in Task : (IF t \in DOMAIN ops \ kept THEN result[t] ELSE "not_set") \in Result
      BY <1>1 DEF TypeOK, Result
    <3> QED
      BY <1>4, <3>1
  <2>6. subtasks' \in [Task -> SUBSET Task]
    <3>1. \A s \in Task : MadeOf(s) \in SUBSET Task
      BY TaskFields, FirstTaskIsTask DEF MadeOf, TasksFor, Members
    <3>2. \A s \in Task : (IF s \in DOMAIN ops' THEN {t \in kept : Contained(t) /\ Container(t) = s}
                          ELSE MadeOf(s)) \in SUBSET Task
      BY <1>2, <3>1
    <3> QED
      BY <1>4, <3>2 DEF RestoredSubtasks
  <2>7. TypeOK'
    BY <1>1, <1>4, <2>3, <2>4, <2>5, <2>6 DEF TypeOK, Consistent
  <2> QED
    BY <1>2, <1>4, <2>3, <2>7 DEF ConsistencyInv, StoreTyped
<1> QED
  BY <1>3, <1>4, ResumeEffect

(* What is said of a stored operation holds of what is restored of it. *)
LEMMA TaskRestored ==
    ASSUME ConsistencyInv, ResumeInv, NEW forced \in BOOLEAN, Resume(forced),
           error' # "crashed", NEW t \in Task, Plain(t)
    PROVE  /\ TaskStored(t)'
           /\ Done(t) => Done(t)'
<1> DEFINE kept == RestoredTasks(ops')
           g    == RestoredGraph(ops')
           S    == CleanedUp(kept, RestoredState(ops', kept))
<1>1. /\ ReadFrom(ops') /\ StoreTyped /\ error # "crashed"
      /\ waiting_for' = {} /\ finished_tasks' = {} /\ timers' = {}
      /\ kept \subseteq DOMAIN ops
      /\ graph' = WithCleanup(g, S)
      /\ state' = RestoredState(ops', kept)
      /\ result' = [u \in Task |-> IF u \in DOMAIN ops \ kept THEN result[u] ELSE "not_set"]
      /\ restored' = kept
  BY ResumeEffect
<1>2. /\ DOMAIN ops' = DOMAIN ops /\ DOMAIN ops \subseteq Task
      /\ \A u \in DOMAIN ops :
            \/ ops'[u].state = ops[u].state
            \/ /\ ops'[u].state = "pending"
               /\ ops[u].state \in {"failed", "rescheduled"}
               /\ u.try = MaxTry \/ Duplicate(u) \notin DOMAIN ops
            \/ /\ ops'[u].state = "sending" /\ ops[u].state = "pending"
               /\ u.op \notin Subgraph \cup Nop
  BY <1>1, ReadStore DEF StoreTyped, MayRead
<1>3. TaskStored(t)
  BY <1>1 DEF ResumeInv
<1>4. /\ kept \in SUBSET Task
      /\ t \in kept => t \in DOMAIN ops /\ ops'[t].state \notin TERMINATED_STATES
  BY <1>1, RestoredAreTasks DEF Plain, Live
<1>5. t \in graph'.tasks => t \in kept
  <2>1. Consistent(g) /\ g.tasks = kept
    BY <1>1, RestoredGraphShape
  <2>2. S \in SUBSET Installs /\ \A s \in S : FirstTask(s, 0) \in g.tasks
    BY <2>1 DEF CleanedUp
  <2> HIDE DEF S, g, kept
  <2> QED
    BY <1>1, <2>1, <2>2, WithCleanupShape DEF Plain, Tracked
<1>6. state'[t] = IF t \in DOMAIN ops THEN ops'[t].state ELSE "pending"
  <2>1. ~ \E u \in kept : Contained(u) /\ Container(u) = t
    BY <1>4, ContainerShape DEF Plain
  <2> HIDE DEF kept
  <2> QED
    BY <1>1, <1>2, <2>1 DEF RestoredState
<1>7. result'[t] = IF t \in DOMAIN ops \ kept THEN result[t] ELSE "not_set"
  BY <1>1
<1> HIDE DEF kept, g, S
<1>8. t \in DOMAIN ops /\ Duplicate(t) \in DOMAIN ops => ops'[t].state = ops[t].state
  <2> SUFFICES ASSUME t \in DOMAIN ops, Duplicate(t) \in DOMAIN ops
               PROVE  ops'[t].state = ops[t].state
    OBVIOUS
  <2>1. Duplicate(t) \in Task /\ Duplicate(t).try = t.try + 1
    BY <1>2, DuplicateOf
  <2>2. t.try # MaxTry
    BY <2>1, TaskFields, BoundAssumption
  <2> QED
    BY <1>2, <1>3, <2>2 DEF TaskStored, RetriedEnded, TERMINATED_STATES
<1>9. ChainStored(t)'
  BY <1>2, <1>3 DEF TaskStored, ChainStored
<1>10. RetriedEnded(t)'
  <2> SUFFICES ASSUME t \in DOMAIN ops, Duplicate(t) \in DOMAIN ops
               PROVE  /\ ops'[t].state \in TERMINATED_STATES
                      /\ ops'[t].state = "succeeded" => PollsAgain(t)'
    BY <1>2 DEF RetriedEnded, Duplicate
  <2>1. /\ ops'[t].state \in TERMINATED_STATES
        /\ ops'[t].state = "succeeded" => PollsAgain(t)
    BY <1>3, <1>8 DEF TaskStored, RetriedEnded
  <2>2. state'[t] = ops'[t].state /\ result'[t] = result[t]
    BY <1>4, <1>6, <1>7, <2>1
  <2> QED
    BY <2>1, <2>2 DEF PollsAgain
<1>11. GoodStored(t)' /\ NopPending(t)'
  BY <1>2, <1>3, <1>6 DEF TaskStored, GoodStored, NopPending
<1>12. LastStored(t)'
  BY <1>1, <1>2, <1>3, <1>4, <1>5, <1>8 DEF TaskStored, LastStored, Alive, RetriedEnded
<1>13. NotEnded(t)'
  BY <1>1, <1>4, <1>5, <1>6 DEF NotEnded
<1>14. EndStored(t)' /\ TimerPending(t)'
  BY <1>1 DEF EndStored, TimerPending
<1>15. ASSUME Done(t)
       PROVE  Done(t)'
  <2>1. t \in DOMAIN ops /\ ops[t].state = "succeeded" /\ state[t] = "succeeded"
    BY <1>3, <1>15 DEF Done, TaskStored, GoodStored
  <2>2. ops'[t].state = "succeeded"
    BY <1>2, <2>1
  <2>3. state'[t] = "succeeded" /\ result'[t] = result[t]
    BY <1>4, <1>6, <1>7, <2>1, <2>2 DEF TERMINATED_STATES
  <2> QED
    BY <1>15, <2>1, <2>3 DEF Done, PollsAgain
<1> QED
  BY <1>9, <1>10, <1>11, <1>12, <1>13, <1>14, <1>15 DEF TaskStored

LEMMA ResumeStored ==
    ASSUME ConsistencyInv, ResumeInv, NEW forced \in BOOLEAN, Resume(forced)
    PROVE  ResumeInv'
<1> DEFINE kept == RestoredTasks(ops')
           g    == RestoredGraph(ops')
           S    == CleanedUp(kept, RestoredState(ops', kept))
<1>1. StoreTyped' /\ ConsistencyInv'
  BY ResumeConsistent
<1>2. CASE error' = "crashed" /\ pc' = "returned"
  BY <1>1, <1>2 DEF ResumeInv
<1>3. CASE /\ error' = "none" /\ pc' = "check"
           /\ graph' = WithCleanup(g, S)
           /\ subtasks' = RestoredSubtasks(ops', kept)
           /\ kept \subseteq DOMAIN ops
           /\ restored' = kept
  <2>1. /\ ReadFrom(ops') /\ StoreTyped /\ waiting_for' = {}
        /\ DOMAIN ops' = DOMAIN ops
    BY ResumeEffect, ReadStore
  <2>2. /\ Consistent(g) /\ g.tasks = kept /\ kept \in SUBSET Task
        /\ \A t \in g.ready : t \in kept /\ g.dependencies[t] = {}
        /\ \A t \in kept : Contained(t) /\ Container(t) \in kept =>
               Container(t) \in g.dependencies[t]
    BY <2>1, RestoredGraphShape, RestoredAreTasks
  <2>3. S \in SUBSET Installs /\ \A s \in S : FirstTask(s, 0) \in g.tasks
    BY <2>2 DEF CleanedUp
  <2> HIDE DEF S, g, kept
  <2>4. /\ kept \subseteq graph'.tasks
        /\ \A t \in Task : Tracked(t) =>
              /\ t \in graph'.tasks <=> t \in kept
              /\ t \in graph'.ready => t \in g.ready /\ graph'.dependencies[t] = g.dependencies[t]
              /\ g.dependencies[t] \subseteq graph'.dependencies[t]
    BY <1>3, <2>2, <2>3, WithCleanupShape DEF Tracked
  <2>5. \A s \in Task : subtasks'[s] = IF s \in DOMAIN ops
                                       THEN {t \in kept : Contained(t) /\ Container(t) = s}
                                       ELSE MadeOf(s)
    BY <1>3, <2>1 DEF RestoredSubtasks
  <2>6. ListsOwn'
    <3> SUFFICES ASSUME NEW s \in Task, NEW t \in subtasks'[s]
                 PROVE  Contained(t) /\ Container(t) = s
      BY DEF ListsOwn, Contained, Container
    <3>1. CASE s \in DOMAIN ops
      BY <2>5, <3>1
    <3>2. CASE s \notin DOMAIN ops
      <4>1. t \in MadeOf(s)
        BY <2>5, <3>2
      <4>2. PICK o \in Members(s.op) : t = FirstTask(o, s.gen)
        BY <4>1 DEF MadeOf, TasksFor
      <4>3. /\ IsSubgraph(s) /\ s.try = 0 /\ s.op \in Op /\ s.op # NoOp
            /\ Parent[o] = s.op /\ t.op = o /\ t.gen = s.gen
        BY <4>1, <4>2, TaskFields, WorkflowAssumption DEF MadeOf, Members, FirstTask
      <4>4. FirstTask(s.op, s.gen) = s
        BY <4>3, TaskAssumption DEF FirstTask
      <4> QED
        BY <4>3, <4>4 DEF Contained, Container
    <3> QED
      BY <3>1, <3>2
  <2>7. \A t \in Task : Plain(t)' => TaskStored(t)'
    <3>1. \A t \in Task : Plain(t)' <=> Plain(t)
      BY DEF Plain, Tracked, IsSubgraph
    <3> QED
      BY <1>3, <3>1, TaskRestored
  <2>8. graph'.tasks \subseteq Task /\ graph'.ready \subseteq Task
    BY <1>1 DEF ConsistencyInv, TypeOK, GraphType
  <2>9. TrackedReady'
    BY <2>1, <2>2, <2>4, <2>8 DEF TrackedReady, Tracked
  <2>10. TrackedApplied'
    BY <2>1 DEF TrackedApplied
  <2>11. TrackedThere'
    <3> SUFFICES ASSUME NEW s \in graph'.tasks, Tracked(s)
                 PROVE  subtasks'[s] \subseteq graph'.tasks
      BY DEF TrackedThere, Tracked
    <3>1. s \in Task /\ s \in DOMAIN ops
      BY <1>3, <2>4, <2>8
    <3>2. subtasks'[s] \subseteq kept
      BY <2>5, <3>1
    <3> QED
      BY <2>4, <3>2
  <2>12. TrackedHeld'
    <3> SUFFICES ASSUME NEW t \in graph'.tasks, Tracked(t), Contained(t),
                        Container(t) \in graph'.tasks \ waiting_for'
                 PROVE  Container(t) \in graph'.dependencies[t]
      BY DEF TrackedHeld, Tracked, Contained, Container
    <3>1. t \in Task /\ Container(t) \in Task /\ Tracked(Container(t))
      BY <2>8, ContainerShape, TrackedShape
    <3> QED
      BY <2>2, <2>4, <3>1
  <2> QED
    BY <1>1, <1>3, <2>6, <2>7, <2>9, <2>10, <2>11, <2>12 DEF ResumeInv, RunInv
<1> QED
  BY <1>2, <1>3, ResumeEffect

-----------------------------------------------------------------------------
(* What is done is done once *)

(* The first graph, just built and stored. *)
LEMMA InitStored == ResumeInit => ConsistencyInv /\ ResumeInv
<1> SUFFICES ASSUME ResumeInit PROVE ConsistencyInv /\ ResumeInv
  OBVIOUS
<1>1. /\ FirstBuild \in SUBSET Op /\ 0 \in 0..MaxGen /\ {} \in SUBSET Task
      /\ Consistent(EmptyGraph) /\ Tight(EmptyGraph, {}) /\ EmptyGraph.tasks = {}
      /\ graph = Build(EmptyGraph, FirstBuild, 0)
  BY BoundAssumption, EmptyGraphConsistent, EmptyGraphTight
  DEF ResumeInit, FirstBuild, EmptyGraph
<1>2. /\ Consistent(graph) /\ graph.tasks = TasksFor(FirstBuild, 0)
  <2>1. /\ Consistent(Build(EmptyGraph, FirstBuild, 0))
        /\ Build(EmptyGraph, FirstBuild, 0).tasks = EmptyGraph.tasks \cup TasksFor(FirstBuild, 0)
    BY <1>1, BuildConsistent, Zenon
  <2> QED
    BY <1>1, <2>1
<1>3. /\ Tight(graph, {})
      /\ \A o, p \in FirstBuild : o # p /\ Linked(o, p) =>
             FirstTask(p, 0) \in graph.dependencies[FirstTask(o, 0)]
  <2>1. \A t \in TasksFor(FirstBuild, 0) : t \notin {} /\ t \notin EmptyGraph.tasks
    BY <1>1
  <2> QED
    BY <1>1, <2>1, BuildTight
<1>4. /\ waiting_for = {} /\ finished_tasks = {} /\ failed_task = {} /\ timers = {}
      /\ error = "none" /\ pc = "check"
      /\ state = [t \in Task |-> "pending"] /\ result = [t \in Task |-> "not_set"]
      /\ subtasks = [s \in Task |-> MadeOf(s)]
      /\ cancel_request = FALSE /\ deadline_passed = FALSE /\ restored = {}
      /\ redelivery \in [due : SUBSET Task, again : SUBSET Task, handled : SUBSET Task]
      /\ ops = StoredGraph(graph)
  BY DEF ResumeInit
<1>5. \A s \in Task : MadeOf(s) \in SUBSET Task
  BY TaskFields, FirstTaskIsTask DEF MadeOf, TasksFor, Members
<1>6. ConsistencyInv
  BY <1>2, <1>4, <1>5 DEF ConsistencyInv, TypeOK, Consistent, State, Result
<1>7. /\ DOMAIN ops = graph.tasks /\ DOMAIN ops \subseteq Task
      /\ \A t \in DOMAIN ops : ops[t].state = "pending"
      /\ ops \in [DOMAIN ops -> [state : State, dependencies : SUBSET Task]]
  <2>1. graph.tasks \subseteq Task /\ graph.dependencies \in [Task -> SUBSET Task]
    BY <1>2 DEF Consistent, GraphType
  <2>2. "pending" \in State
    BY DEF State
  <2> QED
    BY <1>4, <2>1, <2>2 DEF StoredGraph
<1>8. \A t \in DOMAIN ops : /\ t.try = 0 /\ t.gen = 0 /\ t.op \in FirstBuild
                            /\ t = FirstTask(t.op, 0)
  BY <1>2, <1>7 DEF TasksFor, FirstTask
<1>9. ASSUME NEW t \in Task PROVE TaskStored(t)
  <2>1. t \in DOMAIN ops => \A k \in 0..t.try : [t EXCEPT !.try = k] = t
    <3> SUFFICES ASSUME t \in DOMAIN ops, NEW k \in 0..t.try PROVE [t EXCEPT !.try = k] = t
      OBVIOUS
    <3>1. k = t.try
      BY <1>8
    <3> QED
      BY <3>1, DuplicateOf
  <2>2. Duplicate(t) \notin DOMAIN ops
    <3>1. Duplicate(t).try = t.try + 1 /\ t.try \in Nat
      BY DuplicateOf, TaskFields, BoundAssumption
    <3> QED
      BY <1>8, <3>1
  <2>3. state[t] = "pending"
    BY <1>4
  <2>4. ChainStored(t) /\ RetriedEnded(t) /\ LastStored(t)
    BY <1>4, <1>7, <2>1, <2>2 DEF ChainStored, RetriedEnded, LastStored, Alive
  <2>5. GoodStored(t) /\ NopPending(t) /\ NotEnded(t) /\ EndStored(t) /\ TimerPending(t)
    BY <1>4, <1>7, <2>3 DEF GoodStored, NopPending, NotEnded, EndStored, TimerPending,
                            TERMINATED_STATES
  <2> QED
    BY <2>4, <2>5 DEF TaskStored
<1>10. ASSUME NEW s \in Task, NEW t \in subtasks[s]
       PROVE  /\ Contained(t) /\ Container(t) = s /\ IsSubgraph(s)
              /\ t \in Task /\ t = FirstTask(t.op, s.gen)
  <2>1. t \in MadeOf(s)
    BY <1>4
  <2>2. PICK o \in Members(s.op) : t = FirstTask(o, s.gen)
    BY <2>1 DEF MadeOf, TasksFor
  <2>3. /\ IsSubgraph(s) /\ s.try = 0 /\ s.op \in Op /\ s.op # NoOp
        /\ Parent[o] = s.op /\ t.op = o /\ t.gen = s.gen
    BY <2>1, <2>2, TaskFields, WorkflowAssumption DEF MadeOf, Members, FirstTask
  <2>4. FirstTask(s.op, s.gen) = s
    BY <2>3, TaskAssumption DEF FirstTask
  <2> QED
    BY <1>5, <2>1, <2>2, <2>3, <2>4 DEF Contained, Container
<1>11. TrackedReady /\ TrackedApplied
  BY <1>3, <1>4 DEF TrackedReady, TrackedApplied, Tight, ReadyIsFree
<1>12. TrackedThere
  <2> SUFFICES ASSUME NEW s \in graph.tasks, Tracked(s), NEW t \in subtasks[s]
               PROVE  t \in graph.tasks
    BY DEF TrackedThere
  <2>1. s \in Task /\ s.gen = 0
    BY <1>7 DEF Tracked
  <2>2. /\ t \in Task /\ Contained(t) /\ Container(t) = s /\ t = FirstTask(t.op, 0)
    BY <1>10, <2>1
  <2>3. Tracked(t) /\ t.op \in Op
    BY <2>2, TrackedShape, TaskFields
  <2> QED
    BY <1>2, <2>2, <2>3 DEF Tracked, FirstBuild, TasksFor
<1>13. TrackedHeld
  <2> SUFFICES ASSUME NEW t \in graph.tasks, Contained(t), Container(t) \in graph.tasks
               PROVE  Container(t) \in graph.dependencies[t]
    BY DEF TrackedHeld
  <2>1. /\ t \in Task /\ t.op \in FirstBuild /\ t = FirstTask(t.op, 0)
        /\ Container(t).op \in FirstBuild
        /\ Container(t) = FirstTask(Container(t).op, 0)
    BY <1>7, <1>8
  <2>2. Container(t).op = Parent[t.op] /\ Container(t) # t
    BY <2>1, ContainerShape
  <2>3. t.op # Container(t).op
    BY <2>1, <2>2
  <2> QED
    BY <1>3, <2>1, <2>2, <2>3 DEF Linked
<1>14. StoreTyped /\ ListsOwn
  BY <1>4, <1>7, <1>10 DEF StoreTyped, ListsOwn
<1> QED
  BY <1>4, <1>6, <1>9, <1>11, <1>12, <1>13, <1>14 DEF ResumeInv, RunInv

LEMMA ResumeNextKeeps ==
    ConsistencyInv /\ ResumeInv /\ [ResumeNext]_rvars => ConsistencyInv' /\ ResumeInv'
<1> SUFFICES ASSUME ConsistencyInv, ResumeInv, [ResumeNext]_rvars
             PROVE  ConsistencyInv' /\ ResumeInv'
  OBVIOUS
<1>1. CASE Loop \/ (\E t \in Task : Answer(t) \/ Delayed(t)) \/ CancelOrder \/ WindowEnds
  <2>1. Next
    BY <1>1 DEF Loop, Apply, Answer, Delayed, CancelOrder, WindowEnds, Next, MainLoop, Due,
                Run, Handle, RunOperation, RunSubgraph, Finish, TimerFires, HandleEnd, HandleFail,
                HandleRetry, HandleRebuild, HandlePropagate, Popped
  <2>2. ConsistencyInv'
    BY <2>1, NextConsistency
  <2> QED
    BY <1>1, <2>2, EngineStored
<1>2. CASE \E forced \in BOOLEAN : Resume(forced)
  BY <1>2, ResumeConsistent, ResumeStored
<1>3. CASE UNCHANGED rvars
  <2>1. UNCHANGED vars
    BY <1>3 DEF rvars
  <2>2. ConsistencyInv'
    BY <2>1, NextConsistency
  <2>3. ResumeInv'
    BY <1>3 DEF rvars, vars, store, ResumeInv, StoreTyped, ListsOwn, RunInv, TrackedReady,
                TrackedApplied, TrackedThere, TrackedHeld, Plain, Tracked, IsSubgraph, Contained,
                Container, TaskStored, ChainStored, RetriedEnded, GoodStored, NopPending,
                LastStored, NotEnded, EndStored, TimerPending, Alive, PollsAgain
  <2> QED
    BY <2>2, <2>3
<1> QED
  BY <1>1, <1>2, <1>3 DEF ResumeNext

LEMMA AlwaysStored == ResumeSpec => [](ConsistencyInv /\ ResumeInv)
<1>1. ResumeInit => ConsistencyInv /\ ResumeInv
  BY InitStored
<1>2. ConsistencyInv /\ ResumeInv /\ [ResumeNext]_rvars => (ConsistencyInv /\ ResumeInv)'
  BY ResumeNextKeeps
<1> QED
  BY <1>1, <1>2, PTL DEF ResumeSpec

(* Nothing that a tracked operation has stored after its success is tried. *)
LEMMA DoneIsLast ==
    ASSUME ConsistencyInv, ResumeInv, error = "none", NEW u \in Task, Done(u),
           NEW t \in graph.ready, t.op = u.op, t.gen = u.gen
    PROVE  FALSE
<1>1. t \in Task /\ RunInv /\ \A x \in Task : Plain(x) => TaskStored(x)
  BY DEF ConsistencyInv, TypeOK, GraphType, ResumeInv
<1>2. Plain(u) /\ Plain(t)
  BY DEF Done, Plain, Tracked, IsSubgraph
<1>3. /\ u \in DOMAIN ops /\ ops[u].state = "succeeded" /\ ~PollsAgain(u)
  BY <1>1, <1>2 DEF Done, TaskStored, GoodStored
<1>4. Duplicate(u) \notin DOMAIN ops
  BY <1>1, <1>2, <1>3 DEF TaskStored, RetriedEnded
<1>5. t \in graph.tasks /\ t \notin waiting_for
  BY <1>1, <1>2 DEF RunInv, TrackedReady, Plain
<1>6. /\ t \in DOMAIN ops /\ Duplicate(t) \notin DOMAIN ops
      /\ state[t] \notin TERMINATED_STATES
  BY <1>1, <1>2, <1>5 DEF TaskStored, LastStored, Alive, NotEnded
<1>7. /\ t = [op |-> t.op, gen |-> t.gen, try |-> t.try]
      /\ u = [op |-> u.op, gen |-> u.gen, try |-> u.try]
      /\ t.try \in Nat /\ u.try \in Nat
      /\ Duplicate(t) = [op |-> t.op, gen |-> t.gen, try |-> t.try + 1]
      /\ Duplicate(u) = [op |-> u.op, gen |-> u.gen, try |-> u.try + 1]
  BY <1>1, TaskAssumption, BoundAssumption DEF Duplicate
<1>8. CASE t.try = u.try
  <2>1. t = u
    BY <1>7, <1>8
  <2> QED
    BY <1>6, <2>1 DEF Done, TERMINATED_STATES
<1>9. CASE t.try < u.try
  <2>1. t.try + 1 \in 0..u.try
    BY <1>7, <1>9
  <2>2. [u EXCEPT !.try = t.try + 1] \in DOMAIN ops
    BY <1>1, <1>2, <1>3, <2>1 DEF TaskStored, ChainStored
  <2>3. [u EXCEPT !.try = t.try + 1] = Duplicate(t)
    BY <1>7
  <2> QED
    BY <1>6, <2>2, <2>3
<1>10. CASE t.try > u.try
  <2>1. u.try + 1 \in 0..t.try
    BY <1>7, <1>10
  <2>2. [t EXCEPT !.try = u.try + 1] \in DOMAIN ops
    BY <1>1, <1>2, <1>6, <2>1 DEF TaskStored, ChainStored
  <2>3. [t EXCEPT !.try = u.try + 1] = Duplicate(u)
    BY <1>7
  <2> QED
    BY <1>4, <2>2, <2>3
<1> QED
  BY <1>7, <1>8, <1>9, <1>10

(* A step of the engine changes the state of no operation that has         *)
(* succeeded, and applies only what was ready.                             *)
LEMMA DoneInProcess ==
    ASSUME ConsistencyInv, ConsistencyInv', ResumeInv,
           Loop \/ (\E t \in Task : Answer(t) \/ Delayed(t)) \/ CancelOrder \/ WindowEnds,
           NEW u \in Task, Done(u)
    PROVE  /\ Done(u)'
           /\ ~ \E t \in Task : Applied(t) /\ t.op = u.op /\ t.gen = u.gen
<1>1. /\ TypeOK /\ Plain(u) /\ ~IsSubgraph(u) /\ u.op \notin Nop
      /\ state[u] = "succeeded" /\ ~PollsAgain(u)
  BY DEF ConsistencyInv, Done, Plain, Tracked, IsSubgraph
<1>2. state'[u] = state[u] /\ result'[u] = result[u] => Done(u)'
  BY DEF Done, PollsAgain
<1>3. CASE \E t \in Task : RunOperation(t) \/ RunSubgraph(t)
  <2>1. PICK t \in Task : RunOperation(t) \/ RunSubgraph(t)
    BY <1>3
  <2>2. error = "none" /\ t \in graph.ready /\ waiting_for' = waiting_for \cup {t}
    BY <2>1 DEF RunOperation, RunSubgraph
  <2>3. ~ (t.op = u.op /\ t.gen = u.gen)
    BY <2>2, DoneIsLast
  <2>4. u # t
    BY <2>3
  <2>5. state'[u] = state[u] /\ result'[u] = result[u]
    <3>1. CASE RunOperation(t)
      BY <1>1, <2>4, <3>1, SentStored DEF RunOperation
    <3>2. CASE RunSubgraph(t)
      BY <1>1, <2>4, <3>2 DEF RunSubgraph, TypeOK
    <3> QED
      BY <2>1, <3>1, <3>2
  <2> QED
    BY <1>2, <2>2, <2>3, <2>5 DEF Applied
<1>4. CASE \E t \in Task : HandleEnd(t) \/ HandleFail(t) \/ HandleRetry(t)
                           \/ HandleRebuild(t) \/ HandlePropagate(t)
  <2>1. PICK t \in Task : HandleEnd(t) \/ HandleFail(t) \/ HandleRetry(t)
                           \/ HandleRebuild(t) \/ HandlePropagate(t)
    BY <1>4
  <2>2. waiting_for' = waiting_for \ {t} /\ result' = result
    BY <2>1 DEF HandleEnd, HandleFail, HandleRetry, HandleRebuild, HandlePropagate, Popped
  <2>3. /\ \/ state' = state
           \/ Contained(t) /\ \E s : state' = [state EXCEPT ![Container(t)] = s]
    BY <2>1 DEF HandleEnd, HandleFail, HandleRetry, HandleRebuild, HandlePropagate, Propagates,
                TellContainer
  <2>4. Contained(t) => IsSubgraph(Container(t)) /\ Container(t) \in Task
    BY ContainerShape
  <2>5. state'[u] = state[u]
    BY <1>1, <2>3, <2>4 DEF TypeOK
  <2> QED
    BY <1>2, <2>2, <2>5 DEF Applied
<1>5. CASE \E t \in Task : Finish(t) \/ TimerFires(t)
  <2>1. PICK t \in Task : Finish(t) \/ TimerFires(t)
    BY <1>5
  <2>2. u # t
    <3>1. error # "crashed"
      BY <2>1 DEF ResumeInv, Finish, TimerFires
    <3>2. TaskStored(u)
      BY <1>1, <3>1 DEF ResumeInv
    <3> QED
      BY <1>1, <2>1, <3>2 DEF TaskStored, TimerPending, Finish, TimerFires
  <2>3. state'[u] = state[u] /\ result'[u] = result[u] /\ waiting_for' = waiting_for
    BY <1>1, <2>1, <2>2, SentStored DEF Finish, TimerFires, Settle, TypeOK
  <2> QED
    BY <1>2, <2>3 DEF Applied
<1>6. CASE Check \/ RunDone \/ HandleDone \/ Cancel \/ DeadlinePasses
  <2>1. UNCHANGED <<state, result, waiting_for>>
    BY <1>6 DEF Check, RunDone, HandleDone, Cancel, DeadlinePasses
  <2> QED
    BY <1>2, <2>1 DEF Applied
<1> QED
  BY <1>3, <1>4, <1>5, <1>6 DEF Loop, Apply, Run, Handle, Answer, Delayed, CancelOrder, WindowEnds

LEMMA StepDoneOnce ==
    ASSUME ConsistencyInv, ConsistencyInv', ResumeInv, [ResumeNext]_rvars,
           NEW u \in Task, Done(u)
    PROVE  /\ Done(u)'
           /\ ~ \E t \in Task : Applied(t) /\ t.op = u.op /\ t.gen = u.gen
<1>1. CASE Loop \/ (\E t \in Task : Answer(t) \/ Delayed(t)) \/ CancelOrder \/ WindowEnds
  BY <1>1, DoneInProcess
<1>2. CASE \E forced \in BOOLEAN : Resume(forced)
  <2>1. PICK forced \in BOOLEAN : Resume(forced)
    BY <1>2
  <2>2. waiting_for' = {}
    BY <2>1 DEF Resume
  <2>3. Plain(u)
    BY DEF Done, Plain, Tracked, IsSubgraph
  <2>4. Done(u)'
    <3>1. CASE error' # "crashed"
      BY <2>1, <2>3, <3>1, TaskRestored
    <3>2. CASE error' = "crashed"
      <4>1. UNCHANGED <<state, result>>
        BY <2>1, <3>2, ResumeEffect
      <4> QED
        BY <4>1 DEF Done, PollsAgain
    <3> QED
      BY <3>1, <3>2
  <2> QED
    BY <2>2, <2>4 DEF Applied
<1>3. CASE UNCHANGED rvars
  BY <1>3 DEF rvars, vars, Done, PollsAgain, Applied
<1> QED
  BY <1>1, <1>2, <1>3 DEF ResumeNext

(* What is done stays done: through retries, crashes and resumes, whatever *)
(* was stored when the process died, an operation of the first build that  *)
(* has succeeded is neither taken for another nor applied again            *)
(* (store_operation, set_state, _restore_operations).                      *)
THEOREM DoneStaysDone == ResumeSpec => DoneOnce
<1>1. ConsistencyInv /\ ResumeInv /\ ConsistencyInv' /\ [ResumeNext]_rvars
      => [\A u \in Task : Done(u) =>
             /\ Done(u)'
             /\ ~ \E t \in Task : Applied(t) /\ t.op = u.op /\ t.gen = u.gen]_rvars
  BY StepDoneOnce
<1> QED
  BY <1>1, AlwaysStored, PTL DEF ResumeSpec, DoneOnce

-----------------------------------------------------------------------------
(* What a resumed execution still has to do *)

(* A task that an operation of the first build at top level may come to    *)
(* its end in: any build of a subgraph, any attempt of another.            *)
Main(t) == t.op \in FirstBuild /\ Parent[t.op] = NoOp /\ (IsSubgraph(t) \/ t.gen = 0)

(* The subgraph at top level that t is in is stored. *)
RootTask(t) == FirstTask(Root(t.op), t.gen)
Rooted(t) ==
    t.op \in FirstBuild /\ Root(t.op) \in Subgraph =>
        RootTask(t) \in DOMAIN ops /\ (Contained(t) \/ t = RootTask(t))

RootsStored ==
    /\ \A t \in waiting_for \cup finished_tasks \cup timers : Rooted(t)
    /\ error = "none" => \A t \in graph.tasks \cup graph.ready : Rooted(t)

MainReady == \A t \in graph.ready : Main(t) => t \in graph.tasks

(* A subgraph is never sent and gets no result, and what is stored of it   *)
(* is its first attempt; only an instance's subgraph is built again.       *)
SubgraphState == {"pending", "started", "succeeded", "failed"}
SubgraphStored(s) ==
    /\ result[s] = "not_set" /\ s \notin timers /\ state[s] \in SubgraphState
    /\ s \in DOMAIN ops => /\ s.try = 0 /\ ops[s].state \in SubgraphState
                           /\ s.gen > 0 => Handler[s.op] = "rebuild"

(* A tracked subgraph hears of what is in it while it runs or after it has *)
(* ended.                                                                  *)
SubgraphTold ==
    /\ \A s \in finished_tasks : Tracked(s) /\ IsSubgraph(s) =>
          s \in waiting_for /\ state[s] \in TERMINATED_STATES
    /\ \A t \in waiting_for : Tracked(t) /\ Contained(t) =>
          Container(t) \in waiting_for \/ state[Container(t)] \in TERMINATED_STATES

TrackedListed ==
    \A t \in graph.tasks : Tracked(t) /\ Contained(t) =>
        /\ t \in subtasks[Container(t)]
        /\ Container(t) \in Alive \/ state[Container(t)] \in TERMINATED_STATES

(* Memory and store agree on the end of a task, and its result is one that *)
(* leads to that end.                                                      *)
EndAgrees(t) ==
    /\ t.op \notin Nop /\ state[t] \in TERMINATED_STATES =>
           t \in DOMAIN ops /\ ops[t].state = state[t]
    /\ ~IsSubgraph(t) /\ t \in DOMAIN ops /\ ops[t].state \in TERMINATED_STATES =>
           state[t] = ops[t].state
    /\ ~IsSubgraph(t) /\ state[t] \in TERMINATED_STATES => Fits(t, state[t], result[t])

(* A failure that is the error of the execution, of what nothing took the  *)
(* place of.                                                               *)
FailedFor(t) ==
    /\ t \in DOMAIN ops /\ Duplicate(t) \notin DOMAIN ops
    /\ state[t] \in {"failed", "rescheduled"} /\ ops[t].state = state[t]
    /\ IF IsSubgraph(t) THEN Handler[t.op] # "ignore"
       ELSE OperationFails(t) /\ t \notin Alive

(* Nothing at top level is lost. *)
StillDue(t) == \/ Settled(t)
               \/ t \in graph.tasks /\ t \in DOMAIN ops
               \/ error # "none" /\ FailedFor(t)

AllAccounted ==
    \A o \in FirstBuild : Parent[o] = NoOp =>
        Overlooked(o) \/ \E t \in Task : t.op = o /\ Main(t) /\ StillDue(t)

CompleteInv ==
    /\ error # "crashed" =>
          /\ RootsStored /\ MainReady /\ SubgraphTold /\ AllAccounted
          /\ \A s \in Task : IsSubgraph(s) => SubgraphStored(s)
          /\ \A t \in Task : Main(t) => EndAgrees(t)
    /\ error = "none" => TrackedListed
    /\ pc = "returned" /\ error = "none" => graph.tasks = {}

(* The first build holds all that is in a subgraph of it. *)
LEMMA FirstBuildClosed ==
    ASSUME NEW t \in Task, Contained(t)
    PROVE  t.op \in FirstBuild <=> Parent[t.op] \in FirstBuild
<1> DEFINE u == FirstTask(t.op, 0)
<1>1. /\ u \in Task /\ u.op = t.op /\ u.gen = 0 /\ Contained(u)
      /\ t.op \in Op /\ Parent[t.op] \in Op
  BY TaskFields, FirstTaskIsTask, ContainerShape, BoundAssumption DEF Contained
<1>2. Container(u).op = Parent[t.op] /\ Container(u).gen = 0
  BY <1>1, ContainerShape
<1> HIDE DEF u
<1>3. Tracked(u) <=> Tracked(Container(u))
  BY <1>1, TrackedShape
<1> QED
  BY <1>1, <1>2, <1>3 DEF Tracked, FirstBuild

LEMMA RootedShape ==
    ASSUME NEW t \in Task
    PROVE  /\ Contained(t) => (Rooted(t) <=> Rooted(Container(t)))
           /\ Contained(t) /\ t.op \in FirstBuild /\ Rooted(t) /\ ~Contained(Container(t)) =>
                  Container(t) \in DOMAIN ops
           /\ ~Contained(t) /\ IsSubgraph(t) /\ t.op \in FirstBuild /\ Rooted(t) =>
                  t \in DOMAIN ops
<1>1. t.op \in Op
  BY TaskFields
<1>2. ASSUME Contained(t)
      PROVE  /\ Rooted(t) <=> Rooted(Container(t))
             /\ t.op \in FirstBuild /\ Rooted(t) /\ ~Contained(Container(t)) =>
                    Container(t) \in DOMAIN ops
  <2> DEFINE c == Container(t)
  <2>1. /\ c \in Task /\ c.op = Parent[t.op] /\ c.gen = t.gen
        /\ c = FirstTask(Parent[t.op], t.gen)
        /\ Parent[t.op] \in Subgraph
    BY <1>1, <1>2, ContainerShape DEF Container, IsSubgraph
  <2>2. Root(Parent[t.op]) = Root(t.op)
    BY <1>1, <1>2, RootShape DEF Contained
  <2>3. t.op \in FirstBuild <=> c.op \in FirstBuild
    BY <1>2, <2>1, FirstBuildClosed
  <2>4. RootTask(c) = RootTask(t) /\ Root(c.op) = Root(t.op)
    BY <2>1, <2>2 DEF RootTask
  <2>5. ~Contained(c) => c = RootTask(c)
    BY <2>1 DEF Contained, RootTask, Root
  <2> HIDE DEF c
  <2>6. ~Contained(c) => Root(t.op) \in Subgraph
    BY <2>1, <2>4 DEF Contained, Root
  <2>7. Rooted(t) <=> Rooted(c)
    BY <1>2, <2>3, <2>4, <2>5 DEF Rooted
  <2> QED
    BY <2>4, <2>5, <2>6, <2>7 DEF Rooted, c
<1>3. ASSUME ~Contained(t), IsSubgraph(t), t.op \in FirstBuild, Rooted(t)
      PROVE  t \in DOMAIN ops
  BY <1>3 DEF Rooted, Contained, Root, IsSubgraph
<1> QED
  BY <1>2, <1>3

LEMMA RootedStays ==
    ASSUME NEW t \in Task, Rooted(t), DOMAIN ops \subseteq DOMAIN ops'
    PROVE  Rooted(t)'
BY DEF Rooted, RootTask, FirstTask, Contained, FirstBuild, Root

(* What is due of a task that a step leaves alone. *)
LEMMA DueStays ==
    ASSUME NEW t \in Task, StillDue(t),
           t \in graph'.tasks <=> t \in graph.tasks,
           t \in waiting_for' => t \in waiting_for,
           state[t] \in TERMINATED_STATES => state'[t] = state[t] /\ result'[t] = result[t],
           t \in DOMAIN ops =>
               /\ t \in DOMAIN ops'
               /\ state[t] \in TERMINATED_STATES => ops'[t].state = ops[t].state,
           Duplicate(t) \in DOMAIN ops' => Duplicate(t) \in DOMAIN ops,
           error # "none" => error' # "none"
    PROVE  StillDue(t)'
<1>1. CASE Settled(t)
  BY <1>1 DEF StillDue, Settled, PollsAgain, TERMINATED_STATES
<1>2. CASE t \in graph.tasks /\ t \in DOMAIN ops
  BY <1>2 DEF StillDue
<1>3. CASE error # "none" /\ FailedFor(t)
  <2>1. state'[t] = state[t] /\ result'[t] = result[t]
    BY <1>3 DEF FailedFor, TERMINATED_STATES
  <2>2. Duplicate(t)' = Duplicate(t)
    BY DEF Duplicate
  <2>3. FailedFor(t)'
    BY <1>3, <2>1, <2>2 DEF FailedFor, IsSubgraph, OperationFails, AsksForRetry, WithinRetries,
          NotSucceeded, Alive, TERMINATED_STATES
  <2> QED
    BY <1>3, <2>3 DEF StillDue
<1> QED
  BY <1>1, <1>2, <1>3 DEF StillDue

LEMMA AccountedStays ==
    ASSUME AllAccounted, overlooked \subseteq overlooked',
           \A t \in Task : Main(t) /\ StillDue(t) =>
               \E u \in Task : u.op = t.op /\ Main(u) /\ StillDue(u)'
    PROVE  AllAccounted'
<1> SUFFICES ASSUME NEW o \in FirstBuild, Parent[o] = NoOp, ~Overlooked(o)'
             PROVE  \E u \in Task : u.op = o /\ Main(u)' /\ StillDue(u)'
  BY DEF AllAccounted, FirstBuild, CleanupOps, Installs, Inside
<1>1. ~Overlooked(o)
  BY DEF Overlooked
<1>2. PICK t \in Task : t.op = o /\ Main(t) /\ StillDue(t)
  BY <1>1 DEF AllAccounted
<1>3. PICK u \in Task : u.op = o /\ Main(u) /\ StillDue(u)'
  BY <1>2
<1>4. Main(u)'
  BY <1>3 DEF Main, IsSubgraph, FirstBuild, CleanupOps, Installs, Inside
<1> QED
  BY <1>3, <1>4

LEMMA EndAgreesStays ==
    ASSUME NEW t \in Task, EndAgrees(t), state'[t] = state[t], result'[t] = result[t],
           t \in DOMAIN ops => t \in DOMAIN ops' /\ ops'[t].state = ops[t].state,
           t \in DOMAIN ops' => t \in DOMAIN ops \/ ops'[t].state \notin TERMINATED_STATES
    PROVE  EndAgrees(t)'
BY DEF EndAgrees, IsSubgraph, Fits

-----------------------------------------------------------------------------
(* Steps that leave the tasks of the graph as they are *)

(* Such a step makes at most one operation end, and no task ready that was *)
(* not.                                                                    *)
LEMMA TouchedComplete ==
    ASSUME TypeOK, TypeOK', StoreTyped, ResumeInv, CompleteInv, error # "crashed",
           NEW t \in Task, ~IsSubgraph(t), Rooted(t),
           UNCHANGED <<error, pc, subtasks, overlooked>>, Store({}), UNCHANGED restored,
           graph'.tasks = graph.tasks, graph'.ready \subseteq graph.ready,
           waiting_for \subseteq waiting_for', waiting_for' \subseteq waiting_for \cup {t},
           finished_tasks' \subseteq finished_tasks \cup {t},
           timers' \subseteq timers \cup {t},
           \A u \in Task : u # t => state'[u] = state[u] /\ result'[u] = result[u],
           \/ state'[t] = state[t] /\ result'[t] = result[t]
           \/ state'[t] = "sent" /\ result'[t] = result[t]
           \/ Fits(t, state'[t], result'[t]) /\ state'[t] \in TERMINATED_STATES,
           Plain(t) => t \in Alive /\ state[t] \notin TERMINATED_STATES,
           Tracked(t) /\ Contained(t) /\ t \notin waiting_for =>
               Container(t) \in waiting_for \/ state[Container(t)] \in TERMINATED_STATES
    PROVE  CompleteInv'
<1>1. /\ DOMAIN ops' = DOMAIN ops /\ DOMAIN ops \subseteq Task
      /\ \A u \in DOMAIN ops :
            ops'[u].state = IF state'[u] # state[u] /\ ~Unstored(u, state'[u])
                            THEN state'[u] ELSE ops[u].state
  <2>1. {} \in SUBSET Task /\ \A u \in {} : u.try > 0 \/ u.gen > 0
    OBVIOUS
  <2>2. state' \in [Task -> State]
    BY DEF TypeOK
  <2>3. /\ DOMAIN ops' = DOMAIN ops \cup {}
        /\ \A u \in DOMAIN ops :
              ops'[u].state = IF state'[u] # state[u] /\ ~Unstored(u, state'[u])
                              THEN state'[u] ELSE ops[u].state
    BY <2>1, <2>2, StoreEffect DEF Restarted
  <2> QED
    BY <2>3 DEF StoreTyped
<1>2. \A u \in Task : u # t /\ u \in DOMAIN ops => ops'[u].state = ops[u].state
  BY <1>1
<1>3. /\ RootsStored /\ MainReady /\ SubgraphTold /\ AllAccounted
      /\ \A s \in Task : IsSubgraph(s) => SubgraphStored(s)
      /\ \A u \in Task : Main(u) => EndAgrees(u)
      /\ \A u \in Task : Plain(u) => TaskStored(u)
  BY DEF CompleteInv, ResumeInv
<1>4. RootsStored'
  <2>1. /\ graph.tasks \subseteq Task /\ graph.ready \subseteq Task
        /\ waiting_for \subseteq Task /\ finished_tasks \subseteq Task /\ timers \subseteq Task
    BY DEF TypeOK, GraphType
  <2>2. \A u \in Task : Rooted(u) => Rooted(u)'
    BY <1>1, RootedStays
  <2>3. \A u \in waiting_for' \cup finished_tasks' \cup timers' : u \in Task /\ Rooted(u)
    BY <1>3, <2>1 DEF RootsStored
  <2>4. error' = "none" => \A u \in graph'.tasks \cup graph'.ready : u \in Task /\ Rooted(u)
    BY <1>3, <2>1 DEF RootsStored
  <2> QED
    BY <2>2, <2>3, <2>4 DEF RootsStored
<1>5. MainReady'
  BY <1>3 DEF MainReady, Main, IsSubgraph, FirstBuild, CleanupOps, Installs, Inside
<1>6. SubgraphTold'
  <2>1. ASSUME NEW s \in finished_tasks', Tracked(s), IsSubgraph(s)
        PROVE  s \in waiting_for' /\ state'[s] \in TERMINATED_STATES
    <3>1. s \in finished_tasks /\ s # t /\ s \in Task
      BY <2>1 DEF TypeOK, IsSubgraph
    <3> QED
      BY <1>3, <2>1, <3>1 DEF SubgraphTold
  <2>2. ASSUME NEW u \in waiting_for', Tracked(u), Contained(u)
        PROVE  Container(u) \in waiting_for' \/ state'[Container(u)] \in TERMINATED_STATES
    <3>1. u \in Task /\ Container(u) \in Task /\ IsSubgraph(Container(u))
      BY <2>2, ContainerShape DEF TypeOK
    <3>2. state'[Container(u)] = state[Container(u)]
      BY <3>1
    <3>3. Container(u) \in waiting_for \/ state[Container(u)] \in TERMINATED_STATES
      BY <1>3, <2>2 DEF SubgraphTold
    <3> QED
      BY <3>2, <3>3
  <2> QED
    BY <2>1, <2>2 DEF SubgraphTold, Tracked, IsSubgraph, Contained, Container
<1>7. AllAccounted'
  <2> SUFFICES ASSUME NEW u \in Task, Main(u), StillDue(u)
               PROVE  StillDue(u)'
    BY <1>3, AccountedStays
  <2>1. CASE u # t
    BY <1>1, <1>2, <2>1, DueStays DEF Duplicate
  <2>2. CASE u = t
    <3>1. Plain(t) /\ t \in Alive /\ state[t] \notin TERMINATED_STATES
      BY <2>2 DEF Main, Plain, Tracked, FirstBuild
    <3>2. ~Settled(t) /\ ~FailedFor(t)
      BY <3>1 DEF Settled, FailedFor, TERMINATED_STATES
    <3> QED
      BY <1>1, <2>2, <3>2 DEF StillDue
  <2> QED
    BY <2>1, <2>2
<1>8. \A s \in Task : IsSubgraph(s)' => SubgraphStored(s)'
  <2> SUFFICES ASSUME NEW s \in Task, IsSubgraph(s)
               PROVE  SubgraphStored(s)'
    BY DEF IsSubgraph
  <2>1. s # t /\ SubgraphStored(s)
    BY <1>3
  <2> QED
    BY <1>1, <1>2, <2>1 DEF SubgraphStored
<1>9. \A u \in Task : Main(u)' => EndAgrees(u)'
  <2> SUFFICES ASSUME NEW u \in Task, Main(u)
               PROVE  EndAgrees(u)'
    BY DEF Main, IsSubgraph, FirstBuild, CleanupOps, Installs, Inside
  <2>1. CASE u # t
    BY <1>1, <1>2, <1>3, <2>1, EndAgreesStays
  <2>2. CASE u = t
    <3>1. /\ Plain(t) /\ t \in Alive /\ state[t] \notin TERMINATED_STATES
          /\ EndAgrees(t) /\ TaskStored(t)
      BY <1>3, <2>2 DEF Main, Plain, Tracked, FirstBuild
    <3>2. t \in DOMAIN ops /\ ops[t].state \notin TERMINATED_STATES
      BY <3>1 DEF TaskStored, LastStored, EndAgrees
    <3>3. state'[t] \in TERMINATED_STATES /\ t.op \notin Nop => ops'[t].state = state'[t]
      BY <1>1, <3>1, <3>2 DEF Unstored, TERMINATED_STATES
    <3>4. ops'[t].state \in TERMINATED_STATES => ops'[t].state = state'[t]
      BY <1>1, <3>2
    <3>5. state'[t] \in TERMINATED_STATES => Fits(t, state'[t], result'[t])
      BY <3>1 DEF TERMINATED_STATES
    <3> QED
      BY <1>1, <2>2, <3>2, <3>3, <3>4, <3>5 DEF EndAgrees, IsSubgraph, Fits
  <2> QED
    BY <2>1, <2>2
<1>10. error' = "none" => TrackedListed'
  <2> SUFFICES ASSUME error = "none", NEW u \in graph'.tasks, Tracked(u), Contained(u)
               PROVE  /\ u \in subtasks'[Container(u)]
                      /\ Container(u) \in Alive' \/ state'[Container(u)] \in TERMINATED_STATES
    BY DEF TrackedListed, Tracked, Contained, Container
  <2>1. u \in Task /\ Container(u) \in Task /\ IsSubgraph(Container(u))
    BY ContainerShape DEF TypeOK, GraphType
  <2>2. /\ u \in subtasks[Container(u)]
        /\ Container(u) \in Alive \/ state[Container(u)] \in TERMINATED_STATES
    BY DEF CompleteInv, TrackedListed
  <2> QED
    BY <2>1, <2>2 DEF Alive
<1> QED
  BY <1>4, <1>5, <1>6, <1>7, <1>8, <1>9, <1>10 DEF CompleteInv

LEMMA OperationRunComplete ==
    ASSUME ConsistencyInv, ConsistencyInv', ResumeInv, CompleteInv, NEW t \in Task,
           RunOperation(t), Store({}), UNCHANGED <<restored, overlooked>>
    PROVE  CompleteInv'
<1>1. /\ TypeOK /\ TypeOK' /\ StoreTyped /\ error = "none"
      /\ t \in graph.ready /\ ~IsSubgraph(t)
      /\ graph' = [graph EXCEPT !.ready = @ \ {t}]
      /\ waiting_for' = waiting_for \cup {t}
      /\ UNCHANGED <<error, pc, subtasks>>
  BY DEF ConsistencyInv, RunOperation, ResumeInv
<1>2. RunInv /\ RootsStored /\ TrackedListed /\ \A u \in Task : Plain(u) => TaskStored(u)
  BY <1>1 DEF ResumeInv, CompleteInv
<1>3. graph'.tasks = graph.tasks /\ graph'.ready \subseteq graph.ready
  BY <1>1 DEF TypeOK, GraphType
<1>4. /\ finished_tasks' \subseteq finished_tasks \cup {t}
      /\ timers' \subseteq timers \cup {t}
      /\ \A u \in Task : u # t => state'[u] = state[u] /\ result'[u] = result[u]
      /\ \/ state'[t] = state[t] /\ result'[t] = result[t]
         \/ state'[t] = "sent" /\ result'[t] = result[t]
         \/ Fits(t, state'[t], result'[t]) /\ state'[t] \in TERMINATED_STATES
  BY <1>1, SendEffect DEF RunOperation, TERMINATED_STATES
<1>5. ASSUME Tracked(t)
      PROVE  t \in graph.tasks \ waiting_for /\ graph.dependencies[t] = {}
  BY <1>1, <1>2, <1>5 DEF RunInv, TrackedReady
<1>6. Plain(t) => t \in Alive /\ state[t] \notin TERMINATED_STATES
  BY <1>2, <1>5 DEF Plain, TaskStored, NotEnded, Alive
<1>7. ASSUME Tracked(t), Contained(t)
      PROVE  Container(t) \in waiting_for \/ state[Container(t)] \in TERMINATED_STATES
  BY <1>2, <1>5, <1>7 DEF TrackedListed, RunInv, TrackedHeld, Alive
<1>8. Rooted(t)
  BY <1>1, <1>2 DEF RootsStored
<1> QED
  BY <1>1, <1>3, <1>4, <1>6, <1>7, <1>8, TouchedComplete

LEMMA DueComplete ==
    ASSUME ConsistencyInv, ConsistencyInv', ResumeInv, CompleteInv, NEW t \in Task,
           Finish(t) \/ TimerFires(t), Store({}), UNCHANGED <<restored, overlooked>>
    PROVE  CompleteInv'
<1>1. /\ TypeOK /\ TypeOK' /\ StoreTyped /\ error # "crashed"
      /\ UNCHANGED <<graph, waiting_for, error, pc, subtasks>>
      /\ t \in waiting_for \cup timers
  BY DEF ConsistencyInv, Finish, TimerFires, ResumeInv
<1>2. /\ RootsStored /\ \A s \in Task : IsSubgraph(s) => SubgraphStored(s)
      /\ SubgraphTold /\ \A u \in Task : Plain(u) => TaskStored(u)
  BY <1>1 DEF ResumeInv, CompleteInv
<1>3. ~IsSubgraph(t)
  BY <1>2 DEF Finish, TimerFires, SubgraphStored, SubgraphState
<1>4. /\ finished_tasks' \subseteq finished_tasks \cup {t}
      /\ timers' \subseteq timers \cup {t}
      /\ \A u \in Task : u # t => state'[u] = state[u] /\ result'[u] = result[u]
      /\ \/ state'[t] = state[t] /\ result'[t] = result[t]
         \/ state'[t] = "sent" /\ result'[t] = result[t]
         \/ Fits(t, state'[t], result'[t]) /\ state'[t] \in TERMINATED_STATES
  <2>1. CASE Finish(t)
    <3>1. PICK r \in Outcome[t.op] : Settle(t, StateFor(r), r)
      BY <2>1 DEF Finish
    <3>2. r \in Result \ {"not_set"}
      BY TaskFields, WorkflowAssumption
    <3>3. Fits(t, StateFor(r), r) /\ StateFor(r) \in TERMINATED_STATES
      BY <1>3, <3>2 DEF Fits, StateFor, Result, Failure, TERMINATED_STATES
    <3> QED
      BY <1>1, <2>1, <3>1, <3>3 DEF Finish, Settle, TypeOK
  <2>2. CASE TimerFires(t)
    BY <1>1, <1>3, <2>2, SendEffect DEF TimerFires, TERMINATED_STATES
  <2> QED
    BY <2>1, <2>2
<1>5. ASSUME Plain(t)
      PROVE  t \in waiting_for /\ state[t] \notin TERMINATED_STATES
  BY <1>2, <1>5 DEF Finish, TimerFires, TaskStored, TimerPending, TERMINATED_STATES
<1>6. ASSUME Tracked(t)
      PROVE  t \in waiting_for
  BY <1>3, <1>5, <1>6 DEF Plain
<1>7. Rooted(t)
  BY <1>1, <1>2 DEF RootsStored
<1>8. graph'.tasks = graph.tasks /\ graph'.ready \subseteq graph.ready
  BY <1>1
<1> QED
  BY <1>1, <1>3, <1>4, <1>5, <1>6, <1>7, <1>8, TouchedComplete DEF Alive

LEMMA QuietComplete ==
    ASSUME ConsistencyInv, ConsistencyInv', ResumeInv, CompleteInv, Store({}),
           Check \/ RunDone \/ HandleDone \/ Cancel \/ DeadlinePasses,
           UNCHANGED <<restored, overlooked>>
    PROVE  CompleteInv'
<1>1. /\ TypeOK /\ StoreTyped
      /\ UNCHANGED <<graph, waiting_for, finished_tasks, state, result, subtasks, timers>>
      /\ error # "crashed" /\ error' # "crashed" /\ (error' = "none" => error = "none")
      /\ pc' = "returned" /\ error' = "none" => graph.tasks = {}
  BY DEF ConsistencyInv, Check, IsFinished, RunDone, HandleDone, Cancel, DeadlinePasses, ResumeInv
<1>2. /\ DOMAIN ops' = DOMAIN ops
      /\ \A u \in DOMAIN ops : ops'[u].state = ops[u].state
  <2>1. {} \in SUBSET Task /\ \A u \in {} : u.try > 0 \/ u.gen > 0
    OBVIOUS
  <2>2. state' \in [Task -> State]
    BY DEF ConsistencyInv, TypeOK
  <2>3. /\ DOMAIN ops' = DOMAIN ops \cup {}
        /\ \A u \in DOMAIN ops :
              ops'[u].state = IF state'[u] # state[u] /\ ~Unstored(u, state'[u])
                              THEN state'[u] ELSE ops[u].state
    BY <1>1, <2>1, <2>2, StoreEffect DEF Restarted
  <2> QED
    BY <1>1, <2>3
<1>3. /\ RootsStored /\ MainReady /\ SubgraphTold /\ AllAccounted
      /\ \A s \in Task : IsSubgraph(s) => SubgraphStored(s)
      /\ \A u \in Task : Main(u) => EndAgrees(u)
      /\ error' = "none" => TrackedListed
  BY <1>1 DEF CompleteInv
<1>4. RootsStored'
  <2>1. \A u \in Task : Rooted(u) => Rooted(u)'
    BY <1>2, RootedStays
  <2>2. /\ graph.tasks \subseteq Task /\ graph.ready \subseteq Task
        /\ waiting_for \subseteq Task /\ finished_tasks \subseteq Task /\ timers \subseteq Task
    BY <1>1 DEF TypeOK, GraphType
  <2> QED
    BY <1>1, <1>3, <2>1, <2>2 DEF RootsStored
<1>5. MainReady'
  BY <1>1, <1>3 DEF MainReady, Main, IsSubgraph, FirstBuild, CleanupOps, Installs, Inside
<1>6. SubgraphTold' /\ (error' = "none" => TrackedListed')
  BY <1>1, <1>3 DEF SubgraphTold, TrackedListed, Tracked, IsSubgraph, Contained, Container, Alive
<1>7. AllAccounted'
  <2> SUFFICES ASSUME NEW u \in Task, Main(u), StillDue(u)
               PROVE  StillDue(u)'
    BY <1>3, AccountedStays
  <2> QED
    BY <1>1, <1>2, DueStays DEF Duplicate
<1>8. \A s \in Task : IsSubgraph(s)' => SubgraphStored(s)'
  BY <1>1, <1>2, <1>3 DEF SubgraphStored, IsSubgraph
<1>9. \A u \in Task : Main(u)' => EndAgrees(u)'
  <2> SUFFICES ASSUME NEW u \in Task, Main(u)
               PROVE  EndAgrees(u)'
    BY DEF Main, IsSubgraph, FirstBuild, CleanupOps, Installs, Inside
  <2> QED
    BY <1>1, <1>2, <1>3, EndAgreesStays
<1> QED
  BY <1>1, <1>4, <1>5, <1>6, <1>7, <1>8, <1>9 DEF CompleteInv

(* A subgraph is applied: what is in it stops waiting for it. *)
LEMMA SubgraphRunComplete ==
    ASSUME ConsistencyInv, ConsistencyInv', ResumeInv, CompleteInv, NEW s \in Task,
           RunSubgraph(s), Store({}), UNCHANGED <<restored, overlooked>>
    PROVE  CompleteInv'
<1> DEFINE g == [graph EXCEPT !.ready = @ \ {s}]
<1>1. /\ TypeOK /\ StoreTyped /\ state' \in [Task -> State] /\ error = "none"
      /\ s \in graph.ready /\ IsSubgraph(s) /\ pc = "run"
      /\ graph' = ReleaseFrom(g, s, subtasks[s])
      /\ waiting_for' = waiting_for \cup {s}
      /\ \A u \in Task : u # s => state'[u] = state[u]
      /\ \/ state'[s] = "succeeded" /\ finished_tasks' = finished_tasks \cup {s}
         \/ state'[s] = "started" /\ finished_tasks' = finished_tasks
      /\ UNCHANGED <<error, pc, result, subtasks, timers>>
  BY DEF ConsistencyInv, TypeOK, RunSubgraph, ResumeInv
<1>2. /\ RunInv /\ ListsOwn /\ \A u \in Task : Plain(u) => TaskStored(u)
      /\ RootsStored /\ MainReady /\ SubgraphTold /\ AllAccounted /\ TrackedListed
      /\ \A u \in Task : IsSubgraph(u) => SubgraphStored(u)
      /\ \A u \in Task : Main(u) => EndAgrees(u)
  BY <1>1 DEF ResumeInv, CompleteInv
<1>3. /\ graph.tasks \subseteq Task /\ graph.ready \subseteq Task /\ subtasks[s] \subseteq Task
      /\ waiting_for \subseteq Task /\ finished_tasks \subseteq Task /\ timers \subseteq Task
      /\ DOMAIN ops \subseteq Task
  BY <1>1 DEF TypeOK, GraphType, StoreTyped
<1>4. graph'.tasks = graph.tasks /\ graph'.ready \subseteq graph.ready \cup subtasks[s]
  <2>1. g.tasks = graph.tasks /\ g.ready = graph.ready \ {s}
    BY <1>1 DEF TypeOK, GraphType
  <2> HIDE DEF g
  <2> QED
    BY <1>1, <2>1 DEF ReleaseFrom
<1> HIDE DEF g
<1>5. /\ DOMAIN ops' = DOMAIN ops
      /\ \A u \in DOMAIN ops : ~Restarted(u) =>
            ops'[u].state = IF state'[u] # state[u] /\ ~Unstored(u, state'[u])
                            THEN state'[u] ELSE ops[u].state
      /\ \A u \in DOMAIN ops : Restarted(u) /\ ~Unstored(u, state'[u]) =>
            ops'[u].state = state'[u]
  <2>1. {} \in SUBSET Task /\ \A u \in {} : u.try > 0 \/ u.gen > 0
    OBVIOUS
  <2>2. /\ DOMAIN ops' = DOMAIN ops \cup {}
        /\ \A u \in DOMAIN ops : ~Restarted(u) =>
              ops'[u].state = IF state'[u] # state[u] /\ ~Unstored(u, state'[u])
                              THEN state'[u] ELSE ops[u].state
        /\ \A u \in DOMAIN ops : Restarted(u) /\ ~Unstored(u, state'[u]) =>
              ops'[u].state = state'[u]
    BY <1>1, <2>1, StoreEffect
  <2> QED
    BY <2>2
<1>6. /\ \A u \in Task : u # s /\ u \in DOMAIN ops => ops'[u].state = ops[u].state
      /\ s \in DOMAIN ops => \/ ops'[s].state = state'[s]
                             \/ state'[s] = state[s] /\ ops'[s].state = ops[s].state
  <2>1. ~Unstored(s, state'[s])
    <3>1. s.op \notin Nop /\ s.op \notin Local
      BY <1>1, WorkflowAssumption, ResumeAssumption DEF IsSubgraph
    <3> QED
      BY <3>1 DEF Unstored
  <2> QED
    BY <1>1, <1>3, <1>5, <2>1 DEF Restarted
<1>7. ASSUME NEW u \in subtasks[s]
      PROVE  Contained(u) /\ Container(u) = s
  BY <1>2 DEF ListsOwn
<1>8. Rooted(s)
  BY <1>1, <1>2 DEF RootsStored
<1>9. RootsStored'
  <2>1. \A u \in Task : Rooted(u) => Rooted(u)'
    BY <1>5, RootedStays
  <2>2. \A u \in subtasks[s] : Rooted(u)
    BY <1>3, <1>7, <1>8, RootedShape
  <2> QED
    BY <1>1, <1>2, <1>3, <1>4, <1>8, <2>1, <2>2 DEF RootsStored
<1>10. MainReady'
  <2> SUFFICES ASSUME NEW u \in graph'.ready, Main(u)
               PROVE  u \in graph'.tasks
    BY DEF MainReady, Main, IsSubgraph, FirstBuild, CleanupOps, Installs, Inside
  <2>1. u \notin subtasks[s]
    BY <1>7 DEF Main, Contained
  <2> QED
    BY <1>2, <1>4, <2>1 DEF MainReady
<1>11. Tracked(s) => /\ s \in graph.tasks \ waiting_for /\ graph.dependencies[s] = {}
                     /\ s \notin finished_tasks
  BY <1>1, <1>2 DEF RunInv, TrackedReady, SubgraphTold
<1>12. SubgraphTold'
  <2>1. ASSUME NEW u \in finished_tasks', Tracked(u), IsSubgraph(u)
        PROVE  u \in waiting_for' /\ state'[u] \in TERMINATED_STATES
    <3>1. CASE u = s
      BY <1>1, <1>11, <2>1, <3>1 DEF TERMINATED_STATES
    <3>2. CASE u # s
      BY <1>1, <1>2, <1>3, <2>1, <3>2 DEF SubgraphTold
    <3> QED
      BY <3>1, <3>2
  <2>2. ASSUME NEW u \in waiting_for', Tracked(u), Contained(u)
        PROVE  Container(u) \in waiting_for' \/ state'[Container(u)] \in TERMINATED_STATES
    <3>1. Container(u) \in Task /\ Container(u) # u
      BY <1>1, <1>3, <2>2, ContainerShape
    <3>2. Container(u) \in waiting_for \/ state[Container(u)] \in TERMINATED_STATES
      <4>1. CASE u \in waiting_for
        BY <1>2, <2>2, <4>1 DEF SubgraphTold
      <4>2. CASE u = s
        BY <1>2, <1>11, <2>2, <4>2 DEF TrackedListed, RunInv, TrackedHeld, Alive
      <4> QED
        BY <1>1, <4>1, <4>2
    <3> QED
      BY <1>1, <3>1, <3>2
  <2> QED
    BY <2>1, <2>2 DEF SubgraphTold, Tracked, IsSubgraph, Contained, Container
<1>13. TrackedListed'
  <2> SUFFICES ASSUME NEW u \in graph'.tasks, Tracked(u), Contained(u)
               PROVE  /\ u \in subtasks'[Container(u)]
                      /\ Container(u) \in Alive' \/ state'[Container(u)] \in TERMINATED_STATES
    BY DEF TrackedListed, Tracked, Contained, Container
  <2>1. u \in Task /\ Container(u) \in Task
    BY <1>3, <1>4, ContainerShape
  <2>2. /\ u \in subtasks[Container(u)]
        /\ Container(u) \in Alive \/ state[Container(u)] \in TERMINATED_STATES
    BY <1>2, <1>4 DEF TrackedListed
  <2> QED
    BY <1>1, <1>4, <2>1, <2>2 DEF Alive
<1>14. Main(s) => s \in graph.tasks /\ s \in DOMAIN ops
  BY <1>1, <1>2, <1>8, RootedShape DEF Main, MainReady, Contained
<1>15. AllAccounted'
  <2> SUFFICES ASSUME NEW u \in Task, Main(u), StillDue(u)
               PROVE  StillDue(u)'
    BY <1>2, AccountedStays
  <2>1. CASE u # s
    BY <1>1, <1>4, <1>5, <1>6, <2>1, DueStays DEF Duplicate
  <2>2. CASE u = s
    BY <1>4, <1>5, <1>14, <2>2 DEF StillDue
  <2> QED
    BY <2>1, <2>2
<1>16. \A u \in Task : IsSubgraph(u)' => SubgraphStored(u)'
  <2> SUFFICES ASSUME NEW u \in Task, IsSubgraph(u)
               PROVE  SubgraphStored(u)'
    BY DEF IsSubgraph
  <2>1. SubgraphStored(u)
    BY <1>2
  <2> QED
    BY <1>1, <1>5, <1>6, <2>1 DEF SubgraphStored, SubgraphState
<1>17. \A u \in Task : Main(u)' => EndAgrees(u)'
  <2> SUFFICES ASSUME NEW u \in Task, Main(u)
               PROVE  EndAgrees(u)'
    BY DEF Main, IsSubgraph, FirstBuild, CleanupOps, Installs, Inside
  <2>1. CASE u # s
    BY <1>1, <1>2, <1>5, <1>6, <2>1, EndAgreesStays
  <2>2. CASE u = s
    BY <1>1, <1>2, <1>5, <1>6, <1>14, <2>2 DEF EndAgrees, IsSubgraph
  <2> QED
    BY <2>1, <2>2
<1> QED
  BY <1>1, <1>9, <1>10, <1>12, <1>13, <1>15, <1>16, <1>17 DEF CompleteInv

-----------------------------------------------------------------------------
(* Handlers that take a task out of the graph *)

(* What a handler that only takes away does: a subgraph may end, nothing   *)
(* else does, and nothing is stored but that.                              *)
LEMMA DropEffect ==
    ASSUME ConsistencyInv, ResumeInv, error # "crashed", NEW p \in Task,
           HandleEnd(p) \/ HandleFail(p) \/ HandlePropagate(p), error' # "crashed"
    PROVE  /\ p \in finished_tasks /\ pc' = "handle"
           /\ waiting_for' = waiting_for \ {p}
           /\ UNCHANGED <<result, timers>>
           /\ graph'.tasks = graph.tasks \ Under(p)
           /\ Strays(graph') \subseteq Strays(graph)
           /\ graph'.ready \subseteq graph.ready \cup graph.tasks
           /\ NewStored(p) = {}
           /\ error' = "none" <=> error = "none" /\ ~ (HandleFail(p) /\ ~Contained(p))
           /\ \A u \in Task :
                 \/ state'[u] = state[u]
                 \/ /\ Contained(p) /\ u = Container(p)
                    /\ state[u] \notin TERMINATED_STATES
                    /\ state'[u] \in {"succeeded", "failed"}
           /\ \A u \in finished_tasks' :
                 \/ u \in finished_tasks /\ u # p
                 \/ Contained(p) /\ u = Container(p) /\ state'[u] # state[u]
           /\ \A s \in Task : subtasks'[s] = subtasks[s] \ {p}
<1>1. TypeOK /\ Consistent(graph) /\ ListsOwn
  BY DEF ConsistencyInv, ResumeInv
<1>2. Under(p) \in SUBSET Task /\ p \in Under(p)
  BY <1>1, UnderIsTasks
<1>3. \A s \in Task : p \in subtasks[s] => Contained(p) /\ Container(p) = s
  BY <1>1 DEF ListsOwn
<1>4. Contained(p) => Container(p) \in Task
  BY ContainerShape
<1>5. CASE HandleEnd(p) \/ HandleFail(p)
  <2>1. PICK fails \in BOOLEAN : TellContainer(p, fails, {})
    BY <1>5 DEF HandleEnd, HandleFail
  <2>2. /\ p \in finished_tasks /\ pc' = "handle"
        /\ waiting_for' = waiting_for \ {p}
        /\ UNCHANGED <<result, timers>>
        /\ graph' = RemoveTasks(graph, Under(p))
    BY <1>5 DEF HandleEnd, HandleFail, Popped
  <2>3. /\ graph'.tasks = graph.tasks \ Under(p)
        /\ graph'.ready \subseteq graph.ready \cup graph.tasks
        /\ Strays(graph') \subseteq Strays(graph)
        /\ NewStored(p) = {}
    BY <1>1, <1>2, <2>2, RemoveTasksConsistent, StraysRemoved DEF NewStored
  <2>4. error' = "none" <=> error = "none" /\ ~ (HandleFail(p) /\ ~Contained(p))
    <3>1. CASE HandleFail(p)
      BY <3>1 DEF HandleFail, FailOnce
    <3>2. CASE ~HandleFail(p)
      BY <1>5, <3>2 DEF HandleEnd
    <3> QED
      BY <3>1, <3>2
  <2>5. CASE ~Contained(p)
    BY <1>3, <2>1, <2>2, <2>3, <2>4, <2>5 DEF TellContainer
  <2>6. CASE Contained(p)
    <3> DEFINE c == Container(p)
               ends == IF state[c] \in TERMINATED_STATES THEN state[c]
                       ELSE IF fails \/ c \in failed_task THEN "failed"
                       ELSE IF subtasks[c] \ {p} = {} THEN "succeeded"
                       ELSE state[c]
    <3>1. /\ subtasks' = [subtasks EXCEPT ![c] = (subtasks[c] \ {p}) \cup {}]
          /\ state' = [state EXCEPT ![c] = ends]
          /\ finished_tasks' = (finished_tasks \ {p}) \cup (IF ends # state[c] THEN {c} ELSE {})
      BY <2>1, <2>6 DEF TellContainer
    <3>2. ends # state[c] => state[c] \notin TERMINATED_STATES /\ ends \in {"succeeded", "failed"}
      OBVIOUS
    <3>3. c \in Task
      BY <1>4, <2>6
    <3> HIDE DEF ends
    <3>4. \A u \in Task : state'[u] = IF u = c THEN ends ELSE state[u]
      BY <1>1, <3>1, <3>3 DEF TypeOK
    <3>5. \A s \in Task : subtasks'[s] = subtasks[s] \ {p}
      BY <1>1, <1>3, <3>1, <3>3 DEF TypeOK
    <3> QED
      BY <2>2, <2>3, <2>4, <2>6, <3>1, <3>2, <3>3, <3>4, <3>5
  <2> QED
    BY <2>5, <2>6
<1>6. CASE HandlePropagate(p)
  <2> DEFINE c == Container(p)
  <2>1. /\ p \in finished_tasks /\ pc' = "handle"
        /\ waiting_for' = waiting_for \ {p} /\ Contained(p)
        /\ UNCHANGED <<result, timers, error>>
        /\ graph' = RemoveTasks(graph, Under(p))
        /\ state[c] \notin TERMINATED_STATES
        /\ state' = [state EXCEPT ![c] = "failed"]
        /\ finished_tasks' = (finished_tasks \ {p}) \cup {c}
        /\ subtasks' = [subtasks EXCEPT ![c] = @ \ {p}]
    BY <1>6 DEF HandlePropagate, Popped, Propagates
  <2>2. /\ graph'.tasks = graph.tasks \ Under(p)
        /\ graph'.ready \subseteq graph.ready \cup graph.tasks
        /\ Strays(graph') \subseteq Strays(graph)
        /\ NewStored(p) = {}
    BY <1>1, <1>2, <2>1, RemoveTasksConsistent, StraysRemoved DEF NewStored
  <2>3. c \in Task
    BY <1>4, <2>1
  <2>4. \A u \in Task : state'[u] = IF u = c THEN "failed" ELSE state[u]
    BY <1>1, <2>1, <2>3 DEF TypeOK
  <2>5. \A s \in Task : subtasks'[s] = subtasks[s] \ {p}
    BY <1>1, <1>3, <2>1, <2>3 DEF TypeOK
  <2>6. state'[c] # state[c]
    BY <2>1, <2>3, <2>4 DEF TERMINATED_STATES
  <2>7. error' = "none" <=> error = "none" /\ ~ (HandleFail(p) /\ ~Contained(p))
    BY <2>1
  <2> HIDE DEF c
  <2> QED
    BY <2>1, <2>2, <2>3, <2>4, <2>5, <2>6, <2>7 DEF c
<1> QED
  BY <1>5, <1>6

(* A task that neither fails nor retries has ended well: the arms of       *)
(* _handle_terminated_task leave no other case.                            *)
LEMMA FittingEndsWell ==
    ASSUME NEW t \in Task, Fits(t, state[t], result[t]), Ends(t),
           IsSubgraph(t) => result[t] = "not_set"
    PROVE  EndedWell(t)
<1>1. CASE IsSubgraph(t)
  BY <1>1 DEF Fits, Ends, EndedWell, PollsAgain
<1>2. CASE ~IsSubgraph(t)
  BY <1>2 DEF Fits, Ends, Retries, OperationFails, AsksForRetry, NotSucceeded,
              EndedWell, PollsAgain
<1> QED
  BY <1>1, <1>2

(* A subgraph is never tried again. *)
LEMMA SubgraphOnce ==
    ASSUME StoreTyped, \A u \in Task : IsSubgraph(u) => SubgraphStored(u),
           NEW s \in Task, IsSubgraph(s)
    PROVE  Duplicate(s) \notin DOMAIN ops
<1> SUFFICES ASSUME Duplicate(s) \in DOMAIN ops PROVE FALSE
  OBVIOUS
<1>1. Duplicate(s).try = s.try + 1 /\ s.try \in Nat /\ Duplicate(s).op = s.op
  BY TaskFields, TaskAssumption, BoundAssumption DEF Duplicate
<1>2. Duplicate(s) \in Task /\ IsSubgraph(Duplicate(s))
  BY <1>1 DEF IsSubgraph, StoreTyped
<1> QED
  BY <1>1, <1>2 DEF SubgraphStored

(* What is popped at top level comes to its end here, or is the error.     *)
LEMMA PoppedDue ==
    ASSUME ConsistencyInv, ResumeInv, CompleteInv, error # "crashed", NEW p \in Task, Main(p),
           HandleEnd(p) \/ HandleFail(p), StillDue(p),
           error' = "none" <=> error = "none" /\ ~ (HandleFail(p) /\ ~Contained(p)),
           state'[p] = state[p], result'[p] = result[p], DOMAIN ops' = DOMAIN ops,
           p \in DOMAIN ops => ops'[p].state = ops[p].state,
           p \notin graph'.tasks, waiting_for' = waiting_for \ {p}
    PROVE  StillDue(p)'
<1>1. /\ ~Contained(p) /\ p \in finished_tasks /\ p.op \in FirstBuild
      /\ IsSubgraph(p) \/ Plain(p)
      /\ Plain(p) => TaskStored(p)
      /\ IsSubgraph(p) => SubgraphStored(p)
      /\ EndAgrees(p) /\ SubgraphTold
  BY DEF Main, Contained, HandleEnd, HandleFail, Popped, Plain, Tracked, FirstBuild,
         ResumeInv, CompleteInv
<1>2. EndedWell(p) => Settled(p)'
  BY DEF EndedWell, Settled, PollsAgain
<1>3. FailedFor(p) /\ p \notin Alive' => FailedFor(p)'
  BY DEF FailedFor, IsSubgraph, OperationFails, AsksForRetry, WithinRetries, NotSucceeded, Duplicate
<1>4. p \notin Alive'
  BY DEF Alive
<1>5. CASE Settled(p)
  BY <1>2, <1>5 DEF Settled, EndedWell, StillDue
<1>6. CASE error # "none" /\ FailedFor(p)
  BY <1>3, <1>4, <1>6 DEF StillDue
<1>7. CASE p \in graph.tasks /\ p \in DOMAIN ops
  <2>1. CASE HandleEnd(p)
    <3>1. Fits(p, state[p], result[p]) \/ state[p] = "succeeded"
      <4>1. CASE IsSubgraph(p) /\ p.gen = 0
        <5>1. state[p] \in TERMINATED_STATES /\ state[p] \in SubgraphState
          BY <1>1, <4>1 DEF SubgraphTold, Tracked, FirstBuild, SubgraphStored
        <5> QED
          BY <4>1, <5>1 DEF Fits, TERMINATED_STATES, SubgraphState
      <4>2. CASE IsSubgraph(p) /\ p.gen # 0
        <5>1. Handler[p.op] = "rebuild"
          BY <1>1, <1>7, <4>2, TaskFields DEF SubgraphStored
        <5> QED
          BY <2>1, <4>2, <5>1 DEF HandleEnd, Ends
      <4>3. CASE Plain(p)
        BY <1>1, <4>3 DEF TaskStored, EndStored, EndAgrees, Plain
      <4> QED
        BY <1>1, <4>1, <4>2, <4>3
    <3>2. Fits(p, state[p], result[p]) => EndedWell(p)
      BY <1>1, <2>1, FittingEndsWell DEF HandleEnd, SubgraphStored
    <3>3. state[p] = "succeeded" /\ IsSubgraph(p) => EndedWell(p)
      BY <1>1 DEF SubgraphStored, EndedWell, PollsAgain
    <3>4. state[p] = "succeeded" /\ Plain(p) => EndedWell(p)
      BY <2>1 DEF HandleEnd, Ends, Retries, EndedWell, Plain
    <3> QED
      BY <1>1, <1>2, <3>1, <3>2, <3>3, <3>4 DEF StillDue
  <2>2. CASE HandleFail(p)
    <3>1. error' # "none" /\ Fails(p)
      BY <1>1, <2>2 DEF HandleFail
    <3>2. CASE IsSubgraph(p)
      <4>1. state[p] = "failed" /\ Handler[p.op] = "fail"
        BY <3>1, <3>2 DEF Fails, SubgraphFails
      <4>2. ops[p].state = "failed"
        BY <1>1, <1>7, <3>2, <4>1, WorkflowAssumption DEF EndAgrees, TERMINATED_STATES, IsSubgraph
      <4>3. Duplicate(p) \notin DOMAIN ops
        BY <3>2, SubgraphOnce DEF ResumeInv, CompleteInv
      <4> QED
        BY <1>3, <1>4, <1>7, <3>1, <3>2, <4>1, <4>2, <4>3 DEF FailedFor, StillDue
    <3>3. CASE Plain(p)
      <4>1. OperationFails(p) /\ state[p] \in {"failed", "rescheduled"} /\ ~IsSubgraph(p)
        BY <3>1, <3>3 DEF Fails, OperationFails, AsksForRetry, NotSucceeded, Plain
      <4>2. Duplicate(p) \notin DOMAIN ops
        BY <1>1, <1>7, <3>3 DEF TaskStored, LastStored, Alive
      <4>3. ops[p].state = state[p]
        BY <1>1, <1>7, <3>3, <4>1 DEF TaskStored, NopPending, EndAgrees, TERMINATED_STATES
      <4>4. FailedFor(p)'
        BY <1>4, <1>7, <4>1, <4>2, <4>3 DEF FailedFor, IsSubgraph, OperationFails, AsksForRetry,
              WithinRetries, NotSucceeded, Duplicate
      <4> QED
        BY <3>1, <4>4 DEF StillDue
    <3> QED
      BY <1>1, <3>2, <3>3
  <2> QED
    BY <2>1, <2>2
<1> QED
  BY <1>5, <1>6, <1>7 DEF StillDue

(* What a handler of p leaves of the subgraphs' tidings, when it tells the *)
(* one around p at most.                                                   *)
LEMMA ToldStays ==
    ASSUME SubgraphTold, TypeOK, NEW p \in Task,
           waiting_for' = waiting_for \ {p},
           Tracked(p) => p \in waiting_for,
           Tracked(p) /\ IsSubgraph(p) => state[p] \in TERMINATED_STATES,
           \A u \in Task : \/ state'[u] = state[u]
                           \/ /\ Contained(p) /\ u = Container(p)
                              /\ state[u] \notin TERMINATED_STATES
                              /\ state'[u] \in {"succeeded", "failed"},
           \A u \in finished_tasks' : \/ u \in finished_tasks /\ u # p
                                      \/ /\ Contained(p) /\ u = Container(p)
                                         /\ state'[u] # state[u]
    PROVE  SubgraphTold'
<1>1. waiting_for \subseteq Task /\ finished_tasks \subseteq Task
  BY DEF TypeOK
<1>2. Contained(p) => Container(p) \in Task /\ Container(p) # p /\ (Tracked(p) <=> Tracked(Container(p)))
  BY ContainerShape, TrackedShape
<1>3. ASSUME NEW u \in finished_tasks', Tracked(u), IsSubgraph(u)
      PROVE  u \in waiting_for' /\ state'[u] \in TERMINATED_STATES
  <2>1. CASE u \in finished_tasks /\ u # p
    BY <1>1, <1>3, <2>1 DEF SubgraphTold, TERMINATED_STATES
  <2>2. CASE Contained(p) /\ u = Container(p) /\ state'[u] # state[u]
    BY <1>2, <1>3, <2>2 DEF SubgraphTold, TERMINATED_STATES
  <2> QED
    BY <2>1, <2>2
<1>4. ASSUME NEW u \in waiting_for', Tracked(u), Contained(u)
      PROVE  Container(u) \in waiting_for' \/ state'[Container(u)] \in TERMINATED_STATES
  <2>1. /\ Container(u) \in Task /\ IsSubgraph(Container(u)) /\ Tracked(Container(u))
    BY <1>1, <1>4, ContainerShape, TrackedShape
  <2>2. Container(u) \in waiting_for \/ state[Container(u)] \in TERMINATED_STATES
    BY <1>4 DEF SubgraphTold
  <2> QED
    BY <2>1, <2>2
<1> QED
  BY <1>3, <1>4 DEF SubgraphTold, Tracked, IsSubgraph, Contained, Container

(* What is left in the graph was not in what went with p. *)
LEMMA UnderWhole ==
    ASSUME TypeOK, ListsOwn, NEW p \in Task, NEW u \in Task, Contained(u),
           u \in subtasks[Container(u)], u \notin Under(p)
    PROVE  Container(u) \notin Under(p)
<1> DEFINE c == Container(u)
<1> SUFFICES ASSUME c \in Under(p) PROVE FALSE
  OBVIOUS
<1>1. c \notin {p} \cup subtasks[p]
  BY DEF Under
<1>2. PICK v \in subtasks[p] : c \in subtasks[v]
  BY <1>1 DEF Under
<1>3. v \in Task /\ Contained(v)
  BY <1>2 DEF TypeOK, ListsOwn
<1>4. Contained(c) /\ Container(c) = v
  BY <1>2, <1>3 DEF ListsOwn
<1> QED
  BY <1>3, <1>4, ContainerShape

(* Memory and store still agree when no state but one of a subgraph has    *)
(* changed, and that was stored.                                           *)
LEMMA AgreeStays ==
    ASSUME \A u \in Task : Main(u) => EndAgrees(u),
           UNCHANGED result,
           \A u \in Task : state'[u] # state[u] =>
               /\ IsSubgraph(u) /\ Rooted(u)
               /\ u \in DOMAIN ops => ops'[u].state = state'[u],
           \A u \in Task :
               /\ u \in DOMAIN ops =>
                      u \in DOMAIN ops' /\ (state'[u] = state[u] => ops'[u].state = ops[u].state)
               /\ u \in DOMAIN ops' => u \in DOMAIN ops \/ ops'[u].state \notin TERMINATED_STATES
    PROVE  \A u \in Task : Main(u)' => EndAgrees(u)'
<1> SUFFICES ASSUME NEW u \in Task, Main(u)
             PROVE  EndAgrees(u)'
  BY DEF Main, IsSubgraph, FirstBuild, CleanupOps, Installs, Inside
<1>1. CASE state'[u] = state[u]
  BY <1>1, EndAgreesStays
<1>2. CASE state'[u] # state[u]
  <2>1. IsSubgraph(u) /\ (u \in DOMAIN ops => ops'[u].state = state'[u])
    BY <1>2
  <2>2. u \in DOMAIN ops
    BY <1>2, RootedShape DEF Main, Contained
  <2> QED
    BY <2>1, <2>2 DEF EndAgrees, IsSubgraph
<1> QED
  BY <1>1, <1>2

LEMMA DropComplete ==
    ASSUME ConsistencyInv, ConsistencyInv', ResumeInv, CompleteInv, NEW p \in Task,
           HandleEnd(p) \/ HandleFail(p) \/ HandlePropagate(p), error' # "crashed",
           Store(NewStored(p)), UNCHANGED <<restored, overlooked>>
    PROVE  CompleteInv'
<1>1. /\ TypeOK /\ StoreTyped /\ state' \in [Task -> State] /\ error # "crashed" /\ ListsOwn
      /\ \A u \in Task : Plain(u) => TaskStored(u)
      /\ RootsStored /\ MainReady /\ SubgraphTold /\ AllAccounted
      /\ \A u \in Task : IsSubgraph(u) => SubgraphStored(u)
      /\ \A u \in Task : Main(u) => EndAgrees(u)
  BY DEF ConsistencyInv, TypeOK, ResumeInv, CompleteInv, HandleEnd, HandleFail, HandlePropagate,
         Popped
<1>2. /\ p \in finished_tasks /\ pc' = "handle"
      /\ waiting_for' = waiting_for \ {p}
      /\ UNCHANGED <<result, timers>>
      /\ graph'.tasks = graph.tasks \ Under(p)
      /\ Strays(graph') \subseteq Strays(graph)
      /\ graph'.ready \subseteq graph.ready \cup graph.tasks
      /\ NewStored(p) = {}
      /\ error' = "none" <=> error = "none" /\ ~ (HandleFail(p) /\ ~Contained(p))
      /\ \A u \in Task :
            \/ state'[u] = state[u]
            \/ /\ Contained(p) /\ u = Container(p)
               /\ state[u] \notin TERMINATED_STATES
               /\ state'[u] \in {"succeeded", "failed"}
      /\ \A u \in finished_tasks' :
            \/ u \in finished_tasks /\ u # p
            \/ Contained(p) /\ u = Container(p) /\ state'[u] # state[u]
      /\ \A s \in Task : subtasks'[s] = subtasks[s] \ {p}
  BY <1>1, DropEffect
<1> HIDE DEF NewStored
<1>3. /\ graph.tasks \subseteq Task /\ graph.ready \subseteq Task
      /\ waiting_for \subseteq Task /\ finished_tasks \subseteq Task /\ timers \subseteq Task
      /\ finished_tasks' \subseteq Task /\ graph'.ready \subseteq Task
      /\ DOMAIN ops \subseteq Task
  BY <1>1 DEF ConsistencyInv, TypeOK, GraphType, StoreTyped
<1>4. /\ DOMAIN ops' = DOMAIN ops
      /\ \A u \in DOMAIN ops :
            ops'[u].state = IF state'[u] # state[u] /\ ~Unstored(u, state'[u])
                            THEN state'[u] ELSE ops[u].state
  <2>1. {} \in SUBSET Task /\ \A u \in {} : u.try > 0 \/ u.gen > 0
    OBVIOUS
  <2>2. Store({})
    BY <1>2
  <2>3. /\ DOMAIN ops' = DOMAIN ops \cup {}
        /\ \A u \in DOMAIN ops :
              ops'[u].state = IF state'[u] # state[u] /\ ~Unstored(u, state'[u])
                              THEN state'[u] ELSE ops[u].state
    BY <1>1, <1>2, <2>1, <2>2, StoreEffect DEF Restarted
  <2> QED
    BY <2>3
<1>5. Contained(p) => /\ Container(p) \in Task /\ Container(p) # p
                      /\ IsSubgraph(Container(p)) /\ Rooted(Container(p))
  BY <1>1, <1>2, RootedShape, ContainerShape DEF RootsStored
<1>6. ASSUME NEW u \in Task, state'[u] # state[u]
      PROVE  /\ Contained(p) /\ u = Container(p) /\ IsSubgraph(u) /\ Rooted(u)
             /\ state[u] \notin TERMINATED_STATES /\ state'[u] \in {"succeeded", "failed"}
             /\ u \in DOMAIN ops => ops'[u].state = state'[u]
  <2>1. u = Container(p) /\ IsSubgraph(u) /\ Contained(p) /\ Rooted(u)
        /\ state[u] \notin TERMINATED_STATES /\ state'[u] \in {"succeeded", "failed"}
    BY <1>2, <1>5, <1>6
  <2>2. u.op \notin Nop /\ u.op \notin Local
    BY <2>1, WorkflowAssumption, ResumeAssumption DEF IsSubgraph
  <2> QED
    BY <1>4, <1>6, <2>1, <2>2 DEF Unstored
<1>7. \A u \in Under(p) : u # p => Contained(u) /\ Container(u) \in Under(p)
  BY <1>1, UnderOwned
<1>8. p \in Under(p)
  BY DEF Under
<1>9. RootsStored'
  <2>1. \A u \in Task : Rooted(u) => Rooted(u)'
    BY <1>4, RootedStays
  <2>2. \A u \in finished_tasks' : Rooted(u)
    BY <1>1, <1>2, <1>5 DEF RootsStored
  <2>3. \A u \in waiting_for' \cup timers' : Rooted(u)
    BY <1>1, <1>2 DEF RootsStored
  <2>4. error' = "none" => \A u \in graph'.tasks \cup graph'.ready : Rooted(u)
    BY <1>1, <1>2 DEF RootsStored
  <2> QED
    BY <1>2, <1>3, <2>1, <2>2, <2>3, <2>4 DEF RootsStored
<1>10. MainReady'
  <2> SUFFICES ASSUME NEW u \in graph'.ready, Main(u), u \notin graph'.tasks
               PROVE  FALSE
    BY DEF MainReady, Main, IsSubgraph, FirstBuild, CleanupOps, Installs, Inside
  <2> QED
    BY <1>1, <1>2 DEF MainReady, Strays
<1>11. Tracked(p) => p \in waiting_for
  BY <1>1, <1>2 DEF Plain, TaskStored, EndStored, SubgraphTold
<1>12. SubgraphTold'
  <2>1. Tracked(p) /\ IsSubgraph(p) => state[p] \in TERMINATED_STATES
    BY <1>1, <1>2 DEF SubgraphTold
  <2> QED
    BY <1>1, <1>2, <1>11, <2>1, ToldStays
<1>13. error' = "none" => TrackedListed'
  <2> SUFFICES ASSUME error' = "none", NEW u \in graph'.tasks, Tracked(u), Contained(u)
               PROVE  /\ u \in subtasks'[Container(u)]
                      /\ Container(u) \in Alive' \/ state'[Container(u)] \in TERMINATED_STATES
    BY DEF TrackedListed, Tracked, Contained, Container
  <2> DEFINE c == Container(u)
  <2>1. /\ u \in Task /\ c \in Task /\ IsSubgraph(c) /\ Tracked(c) /\ u \notin Under(p)
        /\ Contained(c) => ~Contained(Container(c))
    BY <1>2, <1>3, ContainerShape, TrackedShape
  <2>2. /\ u \in subtasks[c]
        /\ c \in Alive \/ state[c] \in TERMINATED_STATES
    BY <1>2 DEF TrackedListed, CompleteInv
  <2>3. u \in subtasks'[c]
    BY <1>2, <1>8, <2>1, <2>2
  <2>4. c \notin Under(p)
    BY <1>1, <2>1, <2>2, UnderWhole
  <2>5. state[c] \in TERMINATED_STATES => state'[c] \in TERMINATED_STATES
    BY <1>6, <2>1
  <2> QED
    BY <1>2, <1>8, <2>2, <2>3, <2>4, <2>5 DEF Alive
<1>14. AllAccounted'
  <2> SUFFICES ASSUME NEW u \in Task, Main(u), StillDue(u)
               PROVE  StillDue(u)'
    BY <1>1, AccountedStays
  <2>1. ~Contained(u)
    BY DEF Main, Contained
  <2>2. \/ state'[u] = state[u]
        \/ state[u] \notin TERMINATED_STATES
    BY <1>6
  <2>3. u \in DOMAIN ops => /\ u \in DOMAIN ops'
                            /\ state[u] \in TERMINATED_STATES => ops'[u].state = ops[u].state
    BY <1>4, <2>2
  <2>4. CASE u # p
    <3>1. u \in graph'.tasks <=> u \in graph.tasks
      BY <1>2, <1>7, <2>1, <2>4
    <3> QED
      BY <1>2, <1>4, <2>2, <2>3, <2>4, <3>1, DueStays DEF Duplicate
  <2>5. CASE u = p
    <3>1. HandleEnd(p) \/ HandleFail(p)
      BY <2>1, <2>5 DEF HandlePropagate, Propagates
    <3>2. state'[p] = state[p] /\ (p \in DOMAIN ops => ops'[p].state = ops[p].state)
      BY <1>4, <1>6, <2>1, <2>5
    <3>3. p \notin graph'.tasks /\ result'[p] = result[p]
      BY <1>2, <1>8
    <3> QED
      BY <1>1, <1>2, <1>4, <2>5, <3>1, <3>2, <3>3, PoppedDue
  <2> QED
    BY <2>4, <2>5
<1>15. \A u \in Task : IsSubgraph(u)' => SubgraphStored(u)'
  <2> SUFFICES ASSUME NEW u \in Task, IsSubgraph(u)
               PROVE  SubgraphStored(u)'
    BY DEF IsSubgraph
  <2>1. SubgraphStored(u)
    BY <1>1
  <2> QED
    BY <1>2, <1>4, <1>6, <2>1 DEF SubgraphStored, SubgraphState
<1>16. \A u \in Task : Main(u)' => EndAgrees(u)'
  BY <1>1, <1>2, <1>4, <1>6, AgreeStays
<1> QED
  BY <1>2, <1>9, <1>10, <1>12, <1>13, <1>14, <1>15, <1>16 DEF CompleteInv

-----------------------------------------------------------------------------
(* A retry takes the place of its task *)

LEMMA RetryEffect ==
    ASSUME ConsistencyInv, ConsistencyInv', ResumeInv, NEW p \in Task, HandleRetry(p)
    PROVE  LET D == Duplicate(p)
           IN  /\ graph'.ready \subseteq graph.ready \cup graph.tasks \cup {D}
               /\ Strays(graph') \subseteq Strays(graph)
               /\ pc' = "handle"
               /\ \A u \in Task :
                     \/ state'[u] = state[u]
                     \/ /\ Contained(p) /\ u = Container(p)
                        /\ state[u] \notin TERMINATED_STATES
                        /\ state'[u] = "failed"
               /\ \A u \in finished_tasks' :
                     \/ u \in finished_tasks /\ u # p
                     \/ Contained(p) /\ u = Container(p) /\ state'[u] # state[u]
               /\ \A s \in Task : subtasks'[s] =
                     IF Contained(p) /\ s = Container(p) THEN (subtasks[s] \ {p}) \cup {D}
                                                         ELSE subtasks[s]
<1> DEFINE D == Duplicate(p)
           h == TakeOver(graph, p, D)
<1>1. /\ TypeOK /\ Consistent(graph) /\ D \in Task
      /\ graph' = RemoveTasks(h, {p})
      /\ TellContainer(p, FALSE, {D}) /\ pc' = "handle"
  BY RetryShape DEF ConsistencyInv, HandleRetry, Popped
<1>2. /\ Consistent(h) /\ h.tasks = graph.tasks \cup {D} /\ h.ready \subseteq graph.ready \cup {D}
  BY <1>1, TakeOverConsistent
<1> HIDE DEF h
<1>3. Strays(graph') \subseteq Strays(graph)
  <2>1. Strays(graph') \subseteq Strays(h)
    BY <1>1, <1>2, StraysRemoved
  <2> QED
    BY <1>2, <2>1 DEF Strays
<1>4. graph'.ready \subseteq graph.ready \cup graph.tasks \cup {D}
  BY <1>1, <1>2, RemoveTasksConsistent
<1>5. CASE ~Contained(p)
  BY <1>1, <1>3, <1>4, <1>5 DEF TellContainer
<1>6. CASE Contained(p)
  <2> DEFINE c == Container(p)
             left == (subtasks[c] \ {p}) \cup {D}
             ends == IF state[c] \in TERMINATED_STATES THEN state[c]
                     ELSE IF FALSE \/ c \in failed_task THEN "failed"
                     ELSE IF left = {} THEN "succeeded"
                     ELSE state[c]
  <2>1. /\ subtasks' = [subtasks EXCEPT ![c] = left]
        /\ state' = [state EXCEPT ![c] = ends]
        /\ finished_tasks' = (finished_tasks \ {p}) \cup (IF ends # state[c] THEN {c} ELSE {})
    BY <1>1, <1>6 DEF TellContainer
  <2>2. ends # state[c] => state[c] \notin TERMINATED_STATES /\ ends = "failed"
    OBVIOUS
  <2>3. c \in Task
    BY <1>6, ContainerShape
  <2> HIDE DEF ends
  <2>4. \A u \in Task : state'[u] = IF u = c THEN ends ELSE state[u]
    BY <1>1, <2>1, <2>3 DEF TypeOK
  <2>5. \A s \in Task : subtasks'[s] = IF s = c THEN left ELSE subtasks[s]
    BY <1>1, <2>1, <2>3 DEF TypeOK
  <2> QED
    BY <1>1, <1>3, <1>4, <1>6, <2>1, <2>2, <2>3, <2>4, <2>5
<1> QED
  BY <1>5, <1>6

LEMMA RetryComplete ==
    ASSUME ConsistencyInv, ConsistencyInv', ResumeInv, CompleteInv, NEW p \in Task,
           HandleRetry(p), Store(NewStored(p)), UNCHANGED <<restored, overlooked>>
    PROVE  CompleteInv'
<1> DEFINE D == Duplicate(p)
<1>1. /\ p \in finished_tasks /\ ~IsSubgraph(p)
      /\ waiting_for' = waiting_for \ {p}
      /\ error # "crashed"
      /\ D \in Task /\ D # p /\ D.try > 0 /\ D.op = p.op /\ D.gen = p.gen
      /\ graph'.tasks = (graph.tasks \cup {D}) \ {p}
      /\ NewStored(p) = {D} \ graph.tasks
      /\ UNCHANGED <<error, result, timers>>
  BY RetryShape
<1>2. /\ graph'.ready \subseteq graph.ready \cup graph.tasks \cup {D}
      /\ Strays(graph') \subseteq Strays(graph)
      /\ pc' = "handle"
      /\ \A u \in Task :
            \/ state'[u] = state[u]
            \/ /\ Contained(p) /\ u = Container(p)
               /\ state[u] \notin TERMINATED_STATES
               /\ state'[u] = "failed"
      /\ \A u \in finished_tasks' :
            \/ u \in finished_tasks /\ u # p
            \/ Contained(p) /\ u = Container(p) /\ state'[u] # state[u]
      /\ \A s \in Task : subtasks'[s] =
            IF Contained(p) /\ s = Container(p) THEN (subtasks[s] \ {p}) \cup {D}
                                                ELSE subtasks[s]
  BY RetryEffect
<1>3. Tracked(p) => D \notin DOMAIN ops /\ D \notin Alive /\ state[D] = "pending" /\ p \in waiting_for
  BY RetryNotStored
<1> HIDE DEF NewStored
<1>4. /\ TypeOK /\ StoreTyped /\ state' \in [Task -> State]
      /\ \A u \in Task : Plain(u) => TaskStored(u)
      /\ RootsStored /\ MainReady /\ SubgraphTold /\ AllAccounted
      /\ \A u \in Task : IsSubgraph(u) => SubgraphStored(u)
      /\ \A u \in Task : Main(u) => EndAgrees(u)
  BY <1>1 DEF ConsistencyInv, TypeOK, ResumeInv, CompleteInv
<1>5. /\ graph.tasks \subseteq Task /\ graph.ready \subseteq Task
      /\ waiting_for \subseteq Task /\ finished_tasks \subseteq Task /\ timers \subseteq Task
      /\ finished_tasks' \subseteq Task /\ graph'.ready \subseteq Task
      /\ DOMAIN ops \subseteq Task
  BY <1>4 DEF ConsistencyInv, TypeOK, GraphType, StoreTyped
<1>6. /\ DOMAIN ops' = DOMAIN ops \cup ({D} \ graph.tasks)
      /\ \A u \in DOMAIN ops :
            ops'[u].state = IF state'[u] # state[u] /\ ~Unstored(u, state'[u])
                            THEN state'[u] ELSE ops[u].state
      /\ \A u \in ({D} \ graph.tasks) \ DOMAIN ops : ops'[u].state = "pending"
  <2> DEFINE new == {D} \ graph.tasks
  <2>1. new \in SUBSET Task /\ \A u \in new : u.try > 0 \/ u.gen > 0
    BY <1>1
  <2>2. Store(new)
    BY <1>1
  <2> HIDE DEF new
  <2>3. /\ DOMAIN ops' = DOMAIN ops \cup new
        /\ \A u \in DOMAIN ops :
              ops'[u].state = IF state'[u] # state[u] /\ ~Unstored(u, state'[u])
                              THEN state'[u] ELSE ops[u].state
        /\ \A u \in new \ DOMAIN ops : ops'[u].state = "pending"
    BY <1>1, <1>4, <2>1, <2>2, StoreEffect DEF Restarted
  <2> QED
    BY <2>3 DEF new
<1>7. Contained(p) => /\ Container(p) \in Task /\ Container(p) # p
                      /\ IsSubgraph(Container(p)) /\ Rooted(Container(p))
  BY <1>1, <1>4, RootedShape, ContainerShape DEF RootsStored
<1>8. ASSUME NEW u \in Task, state'[u] # state[u]
      PROVE  /\ Contained(p) /\ u = Container(p) /\ IsSubgraph(u) /\ Rooted(u)
             /\ state[u] \notin TERMINATED_STATES /\ state'[u] = "failed"
             /\ u \in DOMAIN ops => ops'[u].state = state'[u]
  <2>1. u = Container(p) /\ IsSubgraph(u) /\ Contained(p) /\ Rooted(u)
        /\ state[u] \notin TERMINATED_STATES /\ state'[u] = "failed"
    BY <1>2, <1>7, <1>8
  <2>2. u.op \notin Nop /\ u.op \notin Local
    BY <2>1, WorkflowAssumption, ResumeAssumption DEF IsSubgraph
  <2> QED
    BY <1>6, <1>8, <2>1, <2>2 DEF Unstored
<1>9. /\ Rooted(D) /\ ~IsSubgraph(D)
      /\ Contained(D) <=> Contained(p)
      /\ Contained(p) => Container(D) = Container(p)
      /\ Tracked(D) <=> Tracked(p)
  <2>1. Rooted(p)
    BY <1>1, <1>4 DEF RootsStored
  <2>2. ~Contained(p) => Root(p.op) \notin Subgraph
    BY <1>1 DEF Contained, Root, IsSubgraph
  <2> QED
    BY <1>1, <2>1, <2>2 DEF Rooted, RootTask, Contained, Container, IsSubgraph, Tracked
<1> HIDE DEF D
<1>10. RootsStored'
  <2>1. \A u \in Task : Rooted(u) => Rooted(u)'
    BY <1>6, RootedStays
  <2>2. \A u \in finished_tasks' : Rooted(u)
    BY <1>2, <1>4, <1>7 DEF RootsStored
  <2>3. \A u \in waiting_for' \cup timers' : Rooted(u)
    BY <1>1, <1>4 DEF RootsStored
  <2>4. error' = "none" => \A u \in graph'.tasks \cup graph'.ready : Rooted(u)
    BY <1>1, <1>2, <1>4, <1>9 DEF RootsStored
  <2> QED
    BY <1>1, <1>5, <2>1, <2>2, <2>3, <2>4 DEF RootsStored
<1>11. MainReady'
  <2> SUFFICES ASSUME NEW u \in graph'.ready, Main(u), u \notin graph'.tasks
               PROVE  FALSE
    BY DEF MainReady, Main, IsSubgraph, FirstBuild, CleanupOps, Installs, Inside
  <2> QED
    BY <1>2, <1>4 DEF MainReady, Strays
<1>12. SubgraphTold'
  BY <1>1, <1>2, <1>3, <1>4, ToldStays
<1>13. error' = "none" => TrackedListed'
  <2> SUFFICES ASSUME error = "none", NEW u \in graph'.tasks, Tracked(u), Contained(u)
               PROVE  /\ u \in subtasks'[Container(u)]
                      /\ Container(u) \in Alive' \/ state'[Container(u)] \in TERMINATED_STATES
    BY <1>1 DEF TrackedListed, Tracked, Contained, Container
  <2> DEFINE c == Container(u)
  <2>1. u \in Task /\ c \in Task /\ IsSubgraph(c) /\ c # p
    BY <1>1, <1>5, ContainerShape
  <2>2. state[c] \in TERMINATED_STATES => state'[c] \in TERMINATED_STATES
    BY <1>8, <2>1
  <2>3. CASE u = D
    <3>1. Contained(p) /\ c = Container(p) /\ Tracked(p)
      BY <1>9, <2>3
    <3>2. c \in waiting_for \/ state[c] \in TERMINATED_STATES
      BY <1>3, <1>4, <3>1 DEF SubgraphTold
    <3> QED
      BY <1>1, <1>2, <2>1, <2>2, <2>3, <3>1, <3>2 DEF Alive
  <2>4. CASE u # D
    <3>1. u \in graph.tasks /\ u # p
      BY <1>1, <2>4
    <3>2. u \in subtasks[c] /\ (c \in Alive \/ state[c] \in TERMINATED_STATES)
      BY <3>1 DEF TrackedListed, CompleteInv
    <3> QED
      BY <1>1, <1>2, <2>1, <2>2, <3>1, <3>2 DEF Alive
  <2> QED
    BY <2>3, <2>4
<1>14. Main(D) <=> Main(p)
  BY <1>1, <1>9 DEF Main, IsSubgraph
<1>15. Main(p) => Tracked(p) /\ D \notin DOMAIN ops /\ D \notin graph.tasks /\ state[D] = "pending"
  BY <1>1, <1>3 DEF Main, Tracked, FirstBuild, Alive
<1>16. AllAccounted'
  <2> SUFFICES ASSUME NEW u \in Task, Main(u), StillDue(u)
               PROVE  \E v \in Task : v.op = u.op /\ Main(v) /\ StillDue(v)'
    BY <1>4, AccountedStays
  <2>1. CASE u # p /\ u # D
    <3>1. state'[u] = state[u] \/ state[u] \notin TERMINATED_STATES
      BY <1>8
    <3>2. u \in DOMAIN ops => /\ u \in DOMAIN ops'
                              /\ state[u] \in TERMINATED_STATES => ops'[u].state = ops[u].state
      BY <1>6, <3>1
    <3>3. Duplicate(u) \in DOMAIN ops' => Duplicate(u) \in DOMAIN ops
      BY <1>6, <2>1, DuplicateOf DEF D
    <3>4. u \in graph'.tasks <=> u \in graph.tasks
      BY <1>1, <2>1
    <3>5. Duplicate(u)' = Duplicate(u)
      BY DEF Duplicate
    <3> QED
      BY <1>1, <3>1, <3>2, <3>3, <3>4, <3>5, DueStays
  <2>2. CASE u = D
    BY <1>14, <1>15, <2>2 DEF StillDue, Settled, FailedFor
  <2>3. CASE u = p
    <3>1. D \in graph'.tasks /\ D \in DOMAIN ops'
      BY <1>1, <1>6, <1>15, <2>3
    <3>2. D.op = u.op /\ Main(D) /\ D \in Task
      BY <1>1, <1>14, <2>3
    <3>3. StillDue(D)'
      BY <3>1 DEF StillDue, D, Duplicate
    <3> QED
      BY <3>2, <3>3
  <2> QED
    BY <2>1, <2>2, <2>3
<1>17. \A u \in Task : IsSubgraph(u)' => SubgraphStored(u)'
  <2> SUFFICES ASSUME NEW u \in Task, IsSubgraph(u)
               PROVE  SubgraphStored(u)'
    BY DEF IsSubgraph
  <2>1. SubgraphStored(u) /\ u # D
    BY <1>4, <1>9
  <2> QED
    BY <1>1, <1>6, <1>8, <2>1 DEF SubgraphStored, SubgraphState
<1>18. \A u \in Task : Main(u)' => EndAgrees(u)'
  <2>1. \A u \in DOMAIN ops' : u \in DOMAIN ops \/ ops'[u].state \notin TERMINATED_STATES
    BY <1>6 DEF TERMINATED_STATES
  <2> QED
    BY <1>1, <1>4, <1>6, <1>8, <2>1, AgreeStays
<1> QED
  BY <1>2, <1>10, <1>11, <1>12, <1>13, <1>16, <1>17, <1>18 DEF CompleteInv

-----------------------------------------------------------------------------
(* A subgraph is built again *)

(* What a rebuild leaves in the graph: the new build, or what was there.   *)
LEMMA RebuildGraph ==
    ASSUME ConsistencyInv, ResumeInv, NEW s \in Task, HandleRebuild(s)
    PROVE  LET new  == FirstTask(s.op, s.gen + 1)
               made == TasksFor(Inside(s.op), s.gen + 1)
           IN  /\ new \in Task /\ new \in made /\ made \subseteq Task
               /\ s.gen + 1 > 0 /\ s.op \in Op
               /\ graph'.tasks = (graph.tasks \cup made) \ Under(s)
               /\ graph'.ready \subseteq graph.ready \cup graph.tasks \cup made
               /\ Strays(graph') \subseteq Strays(graph)
               /\ \A u \in made : u.gen = s.gen + 1 /\ (u = new <=> ~Contained(u))
                                  /\ Root(u.op) = s.op /\ u.op \in Op
<1> DEFINE n     == s.gen + 1
           O     == Inside(s.op)
           made  == TasksFor(O, n)
           new   == FirstTask(s.op, n)
           shed  == RemoveTasks(graph, Under(s) \ {s})
           built == Build(shed, O, n)
           over  == TakeOver(built, s, new)
<1>1. /\ TypeOK /\ Consistent(graph)
      /\ IsSubgraph(s) /\ ~Contained(s) /\ s.gen < MaxGen
      /\ graph' = RemoveTasks(over, Under(s)) \/ graph' = RemoveTasks(built, Under(s))
  BY DEF ConsistencyInv, HandleRebuild, Rebuilds
<1>2. /\ Under(s) \in SUBSET Task /\ s \in Under(s) /\ Under(s) \ {s} \in SUBSET Task
      /\ s.op \in Op /\ s.gen \in 0..MaxGen /\ Parent[s.op] = NoOp
  BY <1>1, UnderIsTasks, TaskFields DEF Contained
<1>3. n \in 0..MaxGen /\ n > 0 /\ O \in SUBSET Op /\ s.op \in O
  BY <1>1, <1>2, BoundAssumption DEF Inside
<1>4. new \in Task /\ new.op = s.op /\ new \in made
  BY <1>2, <1>3, FirstTaskIsTask DEF TasksFor
<1>5. ASSUME NEW u \in made
      PROVE  /\ u \in Task /\ u.gen = n /\ (u = new <=> ~Contained(u))
             /\ Root(u.op) = s.op /\ u.op \in Op
  <2>1. PICK o \in O : u = FirstTask(o, n)
    BY DEF TasksFor
  <2>2. o \in Op /\ u \in Task /\ u.op = o /\ u.gen = n
    BY <1>3, <2>1, FirstTaskIsTask
  <2>3. Root(o) = s.op /\ (o # s.op => Parent[o] \in O)
    BY <1>2, <2>2, RootShape
  <2>4. o # s.op => Contained(u)
    BY <1>3, <2>2, <2>3, WorkflowAssumption DEF Contained
  <2>5. o = s.op => u = new /\ ~Contained(u)
    BY <1>2, <2>1, <2>2 DEF Contained
  <2> QED
    BY <1>4, <2>2, <2>3, <2>4, <2>5
<1> HIDE DEF n, O, new, made
<1>6. /\ Consistent(shed) /\ shed.tasks = graph.tasks \ (Under(s) \ {s})
      /\ shed.ready \subseteq graph.ready \cup graph.tasks
      /\ Strays(shed) \subseteq Strays(graph)
  BY <1>1, <1>2, RemoveTasksConsistent, StraysRemoved
<1> HIDE DEF shed
<1>7. /\ Consistent(built) /\ built.tasks = shed.tasks \cup made
      /\ built.ready \subseteq shed.ready \cup made
  BY <1>3, <1>6, BuildConsistent DEF made
<1> HIDE DEF built
<1>8. /\ Consistent(over) /\ over.tasks = built.tasks \cup {new}
      /\ over.ready \subseteq built.ready \cup {new}
  BY <1>4, <1>7, TakeOverConsistent
<1> HIDE DEF over
<1>9. Strays(built) \subseteq Strays(graph) /\ Strays(over) \subseteq Strays(graph)
  BY <1>6, <1>7, <1>8 DEF Strays
<1>10. PICK h \in {built, over} : graph' = RemoveTasks(h, Under(s))
  BY <1>1
<1>11. /\ Consistent(h) /\ h.tasks = (graph.tasks \ (Under(s) \ {s})) \cup made
       /\ h.ready \subseteq graph.ready \cup graph.tasks \cup made
       /\ Strays(h) \subseteq Strays(graph)
  BY <1>4, <1>6, <1>7, <1>8, <1>9, <1>10
<1>12. /\ graph'.tasks = h.tasks \ Under(s)
       /\ graph'.ready \subseteq h.ready \cup h.tasks
       /\ Strays(graph') \subseteq Strays(h)
  BY <1>2, <1>10, <1>11, RemoveTasksConsistent, StraysRemoved
<1>13. /\ graph'.tasks = (graph.tasks \cup made) \ Under(s)
       /\ graph'.ready \subseteq graph.ready \cup graph.tasks \cup made
       /\ Strays(graph') \subseteq Strays(graph)
  BY <1>2, <1>11, <1>12
<1> QED
  BY <1>2, <1>3, <1>4, <1>5, <1>13 DEF n, O, new, made

LEMMA RebuildComplete ==
    ASSUME ConsistencyInv, ConsistencyInv', ResumeInv, CompleteInv, NEW s \in Task,
           HandleRebuild(s), Store(NewStored(s)), UNCHANGED <<restored, overlooked>>
    PROVE  CompleteInv'
<1> DEFINE new  == FirstTask(s.op, s.gen + 1)
           made == TasksFor(Inside(s.op), s.gen + 1)
<1>1. /\ s \in finished_tasks /\ IsSubgraph(s) /\ ~Contained(s) /\ state[s] = "failed"
      /\ Handler[s.op] = "rebuild" /\ pc' = "handle"
      /\ \/ WithinRetries(s, s.gen) /\ error' = error
         \/ ~WithinRetries(s, s.gen) /\ error' = FailOnce
      /\ waiting_for' = waiting_for \ {s} /\ finished_tasks' = finished_tasks \ {s}
      /\ UNCHANGED <<state, result, subtasks, timers>>
      /\ error # "crashed" /\ s.gen \in Nat
  BY TaskFields, BoundAssumption DEF HandleRebuild, Rebuilds, Popped, ResumeInv
<1>2. error # "none" => error' # "none"
  BY <1>1 DEF FailOnce
<1>3. /\ new \in Task /\ new \in made /\ made \subseteq Task /\ s.op \in Op
      /\ graph'.tasks = (graph.tasks \cup made) \ Under(s)
      /\ graph'.ready \subseteq graph.ready \cup graph.tasks \cup made
      /\ Strays(graph') \subseteq Strays(graph)
      /\ \A u \in made : u.gen = s.gen + 1 /\ (u = new <=> ~Contained(u))
                         /\ Root(u.op) = s.op /\ u.op \in Op
      /\ s.gen + 1 > 0
  BY RebuildGraph
<1>4. new.op = s.op /\ new.try = 0 /\ ~Contained(new) /\ IsSubgraph(new) /\ new # s /\ new.gen > 0
  BY <1>1, <1>3 DEF FirstTask, IsSubgraph
<1>5. NewStored(s) = IF WithinRetries(s, s.gen) THEN {new} \ graph.tasks ELSE {}
  <2>1. \A u \in graph'.tasks \ graph.tasks : u.op = s.op => u = new
    BY <1>1, <1>3 DEF Contained
  <2>2. new \in graph'.tasks
    <3> SUFFICES ASSUME new \in Under(s) PROVE FALSE
      BY <1>3
    <3>1. TypeOK /\ ListsOwn
      BY <1>1 DEF ConsistencyInv, ResumeInv
    <3> QED
      BY <1>4, <3>1, UnderOwned
  <2> QED
    BY <1>1, <1>4, <2>1, <2>2 DEF NewStored
<1> HIDE DEF NewStored, new, made
<1>6. /\ TypeOK /\ StoreTyped /\ state' \in [Task -> State] /\ ListsOwn
      /\ RootsStored /\ MainReady /\ SubgraphTold /\ AllAccounted
      /\ \A u \in Task : IsSubgraph(u) => SubgraphStored(u)
      /\ \A u \in Task : Main(u) => EndAgrees(u)
  BY <1>1 DEF ConsistencyInv, TypeOK, ResumeInv, CompleteInv
<1>7. /\ graph.tasks \subseteq Task /\ graph.ready \subseteq Task
      /\ waiting_for \subseteq Task /\ finished_tasks \subseteq Task /\ timers \subseteq Task
      /\ graph'.ready \subseteq Task /\ graph'.tasks \subseteq Task
      /\ DOMAIN ops \subseteq Task
  BY <1>6 DEF ConsistencyInv, TypeOK, GraphType, StoreTyped
<1>8. /\ DOMAIN ops' = DOMAIN ops \cup NewStored(s)
      /\ \A u \in DOMAIN ops : ops'[u].state = ops[u].state
      /\ \A u \in NewStored(s) \ DOMAIN ops : ops'[u].state = "pending"
  <2>1. NewStored(s) \in SUBSET Task /\ \A u \in NewStored(s) : u.try > 0 \/ u.gen > 0
    BY <1>3, <1>4, <1>5
  <2>2. /\ DOMAIN ops' = DOMAIN ops \cup NewStored(s)
        /\ \A u \in DOMAIN ops :
              ops'[u].state = IF state'[u] # state[u] /\ ~Unstored(u, state'[u])
                              THEN state'[u] ELSE ops[u].state
        /\ \A u \in NewStored(s) \ DOMAIN ops : ops'[u].state = "pending"
    BY <1>1, <1>6, <2>1, StoreEffect DEF Restarted
  <2> QED
    BY <1>1, <2>2
<1>9. /\ s \in Under(s) /\ new \in graph'.tasks
      /\ \A u \in Under(s) : u # s => Contained(u) /\ Container(u) \in Under(s)
  <2>1. s \in Under(s) /\ \A u \in Under(s) : u # s => Contained(u) /\ Container(u) \in Under(s)
    BY <1>6, UnderOwned DEF Under
  <2> QED
    BY <1>3, <1>4, <2>1
<1>10. error' = "none" /\ s.op \in FirstBuild => new \in DOMAIN ops'
  <2> SUFFICES ASSUME error' = "none", s.op \in FirstBuild, new \in graph.tasks,
                      error = "none", WithinRetries(s, s.gen)
               PROVE  new \in DOMAIN ops
    BY <1>1, <1>2, <1>5, <1>8 DEF FailOnce
  <2> QED
    BY <1>3, <1>4, <1>6, RootedShape DEF RootsStored
<1>11. RootsStored'
  <2>1. \A u \in Task : Rooted(u) => Rooted(u)'
    BY <1>8, RootedStays
  <2>2. ASSUME NEW u \in made, error' = "none"
        PROVE  Rooted(u)'
    <3> SUFFICES ASSUME u.op \in FirstBuild
                 PROVE  RootTask(u) \in DOMAIN ops' /\ (Contained(u) \/ u = RootTask(u))
      BY DEF Rooted, FirstBuild, CleanupOps, Installs, Inside, RootTask, FirstTask, Root, Contained
    <3>1. RootTask(u) = new
      BY <1>3 DEF RootTask, new
    <3>2. s.op \in FirstBuild
      <4> DEFINE v == Container(u)
      <4>1. u \in Task
        BY <1>3
      <4>2. Contained(u) => v \in Task /\ v.op = Parent[u.op] /\ v.op \in FirstBuild
        BY <4>1, ContainerShape, FirstBuildClosed
      <4>3. Contained(u) /\ Contained(v) => Parent[v.op] \in FirstBuild
        BY <4>2, FirstBuildClosed
      <4> QED
        BY <1>3, <4>2, <4>3 DEF Root, Contained
    <3> QED
      BY <1>3, <1>10, <2>2, <3>1, <3>2
  <2>3. error' = "none" => \A u \in graph.tasks \cup graph.ready : Rooted(u)'
    BY <1>2, <1>6, <1>7, <2>1 DEF RootsStored
  <2>4. \A u \in waiting_for' \cup finished_tasks' \cup timers' : Rooted(u)'
    BY <1>1, <1>6, <1>7, <2>1 DEF RootsStored
  <2>5. error' = "none" => \A u \in graph'.tasks \cup graph'.ready : Rooted(u)'
    BY <1>3, <2>2, <2>3
  <2> QED
    BY <2>4, <2>5 DEF RootsStored
<1>12. MainReady'
  <2> SUFFICES ASSUME NEW u \in graph'.ready, Main(u), u \notin graph'.tasks
               PROVE  FALSE
    BY DEF MainReady, Main, IsSubgraph, FirstBuild, CleanupOps, Installs, Inside
  <2> QED
    BY <1>3, <1>6 DEF MainReady, Strays
<1>13. SubgraphTold'
  <2>1. ASSUME NEW u \in finished_tasks', Tracked(u), IsSubgraph(u)
        PROVE  u \in waiting_for' /\ state'[u] \in TERMINATED_STATES
    BY <1>1, <1>6, <2>1 DEF SubgraphTold
  <2>2. ASSUME NEW u \in waiting_for', Tracked(u), Contained(u)
        PROVE  Container(u) \in waiting_for' \/ state'[Container(u)] \in TERMINATED_STATES
    BY <1>1, <1>6, <2>2 DEF SubgraphTold, TERMINATED_STATES
  <2> QED
    BY <2>1, <2>2 DEF SubgraphTold, Tracked, IsSubgraph, Contained, Container
<1>14. error' = "none" => TrackedListed'
  <2> SUFFICES ASSUME error' = "none", NEW u \in graph'.tasks, Tracked(u), Contained(u)
               PROVE  /\ u \in subtasks'[Container(u)]
                      /\ Container(u) \in Alive' \/ state'[Container(u)] \in TERMINATED_STATES
    BY DEF TrackedListed, Tracked, Contained, Container
  <2> DEFINE c == Container(u)
  <2>1. /\ u \in graph.tasks /\ u \in Task /\ c \in Task /\ u \notin Under(s)
        /\ Contained(c) => ~Contained(Container(c))
        /\ c.gen = 0 /\ u.gen = 0
    BY <1>3, <1>7, ContainerShape DEF Tracked
  <2>2. u \in subtasks[c] /\ (c \in Alive \/ state[c] \in TERMINATED_STATES)
    BY <1>2, <2>1 DEF TrackedListed, CompleteInv
  <2>3. c \notin Under(s)
    BY <1>6, <2>1, <2>2, UnderWhole
  <2> QED
    BY <1>1, <1>3, <2>2, <2>3 DEF Alive, TERMINATED_STATES
<1>15. s.op \in FirstBuild =>
          /\ Main(s) /\ Main(new)
          /\ StillDue(new)' \/ StillDue(s)'
  <2> SUFFICES ASSUME s.op \in FirstBuild PROVE Main(s) /\ Main(new) /\ (StillDue(new)' \/ StillDue(s)')
    OBVIOUS
  <2>1. Main(s) /\ Main(new)
    BY <1>1, <1>4 DEF Main, Contained
  <2>2. CASE new \in DOMAIN ops'
    BY <1>9, <2>1, <2>2 DEF StillDue
  <2>3. CASE new \notin DOMAIN ops'
    <3>1. error' # "none"
      BY <1>10, <2>3
    <3>2. s \in DOMAIN ops
      BY <1>1, <1>6, RootedShape DEF RootsStored
    <3>3. ops[s].state = "failed"
      BY <1>1, <1>6, <2>1, WorkflowAssumption DEF EndAgrees, TERMINATED_STATES, IsSubgraph
    <3>4. Duplicate(s) \notin DOMAIN ops'
      <4>1. Duplicate(s) # new
        BY <1>1, <1>4, TaskFields, TaskAssumption, BoundAssumption DEF Duplicate
      <4> QED
        BY <1>1, <1>5, <1>6, <1>8, <4>1, SubgraphOnce
    <3>5. FailedFor(s)'
      <4>1. ops'[s].state = "failed" /\ s \in DOMAIN ops'
        BY <1>8, <3>2, <3>3
      <4>2. Duplicate(s)' = Duplicate(s)
        BY DEF Duplicate
      <4> QED
        BY <1>1, <3>4, <4>1, <4>2 DEF FailedFor, IsSubgraph
    <3> QED
      BY <2>1, <3>1, <3>5 DEF StillDue
  <2> QED
    BY <2>2, <2>3
<1>16. AllAccounted'
  <2> SUFFICES ASSUME NEW u \in Task, Main(u), StillDue(u)
               PROVE  \E v \in Task : v.op = u.op /\ Main(v) /\ StillDue(v)'
    BY <1>6, AccountedStays
  <2>1. CASE u.op = s.op
    <3>1. s.op \in FirstBuild
      BY <2>1 DEF Main
    <3> QED
      BY <1>3, <1>4, <1>15, <2>1, <3>1
  <2>2. CASE u.op # s.op
    <3>1. u \notin Under(s) /\ u \notin made
      BY <1>3, <1>4, <1>9, <2>2 DEF Main, Contained
    <3>2. u \in graph'.tasks <=> u \in graph.tasks
      BY <1>3, <3>1
    <3>3. Duplicate(u) \in DOMAIN ops' => Duplicate(u) \in DOMAIN ops
      <4>1. Duplicate(u) # new
        BY <1>4, <2>2, TaskAssumption DEF Duplicate
      <4> QED
        BY <1>5, <1>8, <4>1
    <3>4. Duplicate(u)' = Duplicate(u)
      BY DEF Duplicate
    <3>5. StillDue(u)'
      BY <1>1, <1>2, <1>8, <3>2, <3>3, <3>4, DueStays
    <3> QED
      BY <3>5
  <2> QED
    BY <2>1, <2>2
<1>17. \A u \in Task : IsSubgraph(u)' => SubgraphStored(u)'
  <2> SUFFICES ASSUME NEW u \in Task, IsSubgraph(u)
               PROVE  SubgraphStored(u)'
    BY DEF IsSubgraph
  <2>1. SubgraphStored(u)
    BY <1>6
  <2>2. CASE u = new
    BY <1>1, <1>4, <1>5, <1>8, <2>1, <2>2 DEF SubgraphStored, SubgraphState
  <2>3. CASE u # new
    BY <1>1, <1>5, <1>8, <2>1, <2>3 DEF SubgraphStored
  <2> QED
    BY <2>2, <2>3
<1>18. \A u \in Task : Main(u)' => EndAgrees(u)'
  <2>1. \A u \in DOMAIN ops' : u \in DOMAIN ops \/ ops'[u].state \notin TERMINATED_STATES
    BY <1>8 DEF TERMINATED_STATES
  <2> QED
    BY <1>1, <1>6, <1>8, <2>1, AgreeStays
<1> QED
  BY <1>1, <1>11, <1>12, <1>13, <1>14, <1>16, <1>17, <1>18 DEF CompleteInv

-----------------------------------------------------------------------------
(* What a resume takes up *)

(* With a task the subgraphs around it are restored. *)
LEMMA KeptAround ==
    ASSUME StoreTyped, NEW stored, ReadFrom(stored), NEW t \in RestoredTasks(stored), Contained(t)
    PROVE  Container(t) \in RestoredTasks(stored)
<1> DEFINE live   == Live(stored)
           around == {Container(u) : u \in {v \in live : Contained(v)}}
           beyond == {Container(u) : u \in {v \in around : Contained(v)}}
<1>1. RestoredTasks(stored) = live \cup around \cup beyond
  BY DEF RestoredTasks
<1>2. RestoredTasks(stored) \in SUBSET Task /\ live \subseteq Task
  BY RestoredAreTasks
<1>3. t \notin beyond
  <2> SUFFICES ASSUME NEW v \in live, Contained(v), Contained(Container(v)),
                      t = Container(Container(v))
               PROVE  FALSE
    OBVIOUS
  <2> QED
    BY <1>2, ContainerShape
<1>4. t \in live \cup around
  BY <1>1, <1>3
<1> QED
  BY <1>1, <1>4

ReadAs(t, s) == s = ops[t].state \/ s = "pending" \/ (s = "sending" /\ ~IsSubgraph(t))

(* What is in the graph of a resumed execution, and what is known of it. *)
LEMMA ResumedShape ==
    ASSUME ConsistencyInv, ResumeInv, NEW forced \in BOOLEAN, Resume(forced), error' # "crashed"
    PROVE  LET kept == RestoredTasks(ops')
           IN  /\ error # "crashed" /\ pc' = "check" /\ error' = "none"
               /\ waiting_for' = {} /\ finished_tasks' = {} /\ timers' = {}
               /\ DOMAIN ops' = DOMAIN ops /\ DOMAIN ops \subseteq Task
               /\ \A t \in DOMAIN ops : ReadAs(t, ops'[t].state)
               /\ overlooked' = overlooked \cup NotActedOn(ops')
               /\ kept \subseteq DOMAIN ops /\ kept \subseteq graph'.tasks
               /\ \A t \in Task : t.op \notin CleanupOps =>
                     /\ t \in graph'.tasks <=> t \in kept
                     /\ t \in graph'.ready => t \in kept
               /\ \A t \in DOMAIN ops : ops'[t].state \notin TERMINATED_STATES => t \in kept
               /\ \A t \in kept : /\ Contained(t) => Container(t) \in kept
                                  /\ ~IsSubgraph(t) => ops'[t].state \notin TERMINATED_STATES
               /\ \A t \in Task :
                     /\ \/ /\ IsSubgraph(t) /\ t \in kept /\ state'[t] = "started"
                        \/ state'[t] = IF t \in DOMAIN ops THEN ops'[t].state ELSE "pending"
                     /\ result'[t] = IF t \in DOMAIN ops \ kept THEN result[t] ELSE "not_set"
               /\ \A s \in DOMAIN ops :
                     subtasks'[s] = {t \in kept : Contained(t) /\ Container(t) = s}
<1> DEFINE kept == RestoredTasks(ops')
           g    == RestoredGraph(ops')
           S    == CleanedUp(kept, RestoredState(ops', kept))
<1>1. /\ ReadFrom(ops') /\ StoreTyped /\ error # "crashed" /\ pc' = "check" /\ error' = "none"
      /\ waiting_for' = {} /\ finished_tasks' = {} /\ timers' = {}
      /\ kept \subseteq DOMAIN ops
      /\ graph' = WithCleanup(g, S)
      /\ state' = RestoredState(ops', kept)
      /\ result' = [u \in Task |-> IF u \in DOMAIN ops \ kept THEN result[u] ELSE "not_set"]
      /\ subtasks' = RestoredSubtasks(ops', kept)
  BY ResumeEffect
<1>2. overlooked' = overlooked \cup NotActedOn(ops')
  BY DEF Resume
<1>3. /\ DOMAIN ops' = DOMAIN ops /\ DOMAIN ops \subseteq Task
      /\ \A t \in DOMAIN ops : ReadAs(t, ops'[t].state)
  BY <1>1, ReadStore DEF StoreTyped, MayRead, ReadAs, IsSubgraph
<1>4. /\ Consistent(g) /\ g.tasks = kept /\ g.ready \subseteq kept
  BY <1>1, RestoredGraphShape
<1>5. S \in SUBSET Installs /\ \A s \in S : FirstTask(s, 0) \in g.tasks
  BY <1>4 DEF CleanedUp
<1>6. /\ kept \in SUBSET Task /\ Live(ops') \subseteq kept
      /\ \A t \in kept : ~IsSubgraph(t) => t \in Live(ops')
  BY <1>1, RestoredAreTasks
<1>7. \A t \in kept : Contained(t) => Container(t) \in kept
  BY <1>1, KeptAround
<1> HIDE DEF S, g, kept
<1>8. /\ kept \subseteq graph'.tasks
      /\ \A t \in Task : t.op \notin CleanupOps =>
            /\ t \in graph'.tasks <=> t \in kept
            /\ t \in graph'.ready => t \in kept
  BY <1>1, <1>4, <1>5, WithCleanupShape
<1>9. ASSUME NEW t \in Task
      PROVE  /\ \/ IsSubgraph(t) /\ t \in kept /\ state'[t] = "started"
                \/ state'[t] = IF t \in DOMAIN ops THEN ops'[t].state ELSE "pending"
             /\ result'[t] = IF t \in DOMAIN ops \ kept THEN result[t] ELSE "not_set"
  <2>1. state'[t] = IF \E u \in kept : Contained(u) /\ Container(u) = t THEN "started"
                    ELSE IF t \in DOMAIN ops THEN ops'[t].state ELSE "pending"
    BY <1>1, <1>3 DEF RestoredState
  <2>2. (\E u \in kept : Contained(u) /\ Container(u) = t) => t \in kept /\ IsSubgraph(t)
    BY <1>6, <1>7, ContainerShape
  <2> QED
    BY <1>1, <2>1, <2>2
<1>10. \A s \in DOMAIN ops : subtasks'[s] = {t \in kept : Contained(t) /\ Container(t) = s}
  BY <1>1, <1>3 DEF RestoredSubtasks
<1>11. /\ \A t \in DOMAIN ops : ops'[t].state \notin TERMINATED_STATES => t \in kept
       /\ \A t \in kept : ~IsSubgraph(t) => ops'[t].state \notin TERMINATED_STATES
  BY <1>3, <1>6 DEF Live
<1> QED
  BY <1>1, <1>2, <1>3, <1>7, <1>8, <1>9, <1>10, <1>11 DEF kept

(* What is still due when a process dies is due in the next one, unless    *)
(* the store does not say so.                                              *)
LEMMA ResumedDue ==
    ASSUME ConsistencyInv, ResumeInv, CompleteInv, NEW forced \in BOOLEAN, Resume(forced),
           error' # "crashed", NEW t \in Task, Main(t), StillDue(t)
    PROVE  t \in NotActedOn(ops') \/ StillDue(t)'
<1> DEFINE kept == RestoredTasks(ops')
<1>1. /\ error # "crashed" /\ waiting_for' = {}
      /\ DOMAIN ops' = DOMAIN ops /\ kept \subseteq DOMAIN ops
      /\ t \in DOMAIN ops => ReadAs(t, ops'[t].state)
      /\ kept \subseteq graph'.tasks
      /\ t.op \notin CleanupOps => (t \in graph'.tasks <=> t \in kept)
      /\ t \in DOMAIN ops /\ ops'[t].state \notin TERMINATED_STATES => t \in kept
      /\ t \in kept /\ ~IsSubgraph(t) => ops'[t].state \notin TERMINATED_STATES
      /\ \/ IsSubgraph(t) /\ t \in kept /\ state'[t] = "started"
         \/ state'[t] = IF t \in DOMAIN ops THEN ops'[t].state ELSE "pending"
      /\ result'[t] = IF t \in DOMAIN ops \ kept THEN result[t] ELSE "not_set"
  BY ResumedShape
<1> HIDE DEF kept
<1>2. /\ t.op \notin CleanupOps /\ EndAgrees(t)
      /\ IsSubgraph(t) \/ Plain(t)
      /\ Plain(t) => TaskStored(t)
      /\ IsSubgraph(t) => SubgraphStored(t) /\ t.op \notin Nop
  BY <1>1, WorkflowAssumption DEF Main, FirstBuild, Plain, Tracked, ResumeInv, CompleteInv, IsSubgraph
<1>3. t \in DOMAIN ops
  <2>1. Settled(t) => state[t] \in {"succeeded", "failed"}
    BY DEF Settled
  <2> QED
    BY <1>2, <2>1 DEF StillDue, FailedFor, TaskStored, GoodStored, EndAgrees, TERMINATED_STATES
<1>4. CASE t \in kept
  BY <1>1, <1>3, <1>4 DEF StillDue
<1>5. CASE t \notin kept
  <2>1. /\ ops'[t].state = ops[t].state /\ ops[t].state \in TERMINATED_STATES
        /\ t \notin graph'.tasks
        /\ state'[t] = ops[t].state /\ result'[t] = result[t]
    BY <1>1, <1>2, <1>3, <1>5 DEF ReadAs, TERMINATED_STATES
  <2>2. EndedWell(t) /\ state[t] = ops[t].state => StillDue(t)'
    BY <1>1, <2>1 DEF EndedWell, StillDue, Settled, PollsAgain
  <2>3. CASE Settled(t)
    <3>1. state[t] = ops[t].state
      <4>1. CASE Plain(t)
        BY <1>2, <1>3, <2>1, <4>1 DEF EndAgrees, Plain
      <4>2. CASE IsSubgraph(t)
        BY <1>2, <1>3, <2>3, <4>2 DEF EndAgrees, Settled, TERMINATED_STATES
      <4> QED
        BY <1>2, <4>1, <4>2
    <3> QED
      BY <2>2, <2>3, <3>1 DEF Settled, EndedWell
  <2>4. CASE t \in graph.tasks \/ FailedFor(t)
    <3>1. Duplicate(t) \notin DOMAIN ops
      <4>1. CASE Plain(t)
        BY <1>2, <2>4, <4>1 DEF TaskStored, LastStored, Alive, FailedFor
      <4>2. CASE IsSubgraph(t)
        BY <1>1, <4>2, SubgraphOnce DEF ResumeInv, CompleteInv
      <4> QED
        BY <1>2, <4>1, <4>2
    <3>2. CASE IsSubgraph(t)
      <4>1. ops[t].state \in {"succeeded", "failed"} /\ result[t] = "not_set"
        BY <1>2, <1>3, <2>1, <3>2 DEF SubgraphStored, SubgraphState, TERMINATED_STATES
      <4>2. CASE ops[t].state = "failed" /\ Handler[t.op] # "ignore"
        BY <1>1, <1>3, <2>1, <3>1, <3>2, <4>2 DEF NotActedOn
      <4>3. CASE ~ (ops[t].state = "failed" /\ Handler[t.op] # "ignore")
        <5>1. Settled(t)'
          BY <1>1, <2>1, <4>1, <4>3 DEF Settled, PollsAgain
        <5> QED
          BY <5>1 DEF StillDue
      <4> QED
        BY <4>2, <4>3
    <3>3. CASE Plain(t)
      <4>1. state[t] = ops[t].state /\ Fits(t, state[t], result[t]) /\ ~IsSubgraph(t)
        BY <1>2, <1>3, <2>1, <3>3 DEF EndAgrees, Plain
      <4>2. CASE Retries(t) \/ OperationFails(t)
        BY <1>1, <1>3, <2>1, <3>1, <4>1, <4>2 DEF NotActedOn
      <4>3. CASE ~ (Retries(t) \/ OperationFails(t))
        <5>1. EndedWell(t)
          BY <4>1, <4>3, FittingEndsWell DEF Ends
        <5> QED
          BY <2>2, <4>1, <5>1
      <4> QED
        BY <4>2, <4>3
    <3> QED
      BY <1>2, <3>2, <3>3
  <2> QED
    BY <1>3, <2>3, <2>4 DEF StillDue
<1> QED
  BY <1>4, <1>5

LEMMA ResumeComplete ==
    ASSUME ConsistencyInv, ResumeInv, CompleteInv, NEW forced \in BOOLEAN, Resume(forced)
    PROVE  CompleteInv'
<1> DEFINE kept == RestoredTasks(ops')
<1>1. CASE error' = "crashed"
  BY <1>1 DEF CompleteInv
<1>2. CASE error' # "crashed"
  <2>1. /\ error # "crashed" /\ pc' = "check" /\ error' = "none"
        /\ waiting_for' = {} /\ finished_tasks' = {} /\ timers' = {}
        /\ DOMAIN ops' = DOMAIN ops /\ DOMAIN ops \subseteq Task
        /\ \A t \in DOMAIN ops : ReadAs(t, ops'[t].state)
        /\ overlooked' = overlooked \cup NotActedOn(ops')
        /\ kept \subseteq DOMAIN ops /\ kept \subseteq graph'.tasks
        /\ \A t \in Task : t.op \notin CleanupOps =>
              /\ t \in graph'.tasks <=> t \in kept
              /\ t \in graph'.ready => t \in kept
        /\ \A t \in kept : /\ Contained(t) => Container(t) \in kept
                           /\ ~IsSubgraph(t) => ops'[t].state \notin TERMINATED_STATES
        /\ \A t \in Task :
              /\ \/ IsSubgraph(t) /\ t \in kept /\ state'[t] = "started"
                 \/ state'[t] = IF t \in DOMAIN ops THEN ops'[t].state ELSE "pending"
              /\ result'[t] = IF t \in DOMAIN ops \ kept THEN result[t] ELSE "not_set"
        /\ \A s \in DOMAIN ops :
              subtasks'[s] = {t \in kept : Contained(t) /\ Container(t) = s}
    BY <1>2, ResumedShape
  <2>2. /\ AllAccounted
        /\ \A u \in Task : IsSubgraph(u) => SubgraphStored(u)
        /\ \A u \in Task : Main(u) => EndAgrees(u)
    BY <2>1 DEF CompleteInv
  <2>3. graph'.tasks \subseteq Task /\ graph'.ready \subseteq Task
    BY ResumeConsistent DEF ConsistencyInv, TypeOK, GraphType
  <2> HIDE DEF kept
  <2>4. ASSUME NEW t \in kept
        PROVE  Rooted(t)
    <3>1. ASSUME NEW u \in kept, ~Contained(u)
          PROVE  Rooted(u)
      <4> SUFFICES ASSUME IsSubgraph(u)
                   PROVE  RootTask(u) \in DOMAIN ops /\ u = RootTask(u)
        BY <3>1 DEF Rooted, Root, Contained, IsSubgraph
      <4>1. u \in Task /\ u \in DOMAIN ops /\ u.try = 0
        BY <2>1, <2>2 DEF SubgraphStored
      <4>2. u = FirstTask(u.op, u.gen)
        BY <4>1, TaskAssumption DEF FirstTask
      <4> QED
        BY <3>1, <4>1, <4>2 DEF RootTask, Root, Contained
    <3>2. t \in Task
      BY <2>1
    <3>3. CASE ~Contained(t)
      BY <3>1, <3>3
    <3>4. CASE Contained(t) /\ ~Contained(Container(t))
      BY <2>1, <3>1, <3>2, <3>4, RootedShape
    <3>5. CASE Contained(t) /\ Contained(Container(t))
      <4>1. /\ Container(t) \in kept /\ Container(Container(t)) \in kept
            /\ Container(t) \in Task /\ ~Contained(Container(Container(t)))
        BY <2>1, <3>2, <3>5, ContainerShape
      <4> QED
        BY <3>1, <3>2, <3>5, <4>1, RootedShape
    <3> QED
      BY <3>3, <3>4, <3>5
  <2>5. RootsStored'
    <3> SUFFICES ASSUME NEW t \in graph'.tasks \cup graph'.ready
                 PROVE  Rooted(t)'
      BY <2>1 DEF RootsStored
    <3>1. t \in Task
      BY <2>3
    <3>2. t.op \in FirstBuild => Rooted(t)
      BY <2>1, <2>4, <3>1 DEF FirstBuild
    <3>3. Rooted(t)
      BY <3>2 DEF Rooted
    <3> QED
      BY <2>1, <3>1, <3>3, RootedStays
  <2>6. MainReady'
    <3> SUFFICES ASSUME NEW t \in graph'.ready, Main(t)
                 PROVE  t \in graph'.tasks
      BY DEF MainReady, Main, IsSubgraph, FirstBuild, CleanupOps, Installs, Inside
    <3> QED
      BY <2>1, <2>3 DEF Main, FirstBuild
  <2>7. SubgraphTold'
    BY <2>1 DEF SubgraphTold
  <2>8. TrackedListed'
    <3> SUFFICES ASSUME NEW t \in graph'.tasks, Tracked(t), Contained(t)
                 PROVE  t \in subtasks'[Container(t)] /\ Container(t) \in Alive'
      BY DEF TrackedListed, Tracked, Contained, Container
    <3>1. t \in kept /\ Container(t) \in kept
      BY <2>1, <2>3 DEF Tracked
    <3> QED
      BY <2>1, <3>1 DEF Alive
  <2>9. \A s \in Task : IsSubgraph(s)' => SubgraphStored(s)'
    <3> SUFFICES ASSUME NEW s \in Task, IsSubgraph(s)
                 PROVE  SubgraphStored(s)'
      BY DEF IsSubgraph
    <3>1. SubgraphStored(s)
      BY <2>2
    <3> QED
      BY <2>1, <3>1 DEF SubgraphStored, SubgraphState, ReadAs
  <2>10. \A t \in Task : Main(t)' => EndAgrees(t)'
    <3> SUFFICES ASSUME NEW t \in Task, Main(t)
                 PROVE  EndAgrees(t)'
      BY DEF Main, IsSubgraph, FirstBuild, CleanupOps, Installs, Inside
    <3>1. EndAgrees(t)
      BY <2>2
    <3>2. state'[t] \in TERMINATED_STATES => t \in DOMAIN ops /\ ops'[t].state = state'[t]
      BY <2>1 DEF TERMINATED_STATES, ReadAs
    <3>3. ~IsSubgraph(t) /\ t \in DOMAIN ops => state'[t] = ops'[t].state
      BY <2>1
    <3>4. ~IsSubgraph(t) /\ state'[t] \in TERMINATED_STATES => Fits(t, state'[t], result'[t])
      <4> SUFFICES ASSUME ~IsSubgraph(t), state'[t] \in TERMINATED_STATES
                   PROVE  Fits(t, state'[t], result'[t])
        OBVIOUS
      <4>1. t \in DOMAIN ops /\ ops[t].state = state'[t] /\ t \notin kept
        BY <2>1, <3>2 DEF TERMINATED_STATES, ReadAs
      <4>2. result'[t] = result[t]
        BY <2>1, <4>1
      <4> QED
        BY <3>1, <4>1, <4>2 DEF EndAgrees
    <3> QED
      BY <2>1, <3>2, <3>3, <3>4 DEF EndAgrees, IsSubgraph, Fits
  <2>11. AllAccounted'
    <3> SUFFICES ASSUME NEW o \in FirstBuild, Parent[o] = NoOp, ~Overlooked(o)'
                 PROVE  \E t \in Task : t.op = o /\ Main(t)' /\ StillDue(t)'
      BY DEF AllAccounted, FirstBuild, CleanupOps, Installs, Inside
    <3>1. ~Overlooked(o)
      BY <2>1 DEF Overlooked
    <3>2. PICK t \in Task : t.op = o /\ Main(t) /\ StillDue(t)
      BY <2>2, <3>1 DEF AllAccounted
    <3>3. t \notin NotActedOn(ops')
      BY <2>1, <3>2 DEF Overlooked
    <3>4. StillDue(t)'
      BY <1>2, <3>2, <3>3, ResumedDue
    <3>5. Main(t)'
      BY <3>2 DEF Main, IsSubgraph, FirstBuild, CleanupOps, Installs, Inside
    <3> QED
      BY <3>2, <3>4, <3>5
  <2> QED
    BY <2>1, <2>5, <2>6, <2>7, <2>8, <2>9, <2>10, <2>11 DEF CompleteInv
<1> QED
  BY <1>1, <1>2

-----------------------------------------------------------------------------
(* A resumed execution comes to its end *)

LEMMA InitComplete == ResumeInit => CompleteInv
<1> SUFFICES ASSUME ResumeInit PROVE CompleteInv
  OBVIOUS
<1>1. /\ FirstBuild \in SUBSET Op /\ 0 \in 0..MaxGen /\ Consistent(EmptyGraph)
      /\ EmptyGraph.tasks = {} /\ EmptyGraph.ready = {}
  BY BoundAssumption, EmptyGraphConsistent DEF FirstBuild, EmptyGraph
<1>2. /\ Consistent(graph) /\ graph.tasks = TasksFor(FirstBuild, 0)
      /\ graph.ready \subseteq graph.tasks
  <2>1. /\ Consistent(Build(EmptyGraph, FirstBuild, 0))
        /\ Build(EmptyGraph, FirstBuild, 0).tasks = EmptyGraph.tasks \cup TasksFor(FirstBuild, 0)
        /\ Build(EmptyGraph, FirstBuild, 0).ready
               \subseteq EmptyGraph.ready \cup TasksFor(FirstBuild, 0)
    BY <1>1, BuildConsistent, Zenon
  <2>2. graph = Build(EmptyGraph, FirstBuild, 0)
    BY DEF ResumeInit
  <2> HIDE DEF Build, FirstBuild
  <2> QED
    BY <1>1, <2>1, <2>2
<1>3. /\ waiting_for = {} /\ finished_tasks = {} /\ timers = {}
      /\ error = "none" /\ pc = "check"
      /\ \A t \in Task : state[t] = "pending" /\ result[t] = "not_set" /\ subtasks[t] = MadeOf(t)
      /\ ops = StoredGraph(graph)
  BY DEF ResumeInit
<1>4. /\ DOMAIN ops = graph.tasks /\ graph.tasks \subseteq Task
      /\ \A t \in DOMAIN ops : ops[t].state = "pending"
  BY <1>2, <1>3 DEF StoredGraph, Consistent, GraphType
<1>5. \A t \in graph.tasks : t.try = 0 /\ t.gen = 0 /\ t.op \in FirstBuild /\ t = FirstTask(t.op, 0)
  BY <1>2 DEF TasksFor, FirstTask
<1>6. \A o \in FirstBuild : /\ FirstTask(o, 0) \in graph.tasks
                            /\ FirstTask(o, 0).op = o /\ FirstTask(o, 0).gen = 0
  BY <1>2 DEF TasksFor, FirstTask
<1>7. ASSUME NEW t \in graph.tasks, Contained(t)
      PROVE  /\ Container(t) \in graph.tasks /\ t \in subtasks[Container(t)]
  <2>1. t \in Task /\ t.op \in Op /\ t.op \in FirstBuild /\ t.gen = 0
    BY <1>4, <1>5, TaskFields
  <2>2. /\ Container(t) \in Task /\ Container(t).op = Parent[t.op] /\ IsSubgraph(Container(t))
        /\ Container(t).try = 0 /\ Container(t).gen = 0
    BY <1>7, <2>1, ContainerShape
  <2>3. Parent[t.op] \in FirstBuild
    BY <1>7, <2>1, FirstBuildClosed
  <2>4. Container(t) \in graph.tasks
    BY <1>6, <2>1, <2>3 DEF Container
  <2>5. t \in MadeOf(Container(t))
    BY <1>5, <2>1, <2>2 DEF MadeOf, TasksFor, Members
  <2> QED
    BY <1>3, <2>2, <2>4, <2>5
<1>8. ASSUME NEW t \in graph.tasks
      PROVE  Rooted(t)
  <2>1. t \in Task /\ t.op \in FirstBuild /\ t.gen = 0 /\ t = FirstTask(t.op, 0)
    BY <1>4, <1>5
  <2>2. Root(t.op) \in FirstBuild
    <3>1. CASE ~Contained(t)
      BY <2>1, <3>1 DEF Root, Contained
    <3>2. CASE Contained(t)
      <4>1. /\ Container(t) \in Task /\ Container(t).op = Parent[t.op] /\ Parent[t.op] \in FirstBuild
        BY <2>1, <3>2, ContainerShape, FirstBuildClosed
      <4>2. Contained(Container(t)) => Parent[Parent[t.op]] \in FirstBuild
        BY <4>1, FirstBuildClosed
      <4> QED
        BY <3>2, <4>1, <4>2 DEF Root, Contained
    <3> QED
      BY <3>1, <3>2
  <2>3. RootTask(t) \in DOMAIN ops
    BY <1>4, <1>6, <2>1, <2>2 DEF RootTask
  <2> QED
    BY <2>1, <2>3 DEF Rooted, RootTask, Root, Contained
<1>9. RootsStored /\ MainReady
  BY <1>2, <1>3, <1>8 DEF RootsStored, MainReady
<1>10. SubgraphTold
  BY <1>3 DEF SubgraphTold
<1>11. TrackedListed
  BY <1>7 DEF TrackedListed, Alive
<1>12. \A s \in Task : IsSubgraph(s) => SubgraphStored(s)
  BY <1>3, <1>4, <1>5 DEF SubgraphStored, SubgraphState
<1>13. \A t \in Task : Main(t) => EndAgrees(t)
  BY <1>3, <1>4 DEF EndAgrees, TERMINATED_STATES
<1>14. AllAccounted
  <2> SUFFICES ASSUME NEW o \in FirstBuild, Parent[o] = NoOp
               PROVE  \E t \in Task : t.op = o /\ Main(t) /\ StillDue(t)
    BY DEF AllAccounted
  <2>1. /\ FirstTask(o, 0) \in Task /\ FirstTask(o, 0).op = o
        /\ Main(FirstTask(o, 0)) /\ StillDue(FirstTask(o, 0))
    BY <1>4, <1>6 DEF Main, StillDue
  <2> QED
    BY <2>1
<1> QED
  BY <1>3, <1>9, <1>10, <1>11, <1>12, <1>13, <1>14 DEF CompleteInv

LEMMA EngineComplete ==
    ASSUME ConsistencyInv, ConsistencyInv', ResumeInv, CompleteInv,
           Loop \/ (\E t \in Task : Answer(t) \/ Delayed(t)) \/ CancelOrder \/ WindowEnds
    PROVE  CompleteInv'
<1>1. CASE \E t \in Task : Apply(t) /\ Store({}) /\ Kept
  <2>1. PICK t \in Task : Apply(t) /\ Store({}) /\ Kept
    BY <1>1
  <2>2. (RunOperation(t) \/ RunSubgraph(t)) /\ UNCHANGED <<restored, overlooked>>
    BY <2>1 DEF Apply, Run, Kept
  <2> QED
    BY <2>1, <2>2, OperationRunComplete, SubgraphRunComplete
<1>2. CASE \E t \in Task : Handle(t) /\ Store(NewStored(t)) /\ Kept
  <2>1. PICK t \in Task : Handle(t) /\ Store(NewStored(t)) /\ Kept
    BY <1>2
  <2>2. /\ \/ HandleEnd(t) \/ HandleFail(t) \/ HandleRetry(t)
           \/ HandleRebuild(t) \/ HandlePropagate(t)
        /\ UNCHANGED <<restored, overlooked>>
    BY <2>1 DEF Handle, Kept
  <2>3. CASE error' = "crashed"
    BY <2>3 DEF CompleteInv
  <2> HIDE DEF NewStored
  <2> QED
    BY <2>1, <2>2, <2>3, DropComplete, RetryComplete, RebuildComplete
<1>3. CASE \E t \in Task : (Finish(t) \/ TimerFires(t)) /\ Store({}) /\ Kept
  BY <1>3, DueComplete DEF Kept
<1>4. CASE (Check \/ RunDone \/ HandleDone \/ Cancel \/ DeadlinePasses) /\ Store({}) /\ Kept
  BY <1>4, QuietComplete DEF Kept
<1> QED
  BY <1>1, <1>2, <1>3, <1>4 DEF Loop, Answer, Delayed, CancelOrder, WindowEnds

LEMMA StutterComplete ==
    ASSUME CompleteInv, UNCHANGED rvars
    PROVE  CompleteInv'
<1>1. UNCHANGED <<graph, waiting_for, finished_tasks, error, pc, state, result, subtasks, timers,
                  ops, overlooked>>
  BY DEF rvars, vars, store
<1>2. RootsStored => RootsStored'
  BY <1>1 DEF RootsStored, Rooted, RootTask, FirstTask, Root, Contained, FirstBuild
<1>3. (MainReady => MainReady') /\ (SubgraphTold => SubgraphTold')
  BY <1>1 DEF MainReady, Main, SubgraphTold, Tracked, IsSubgraph, Contained, Container
<1>4. TrackedListed => TrackedListed'
  BY <1>1 DEF TrackedListed, Tracked, Contained, Container, Alive
<1>5. \A t \in Task : /\ SubgraphStored(t) => SubgraphStored(t)'
                      /\ EndAgrees(t) => EndAgrees(t)'
  BY <1>1 DEF SubgraphStored, EndAgrees, Fits, IsSubgraph
<1>6. \A t \in Task : StillDue(t) => StillDue(t)'
  BY <1>1, DueStays DEF Duplicate
<1>7. AllAccounted => AllAccounted'
  <2> SUFFICES ASSUME AllAccounted PROVE AllAccounted'
    OBVIOUS
  <2> QED
    BY <1>1, <1>6, AccountedStays
<1>8. \A t \in Task : (IsSubgraph(t) <=> IsSubgraph(t)') /\ (Main(t) <=> Main(t)')
  BY DEF IsSubgraph, Main, FirstBuild
<1> QED
  BY <1>1, <1>2, <1>3, <1>4, <1>5, <1>7, <1>8 DEF CompleteInv

LEMMA AlwaysComplete == ResumeSpec => [](ConsistencyInv /\ ResumeInv /\ CompleteInv)
<1>1. ResumeInit => ConsistencyInv /\ ResumeInv /\ CompleteInv
  BY InitStored, InitComplete
<1>2. ConsistencyInv /\ ResumeInv /\ CompleteInv /\ [ResumeNext]_rvars
      => (ConsistencyInv /\ ResumeInv /\ CompleteInv)'
  <2> SUFFICES ASSUME ConsistencyInv, ResumeInv, CompleteInv, [ResumeNext]_rvars
               PROVE  (ConsistencyInv /\ ResumeInv /\ CompleteInv)'
    OBVIOUS
  <2>1. ConsistencyInv' /\ ResumeInv'
    BY ResumeNextKeeps
  <2>2. CASE Loop \/ (\E t \in Task : Answer(t) \/ Delayed(t)) \/ CancelOrder \/ WindowEnds
    BY <2>1, <2>2, EngineComplete
  <2>3. CASE \E forced \in BOOLEAN : Resume(forced)
    BY <2>1, <2>3, ResumeComplete
  <2>4. CASE UNCHANGED rvars
    BY <2>1, <2>4, StutterComplete
  <2> QED
    BY <2>2, <2>3, <2>4 DEF ResumeNext
<1> QED
  BY <1>1, <1>2, PTL DEF ResumeSpec

(* An execution that ends without an error, in whichever process and after *)
(* whatever crashes, retries and rebuilds, has brought every operation and *)
(* subgraph of the first build at top level to a good end, unless a resume *)
(* found it ended and not acted on (_is_finished, restore, store).         *)
THEOREM ResumedComesToItsEnd == ResumeSpec => []ResumedIsComplete
<1>1. CompleteInv => ResumedIsComplete
  <2> SUFFICES ASSUME CompleteInv, pc = "returned", error = "none",
                      NEW o \in FirstBuild, Parent[o] = NoOp, ~Overlooked(o)
               PROVE  SettledIn(o, 0..MaxGen)
    BY DEF ResumedIsComplete
  <2>1. graph.tasks = {} /\ AllAccounted
    BY DEF CompleteInv
  <2>2. PICK t \in Task : t.op = o /\ StillDue(t)
    BY <2>1 DEF AllAccounted
  <2>3. Settled(t) /\ t.gen \in 0..MaxGen
    BY <2>1, <2>2, TaskFields DEF StillDue
  <2> QED
    BY <2>2, <2>3 DEF SettledIn
<1> QED
  BY <1>1, AlwaysComplete, PTL
=============================================================================
