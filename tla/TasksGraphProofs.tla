-------------------------- MODULE TasksGraphProofs --------------------------
(***************************************************************************)
(* What the methods of the graph return and preserve, for any set of       *)
(* tasks, and theorems about the code that builds a graph and about        *)
(* TaskDependencyGraph.execute, for every workflow.                        *)
(***************************************************************************)
EXTENDS TasksGraphProperties, GraphBuilding, FiniteSetTheorems,
        WellFoundedInduction, TLAPS

Consistent(g) == g \in GraphType /\ Mirrored(g) /\ EdgesInside(g)

LEMMA EmptyGraphConsistent == Consistent(EmptyGraph)
BY DEF Consistent, GraphType, Mirrored, EdgesInside, EmptyGraph

(* add_task keeps the edges as they are. *)
LEMMA AddTasksConsistent ==
    ASSUME NEW g, Consistent(g), NEW T \in SUBSET Task
    PROVE  /\ Consistent(AddTasks(g, T))
           /\ AddTasks(g, T).tasks = g.tasks \cup T
           /\ AddTasks(g, T).ready = g.ready \cup T
           /\ AddTasks(g, T).dependencies = g.dependencies
           /\ AddTasks(g, T).dependents = g.dependents
BY DEF Consistent, GraphType, Mirrored, EdgesInside, AddTasks

(* add_dependency, called for tasks of the graph only, keeps the two dicts *)
(* in step.                                                                *)
LEMMA AddDependenciesConsistent ==
    ASSUME NEW g, Consistent(g), NEW E \in SUBSET (g.tasks \X g.tasks)
    PROVE  /\ Consistent(AddDependencies(g, E))
           /\ AddDependencies(g, E).tasks = g.tasks
           /\ AddDependencies(g, E).ready \subseteq g.ready
<1> DEFINE h == AddDependencies(g, E)
<1>1. h \in GraphType
  BY DEF Consistent, GraphType, AddDependencies
<1>2. \A s, d \in Task : <<s, d>> \in E => s \in g.tasks /\ d \in g.tasks
  OBVIOUS
<1>3. \A t, d \in Task :
         d \in h.dependencies[t] <=> \/ d \in g.dependencies[t]
                                     \/ d # t /\ <<t, d>> \in E
  BY DEF Consistent, GraphType, AddDependencies
<1>4. \A t, s \in Task :
         s \in h.dependents[t] <=> \/ s \in g.dependents[t]
                                   \/ s # t /\ <<s, t>> \in E
  BY DEF Consistent, GraphType, AddDependencies
<1>5. h.tasks = g.tasks /\ h.ready \subseteq g.ready
  BY DEF AddDependencies
<1>6. \A t \in Task : /\ h.dependencies[t] \subseteq Task
                      /\ h.dependents[t] \subseteq Task
                      /\ g.dependencies[t] \subseteq Task
                      /\ g.dependents[t] \subseteq Task
  BY <1>1 DEF Consistent, GraphType
<1> HIDE DEF h
<1>7. Mirrored(h)
  BY <1>3, <1>4, <1>6 DEF Consistent, Mirrored
<1>8. EdgesInside(h)
  BY <1>2, <1>3, <1>5, <1>6 DEF Consistent, EdgesInside
<1> QED
  BY <1>1, <1>5, <1>7, <1>8 DEF Consistent, h

(* remove_dependency cuts edges on both sides. *)
LEMMA ReleaseFromConsistent ==
    ASSUME NEW g, Consistent(g), NEW dst \in Task, NEW S \in SUBSET Task
    PROVE  /\ Consistent(ReleaseFrom(g, dst, S))
           /\ ReleaseFrom(g, dst, S).tasks = g.tasks
           /\ ReleaseFrom(g, dst, S).ready \subseteq g.ready \cup S
<1> DEFINE h == ReleaseFrom(g, dst, S)
<1>1. h \in GraphType
  BY DEF Consistent, GraphType, ReleaseFrom
<1>2. \A t, d \in Task :
         d \in h.dependencies[t] <=> d \in g.dependencies[t] /\ ~(t \in S /\ d = dst)
  BY DEF Consistent, GraphType, ReleaseFrom
<1>3. \A t, s \in Task :
         s \in h.dependents[t] <=> s \in g.dependents[t] /\ ~(s \in S /\ t = dst)
  BY DEF Consistent, GraphType, ReleaseFrom
<1>4. h.tasks = g.tasks /\ h.ready \subseteq g.ready \cup S
  BY DEF ReleaseFrom
<1>5. \A t \in Task : /\ h.dependencies[t] \subseteq Task
                      /\ h.dependents[t] \subseteq Task
                      /\ g.dependencies[t] \subseteq Task
                      /\ g.dependents[t] \subseteq Task
  BY <1>1 DEF Consistent, GraphType
<1> HIDE DEF h
<1>6. Mirrored(h)
  BY <1>2, <1>3, <1>5 DEF Consistent, Mirrored
<1>7. EdgesInside(h)
  BY <1>2, <1>4, <1>5 DEF Consistent, EdgesInside
<1> QED
  BY <1>1, <1>4, <1>6, <1>7 DEF Consistent, h

(* remove_task finds the edges to cut in the other dict; because the two   *)
(* mirror each other none is left behind.                                  *)
LEMMA RemoveTasksConsistent ==
    ASSUME NEW g, Consistent(g), NEW R \in SUBSET Task
    PROVE  /\ Consistent(RemoveTasks(g, R))
           /\ RemoveTasks(g, R).tasks = g.tasks \ R
           /\ RemoveTasks(g, R).ready \subseteq g.ready \cup g.tasks
<1> DEFINE h == RemoveTasks(g, R)
           gone == R \cap g.tasks
<1>1. h \in GraphType
  BY DEF Consistent, GraphType, RemoveTasks
<1>2. \A t, d \in Task :
         d \in h.dependencies[t] <=> /\ t \notin gone
                                     /\ d \in g.dependencies[t]
                                     /\ ~(d \in gone /\ t \in g.dependents[d])
  BY DEF Consistent, GraphType, RemoveTasks
<1>3. \A t, s \in Task :
         s \in h.dependents[t] <=> /\ t \notin gone
                                   /\ s \in g.dependents[t]
                                   /\ ~(s \in gone /\ t \in g.dependencies[s])
  BY DEF Consistent, GraphType, RemoveTasks
<1>4. h.tasks = g.tasks \ R
  BY DEF RemoveTasks
<1>5. \A t \in Task : /\ h.dependencies[t] \subseteq Task
                      /\ h.dependents[t] \subseteq Task
                      /\ g.dependencies[t] \subseteq Task
                      /\ g.dependents[t] \subseteq Task
  BY <1>1 DEF Consistent, GraphType
<1>6. \A s, d \in Task : d \in g.dependencies[s] <=> s \in g.dependents[d]
  BY <1>5 DEF Consistent, Mirrored
<1>7. \A s, d \in Task : d \in g.dependencies[s] =>
                             s \in g.tasks /\ d \in g.tasks /\ s # d
  BY DEF Consistent, EdgesInside
<1>10. h.ready \subseteq g.ready \cup g.tasks
  BY <1>6, <1>7 DEF RemoveTasks
<1> HIDE DEF h
<1>8. Mirrored(h)
  BY <1>2, <1>3, <1>5, <1>6 DEF Mirrored
<1>9. EdgesInside(h)
  BY <1>2, <1>4, <1>5, <1>6, <1>7 DEF EdgesInside
<1> QED
  BY <1>1, <1>4, <1>8, <1>9, <1>10 DEF Consistent, h

(* The retry arm of _handle_terminated_task. *)
LEMMA TakeOverConsistent ==
    ASSUME NEW g, Consistent(g), NEW old \in Task, NEW new \in Task
    PROVE  /\ Consistent(TakeOver(g, old, new))
           /\ TakeOver(g, old, new).tasks = g.tasks \cup {new}
           /\ TakeOver(g, old, new).ready \subseteq g.ready \cup {new}
<1> DEFINE a == AddTasks(g, {new})
           E == ({new} \X g.dependencies[old]) \cup (g.dependents[old] \X {new})
<1>1. /\ Consistent(a)
      /\ a.tasks = g.tasks \cup {new}
      /\ a.ready = g.ready \cup {new}
  BY AddTasksConsistent
<1>2. g.dependencies[old] \subseteq g.tasks
  BY DEF Consistent, EdgesInside, GraphType
<1>3. g.dependents[old] \subseteq g.tasks
  BY DEF Consistent, EdgesInside, Mirrored, GraphType
<1>4. E \in SUBSET (a.tasks \X a.tasks)
  BY <1>1, <1>2, <1>3
<1> HIDE DEF a, E
<1>5. /\ Consistent(AddDependencies(a, E))
      /\ AddDependencies(a, E).tasks = a.tasks
      /\ AddDependencies(a, E).ready \subseteq a.ready
  BY <1>1, <1>4, AddDependenciesConsistent
<1> QED
  BY <1>1, <1>5 DEF TakeOver, a, E

-----------------------------------------------------------------------------
(* What _ready promises the main loop while it has applied the tasks of W: *)
(* what is ready waits for nothing and was not applied, what was applied   *)
(* waits for nothing, and no task that could run is forgotten.             *)
Tight(g, W) ==
    /\ ReadyIsFree(g)
    /\ \A t \in W : t \notin g.ready /\ g.dependencies[t] = {}
    /\ Free(g) \subseteq g.ready \cup W

LEMMA EmptyGraphTight == Tight(EmptyGraph, {})
BY DEF Tight, ReadyIsFree, Free, EmptyGraph

(* add_task makes ready what waits for nothing. *)
LEMMA AddTasksTight ==
    ASSUME NEW g, Consistent(g), NEW W, Tight(g, W), NEW T \in SUBSET Task,
           \A t \in T : t \notin W /\ g.dependencies[t] = {}
    PROVE  Tight(AddTasks(g, T), W)
BY DEF Consistent, GraphType, Tight, ReadyIsFree, Free, AddTasks

(* add_dependency takes its source out of _ready. *)
LEMMA AddDependenciesTight ==
    ASSUME NEW g, Consistent(g), NEW W \in SUBSET Task, Tight(g, W),
           NEW E \in SUBSET (g.tasks \X g.tasks),
           \A t \in W : \A d \in Task : <<t, d>> \notin E
    PROVE  /\ Tight(AddDependencies(g, E), W)
           /\ \A t, d \in Task : d \in AddDependencies(g, E).dependencies[t] <=>
                  \/ d \in g.dependencies[t]
                  \/ d # t /\ <<t, d>> \in E
<1> DEFINE h == AddDependencies(g, E)
<1>1. \A t, d \in Task : d \in h.dependencies[t] <=> \/ d \in g.dependencies[t]
                                                     \/ d # t /\ <<t, d>> \in E
  BY DEF AddDependencies, Consistent, GraphType
<1>2. /\ \A t \in Task : t \in h.ready <=>
             t \in g.ready /\ \A d \in Task \ {t} : <<t, d>> \notin E
      /\ h.ready \subseteq g.ready
      /\ h.tasks = g.tasks
  BY DEF AddDependencies
<1>3. g.ready \subseteq Task /\ g.tasks \subseteq Task
  BY DEF Consistent, GraphType
<1>4. \A t \in Task : h.dependencies[t] \subseteq Task /\ g.dependencies[t] \subseteq Task
  BY DEF AddDependencies, Consistent, GraphType
<1> HIDE DEF h
<1>5. ReadyIsFree(h)
  <2>1. ASSUME NEW t \in h.ready PROVE t \in h.tasks /\ h.dependencies[t] = {}
    <3>1. t \in Task /\ t \in g.tasks /\ g.dependencies[t] = {}
      BY <1>2, <1>3, <2>1 DEF Tight, ReadyIsFree
    <3> QED
      BY <1>1, <1>2, <1>4, <2>1, <3>1
  <2> QED
    BY <2>1 DEF ReadyIsFree
<1>6. \A t \in W : t \notin h.ready /\ h.dependencies[t] = {}
  BY <1>1, <1>2, <1>4 DEF Tight
<1>7. Free(h) \subseteq h.ready \cup W
  <2>1. ASSUME NEW t \in h.tasks, h.dependencies[t] = {} PROVE t \in h.ready \cup W
    <3>1. t \in Task /\ t \in g.tasks
      BY <1>2, <1>3
    <3>2. g.dependencies[t] = {} /\ \A d \in Task \ {t} : <<t, d>> \notin E
      BY <1>1, <1>4, <2>1, <3>1
    <3> QED
      BY <1>2, <3>1, <3>2 DEF Tight, Free
  <2> QED
    BY <2>1 DEF Free
<1> QED
  BY <1>1, <1>5, <1>6, <1>7 DEF Tight, h

(* remove_dependency makes ready just what waits for nothing any more. *)
LEMMA ReleaseFromTight ==
    ASSUME NEW g, Consistent(g), NEW W \in SUBSET Task, Tight(g, W),
           NEW dst \in Task, NEW S \in SUBSET g.tasks, S \cap W = {}
    PROVE  /\ Tight(ReleaseFrom(g, dst, S), W)
           /\ \A t \in Task : ReleaseFrom(g, dst, S).dependencies[t] =
                  IF t \in S THEN g.dependencies[t] \ {dst} ELSE g.dependencies[t]
<1> DEFINE h == ReleaseFrom(g, dst, S)
<1>1. \A t \in Task : h.dependencies[t] =
          IF t \in S THEN g.dependencies[t] \ {dst} ELSE g.dependencies[t]
  BY DEF ReleaseFrom
<1>2. /\ \A t \in Task : t \in h.ready <=>
             t \in g.ready \/ (t \in S /\ g.dependencies[t] \subseteq {dst})
      /\ h.ready \subseteq g.ready \cup S
      /\ h.tasks = g.tasks
  BY DEF ReleaseFrom
<1>3. g.ready \subseteq Task /\ g.tasks \subseteq Task
  BY DEF Consistent, GraphType
<1> HIDE DEF h
<1>4. ReadyIsFree(h)
  BY <1>1, <1>2, <1>3 DEF Tight, ReadyIsFree
<1>5. \A t \in W : t \notin h.ready /\ h.dependencies[t] = {}
  BY <1>1, <1>2 DEF Tight
<1>6. Free(h) \subseteq h.ready \cup W
  BY <1>1, <1>2, <1>3 DEF Tight, Free
<1> QED
  BY <1>1, <1>4, <1>5, <1>6 DEF Tight, h

(* remove_task makes ready the dependents that wait for nothing any more:  *)
(* none of them was applied, so removing what was handled from W keeps the *)
(* promise.                                                                *)
LEMMA RemoveTasksTight ==
    ASSUME NEW g, Consistent(g), NEW W \in SUBSET Task, Tight(g, W),
           NEW R \in SUBSET Task, NEW V \in SUBSET W, W \subseteq V \cup R
    PROVE  /\ Tight(RemoveTasks(g, R), V)
           /\ \A t \in Task : RemoveTasks(g, R).dependencies[t] =
                  IF t \in R THEN {} ELSE g.dependencies[t] \ R
<1> DEFINE h == RemoveTasks(g, R)
           gone == R \cap g.tasks
           cut(t) == {x \in gone : t \in g.dependents[x]}
<1>0. g.ready \subseteq Task /\ g.tasks \subseteq Task
  BY DEF Consistent, GraphType
<1>1. \A t \in Task : g.dependencies[t] \subseteq g.tasks
  BY DEF Consistent, EdgesInside, GraphType
<1>2. \A t \in Task : t \notin g.tasks => g.dependencies[t] = {}
  BY DEF Consistent, EdgesInside, GraphType
<1>3. \A t \in Task : cut(t) = g.dependencies[t] \cap R
  BY <1>0, <1>1 DEF Consistent, Mirrored, GraphType
<1>4. \A t \in Task : h.dependencies[t] = IF t \in gone THEN {} ELSE g.dependencies[t] \ cut(t)
  BY DEF RemoveTasks
<1>5. h.tasks = g.tasks \ R
  BY DEF RemoveTasks
<1>6. h.ready = (g.ready \cup {t \in Task : /\ cut(t) # {}
                                            /\ g.dependencies[t] \subseteq cut(t)}) \ gone
  BY DEF RemoveTasks
<1> HIDE DEF h, cut
<1>7. \A t \in Task : h.dependencies[t] = IF t \in R THEN {} ELSE g.dependencies[t] \ R
  BY <1>2, <1>3, <1>4
<1>8. h.ready \subseteq Task
  BY <1>0, <1>6
<1>9. \A t \in Task : t \in h.ready <=>
         /\ t \in g.tasks \ R
         /\ t \in g.ready \/ (g.dependencies[t] # {} /\ g.dependencies[t] \subseteq R)
  <2>1. \A t \in Task : t \in h.ready <=>
           /\ t \in g.ready \/ (cut(t) # {} /\ g.dependencies[t] \subseteq cut(t))
           /\ t \notin gone
    BY <1>6
  <2> QED
    <3>1. \A t \in Task : t \in g.ready => t \in g.tasks
      BY DEF Tight, ReadyIsFree
    <3>2. \A t \in Task : cut(t) # {} /\ g.dependencies[t] \subseteq cut(t) <=>
             g.dependencies[t] # {} /\ g.dependencies[t] \subseteq R
      BY <1>3
    <3>3. \A t \in Task : t \in gone <=> t \in R /\ t \in g.tasks
      OBVIOUS
    <3> QED
      BY <1>2, <2>1, <3>1, <3>2, <3>3
<1>10. ReadyIsFree(h)
  BY <1>5, <1>7, <1>8, <1>9 DEF Tight, ReadyIsFree
<1>11. \A t \in V : t \notin h.ready /\ h.dependencies[t] = {}
  BY <1>7, <1>9 DEF Tight
<1>12. Free(h) \subseteq h.ready \cup V
  BY <1>0, <1>5, <1>7, <1>9 DEF Tight, Free
<1> QED
  BY <1>7, <1>10, <1>11, <1>12 DEF Tight, h

(* A task that the main loop pops goes from _ready to _waiting_for. *)
LEMMA PopTight ==
    ASSUME NEW g, Consistent(g), NEW W \in SUBSET Task, Tight(g, W), NEW t \in g.ready
    PROVE  Tight([g EXCEPT !.ready = @ \ {t}], W \cup {t})
BY DEF Consistent, GraphType, Tight, ReadyIsFree, Free

(* The retry arm gives the new task the edges of the old one and no        *)
(* others.                                                                 *)
LEMMA TakeOverTight ==
    ASSUME NEW g, Consistent(g), NEW W \in SUBSET Task, Tight(g, W),
           NEW old \in Task, NEW new \in Task, old # new,
           new \notin W, g.dependencies[new] = {}
    PROVE  /\ Tight(TakeOver(g, old, new), W)
           /\ \A t, d \in Task : d \in TakeOver(g, old, new).dependencies[t] <=>
                  \/ d \in g.dependencies[t]
                  \/ t = new /\ d # new /\ d \in g.dependencies[old]
                  \/ d = new /\ t # new /\ old \in g.dependencies[t]
<1> DEFINE a == AddTasks(g, {new})
           E == ({new} \X g.dependencies[old]) \cup (g.dependents[old] \X {new})
<1>1. /\ Consistent(a)
      /\ a.tasks = g.tasks \cup {new}
      /\ a.dependencies = g.dependencies
      /\ Tight(a, W)
  BY AddTasksConsistent, AddTasksTight
<1>2. \A s \in Task : s \in g.dependents[old] <=> old \in g.dependencies[s]
  BY DEF Consistent, Mirrored, GraphType
<1>3. /\ g.dependencies[old] \subseteq g.tasks /\ g.dependents[old] \subseteq g.tasks
      /\ g.tasks \subseteq Task
  BY DEF Consistent, EdgesInside, Mirrored, GraphType
<1>4. E \in SUBSET (a.tasks \X a.tasks)
  BY <1>1, <1>3
<1>5. \A t, d \in Task : <<t, d>> \in E <=> \/ t = new /\ d \in g.dependencies[old]
                                            \/ d = new /\ old \in g.dependencies[t]
  <2>1. \A t, d \in Task : <<t, d>> \in E <=> \/ t = new /\ d \in g.dependencies[old]
                                              \/ t \in g.dependents[old] /\ d = new
    <3> TAKE t, d \in Task
    <3>1. <<t, d>> \in {new} \X g.dependencies[old] <=> t = new /\ d \in g.dependencies[old]
      OBVIOUS
    <3>2. <<t, d>> \in g.dependents[old] \X {new} <=> t \in g.dependents[old] /\ d = new
      OBVIOUS
    <3> QED
      BY <3>1, <3>2
  <2> QED
    BY <1>2, <2>1
<1> HIDE DEF a, E
<1>6. \A t \in W : \A d \in Task : <<t, d>> \notin E
  BY <1>5 DEF Tight
<1>7. /\ Tight(AddDependencies(a, E), W)
      /\ \A t, d \in Task : d \in AddDependencies(a, E).dependencies[t] <=>
             d \in a.dependencies[t] \/ (d # t /\ <<t, d>> \in E)
  BY <1>1, <1>4, <1>6, AddDependenciesTight
<1>8. TakeOver(g, old, new) = AddDependencies(a, E)
  BY DEF TakeOver, a, E
<1> QED
  <2>1. \A t, d \in Task : d \in TakeOver(g, old, new).dependencies[t] <=>
            d \in g.dependencies[t] \/ (d # t /\ <<t, d>> \in E)
    BY <1>1, <1>7, <1>8
  <2>2. \A t \in Task : t \notin g.dependencies[t]
    BY DEF Consistent, EdgesInside
  <2>3. Tight(TakeOver(g, old, new), W)
    BY <1>7, <1>8
  <2>4. ASSUME NEW t \in Task, NEW d \in Task
        PROVE  d \in TakeOver(g, old, new).dependencies[t] <=>
                  \/ d \in g.dependencies[t]
                  \/ t = new /\ d # new /\ d \in g.dependencies[old]
                  \/ d = new /\ t # new /\ old \in g.dependencies[t]
    BY <1>5, <2>1, <2>2
  <2> QED
    BY <2>3, <2>4

(* The retry arm as a whole: in h, new is where old is in g. *)
Replaced(g, h, old, new) ==
    /\ h.tasks = (g.tasks \cup {new}) \ {old}
    /\ \A u, d \in Task : d \in h.dependencies[u] <=>
           /\ u # old /\ d # old
           /\ d \in g.dependencies[u] \/ (d = new /\ old \in g.dependencies[u])

LEMMA RetryTight ==
    ASSUME NEW g, Consistent(g), NEW W \in SUBSET Task, Tight(g, W),
           NEW old \in Task, NEW new \in Task, old # new,
           new \notin W, g.dependencies[new] = {}, g.dependencies[old] = {},
           NEW R, \A x : x \in R <=> x = old,
           NEW V, \A x : x \in V <=> x \in W /\ x # old,
           NEW h, h = RemoveTasks(TakeOver(g, old, new), R)
    PROVE  Tight(h, V) /\ Consistent(h) /\ Replaced(g, h, old, new)
<1> DEFINE k == TakeOver(g, old, new)
<1>1. Consistent(k) /\ k.tasks = g.tasks \cup {new}
  BY TakeOverConsistent
<1>0. h = RemoveTasks(k, R)
  OBVIOUS
<1>2. /\ Tight(k, W)
      /\ \A u, d \in Task : d \in k.dependencies[u] <=>
             \/ d \in g.dependencies[u]
             \/ u = new /\ d # new /\ d \in g.dependencies[old]
             \/ d = new /\ u # new /\ old \in g.dependencies[u]
  BY TakeOverTight
<1> HIDE DEF k
<1>3. /\ V \in SUBSET W /\ W \subseteq V \cup R
      /\ R \in SUBSET Task
  OBVIOUS
<1>4. /\ Tight(h, V)
      /\ \A u \in Task : h.dependencies[u] = IF u \in R THEN {} ELSE k.dependencies[u] \ R
  <2>1. Consistent(k) /\ Tight(k, W) /\ W \in SUBSET Task
    BY <1>1, <1>2
  <2>2. /\ Tight(RemoveTasks(k, R), V)
        /\ \A u \in Task : RemoveTasks(k, R).dependencies[u] =
               IF u \in R THEN {} ELSE k.dependencies[u] \ R
    BY <1>3, <2>1, RemoveTasksTight
  <2> QED
    BY <1>0, <2>2
<1>5. h.tasks = (g.tasks \cup {new}) \ {old} /\ Consistent(h)
  BY <1>0, <1>1, <1>3, RemoveTasksConsistent
<1>8. ASSUME NEW u \in Task, NEW d \in Task
      PROVE  d \in h.dependencies[u] <=>
                /\ u # old /\ d # old
                /\ d \in g.dependencies[u] \/ (d = new /\ old \in g.dependencies[u])
  <2>1. d \in h.dependencies[u] <=> u # old /\ d # old /\ d \in k.dependencies[u]
    BY <1>4
  <2>2. d \in k.dependencies[u] <=>
            d \in g.dependencies[u] \/ (d = new /\ old \in g.dependencies[u])
    BY <1>2
  <2> QED
    BY <2>1, <2>2
<1> QED
  BY <1>4, <1>5, <1>8 DEF Replaced

(* The graph of a retry: it waits for nothing, as what it retries did. *)
LEMMA RetryGraph ==
    ASSUME NEW g, Consistent(g), NEW t \in Task, NEW d \in Task, d # t,
           d \notin g.tasks, g.dependencies[t] = {}
    PROVE  LET h == RemoveTasks(TakeOver(g, t, d), {t})
           IN  /\ \A u \in Task : u \notin {t, d} =>
                     /\ u \in h.tasks <=> u \in g.tasks
                     /\ u \in h.ready => u \in g.ready
                     /\ g.dependencies[u] = {} => h.dependencies[u] = {}
                     /\ g.dependencies[u] \ {t} \subseteq h.dependencies[u]
               /\ t \notin h.tasks /\ (t \in h.ready => t \notin g.tasks)
               /\ d \in h.tasks /\ h.dependencies[d] = {}
<1> DEFINE E == ({d} \X g.dependencies[t]) \cup (g.dependents[t] \X {d})
           a == AddTasks(g, {d})
           k == AddDependencies(a, E)
           h == RemoveTasks(k, {t})
<1>1. /\ Consistent(k) /\ k.tasks = g.tasks \cup {d}
  <2>1. Consistent(TakeOver(g, t, d)) /\ TakeOver(g, t, d).tasks = g.tasks \cup {d}
    BY TakeOverConsistent
  <2> QED
    BY <2>1 DEF TakeOver
<1>2. /\ a.tasks = g.tasks \cup {d} /\ a.ready = g.ready \cup {d}
      /\ a.dependencies = g.dependencies
      /\ g.dependencies \in [Task -> SUBSET Task] /\ g.dependents \in [Task -> SUBSET Task]
  BY DEF AddTasks, Consistent, GraphType
<1>3. /\ \A u \in Task : k.dependencies[u] = a.dependencies[u] \cup {x \in Task \ {u} : <<u, x>> \in E}
      /\ k.ready = a.ready \ {u \in Task : \E x \in Task \ {u} : <<u, x>> \in E}
  BY DEF AddDependencies
<1>4. \A u \in Task \ {d} : \A x : <<u, x>> \in E <=> x = d /\ u \in g.dependents[t]
  OBVIOUS
<1>5. \A x : <<d, x>> \in E <=> x = d /\ d \in g.dependents[t]
  OBVIOUS
<1>6. \A u \in Task : u \in g.dependents[t] <=> t \in g.dependencies[u]
  BY DEF Consistent, Mirrored
<1>7. g.dependencies[d] = {}
  BY DEF Consistent, EdgesInside, GraphType
<1> HIDE DEF a, E
<1>8. k.dependencies[d] = {}
  <2>1. {x \in Task \ {d} : <<d, x>> \in E} = {}
    BY <1>5
  <2> QED
    BY <1>2, <1>3, <1>7, <2>1
<1>9. ASSUME NEW u \in Task, u \notin {t, d}
      PROVE  k.dependencies[u] = IF t \in g.dependencies[u] THEN g.dependencies[u] \cup {d}
                                                            ELSE g.dependencies[u]
  <2>1. {x \in Task \ {u} : <<u, x>> \in E} = IF t \in g.dependencies[u] THEN {d} ELSE {}
    BY <1>4, <1>6, <1>9
  <2>2. k.dependencies[u] = g.dependencies[u] \cup {x \in Task \ {u} : <<u, x>> \in E}
    BY <1>2, <1>3
  <2>3. CASE t \in g.dependencies[u]
    BY <2>1, <2>2, <2>3
  <2>4. CASE t \notin g.dependencies[u]
    BY <2>1, <2>2, <2>4
  <2> QED
    BY <2>3, <2>4
<1>10. \A u \in Task : u \notin {t, d} => (u \in k.ready <=> u \in g.ready /\ t \notin g.dependencies[u])
  BY <1>2, <1>3, <1>4, <1>6
<1> HIDE DEF k
<1>11. /\ h.tasks = k.tasks \ {t}
       /\ \A u \in Task : u # t => h.dependencies[u] = k.dependencies[u] \ {x \in {t} \cap k.tasks : u \in k.dependents[x]}
       /\ h.ready = (k.ready \cup {u \in Task : /\ {x \in {t} \cap k.tasks : u \in k.dependents[x]} # {}
                                                /\ k.dependencies[u] \subseteq {x \in {t} \cap k.tasks : u \in k.dependents[x]}})
                    \ ({t} \cap k.tasks)
  BY DEF RemoveTasks
<1>12. \A u \in Task : {x \in {t} \cap k.tasks : u \in k.dependents[x]} = k.dependencies[u] \cap {t}
  BY <1>1 DEF Consistent, GraphType, Mirrored, EdgesInside
<1> HIDE DEF h
<1>13. \A u \in Task : /\ u # t => h.dependencies[u] = k.dependencies[u] \ {t}
                       /\ u \in h.ready => /\ u \notin {t} \cap k.tasks
                                           /\ u \in k.ready \/ (t \in k.dependencies[u] /\ k.dependencies[u] \subseteq {t})
  <2> SUFFICES ASSUME NEW u \in Task
               PROVE  /\ u # t => h.dependencies[u] = k.dependencies[u] \ {t}
                      /\ u \in h.ready =>
                            /\ u \notin {t} \cap k.tasks
                            /\ u \in k.ready \/ (t \in k.dependencies[u] /\ k.dependencies[u] \subseteq {t})
    OBVIOUS
  <2> DEFINE cut == {x \in {t} \cap k.tasks : u \in k.dependents[x]}
  <2>1. /\ u # t => h.dependencies[u] = k.dependencies[u] \ cut
        /\ u \in h.ready => /\ u \notin {t} \cap k.tasks
                            /\ u \in k.ready \/ (cut # {} /\ k.dependencies[u] \subseteq cut)
    BY <1>11
  <2>2. cut = k.dependencies[u] \cap {t}
    BY <1>12
  <2> HIDE DEF cut
  <2> QED
    BY <2>1, <2>2
<1>14. ASSUME NEW u \in Task, u \notin {t, d}
       PROVE  /\ u \in h.tasks <=> u \in g.tasks
              /\ u \in h.ready => u \in g.ready
              /\ g.dependencies[u] = {} => h.dependencies[u] = {}
              /\ g.dependencies[u] \ {t} \subseteq h.dependencies[u]
  <2>1. u \in h.ready => u \in g.ready
    BY <1>9, <1>10, <1>13, <1>14
  <2>2. h.dependencies[u] = k.dependencies[u] \ {t}
    BY <1>13, <1>14
  <2>3. g.dependencies[u] = {} => h.dependencies[u] = {}
    BY <1>9, <1>14, <2>2
  <2>4. g.dependencies[u] \ {t} \subseteq h.dependencies[u]
    BY <1>9, <1>14, <2>2
  <2>5. u \in h.tasks <=> u \in g.tasks
    BY <1>1, <1>11, <1>14
  <2> QED
    BY <2>1, <2>3, <2>4, <2>5
<1>15. /\ t \notin h.tasks /\ (t \in h.ready => t \notin g.tasks)
       /\ d \in h.tasks /\ h.dependencies[d] = {}
  BY <1>1, <1>8, <1>11, <1>13
<1> QED
  BY <1>14, <1>15 DEF TakeOver, a, E, k, h

(* Ready tasks that are not in the graph: none is added. *)
Strays(g) == g.ready \ g.tasks

LEMMA StraysRemoved ==
    ASSUME NEW g, Consistent(g), NEW R \in SUBSET Task
    PROVE  Strays(RemoveTasks(g, R)) \subseteq Strays(g)
<1> SUFFICES ASSUME NEW t \in RemoveTasks(g, R).ready, t \notin RemoveTasks(g, R).tasks,
                    t \notin g.ready \/ t \in g.tasks
             PROVE  FALSE
  BY DEF Strays
<1> DEFINE gone == R \cap g.tasks
           cut  == {x \in gone : t \in g.dependents[x]}
<1>1. t \notin gone /\ (t \in g.ready \/ (t \in Task /\ cut # {}))
  BY DEF RemoveTasks
<1>2. t \notin g.tasks
  BY <1>1 DEF RemoveTasks
<1>3. PICK x \in gone : t \in g.dependents[x]
  BY <1>1, <1>2
<1> QED
  BY <1>1, <1>2, <1>3 DEF Consistent, GraphType, Mirrored, EdgesInside

-----------------------------------------------------------------------------
(* The graph as an author builds it *)

(* A removed task can only free others because both dicts know of an edge: *)
(* that is why NothingStranded needs the consistency of the edges.         *)
BuildingInv ==
    /\ Consistent(draft)
    /\ last \in [Sequence -> SUBSET Task]
    /\ NothingStranded
    /\ ReadyIsExact

(* Each primitive keeps every free task ready. *)
LEMMA AddTasksStrandsNothing ==
    ASSUME NEW g, Consistent(g), NEW T \in SUBSET Task, Free(g) \subseteq g.ready
    PROVE  /\ Free(AddTasks(g, T)) \subseteq AddTasks(g, T).ready
           /\ T \cap g.tasks = {} /\ g.ready = Free(g) =>
                  AddTasks(g, T).ready = Free(AddTasks(g, T))
<1>1. \A t \in T : t \notin g.tasks => g.dependencies[t] = {}
  BY DEF Consistent, GraphType, EdgesInside
<1>2. /\ AddTasks(g, T).tasks = g.tasks \cup T
      /\ AddTasks(g, T).ready = g.ready \cup T
      /\ AddTasks(g, T).dependencies = g.dependencies
  BY AddTasksConsistent
<1>3. Free(AddTasks(g, T)) \subseteq AddTasks(g, T).ready
  BY <1>2 DEF Free
<1>4. ASSUME T \cap g.tasks = {}, g.ready = Free(g)
      PROVE  AddTasks(g, T).ready = Free(AddTasks(g, T))
  <2>1. \A t \in T : g.dependencies[t] = {}
    BY <1>1, <1>4
  <2> QED
    BY <1>2, <1>4, <2>1 DEF Free
<1> QED
  BY <1>3, <1>4

LEMMA AddDependenciesStrandsNothing ==
    ASSUME NEW g, Consistent(g), NEW E \in SUBSET (g.tasks \X g.tasks),
           Free(g) \subseteq g.ready
    PROVE  /\ Free(AddDependencies(g, E)) \subseteq AddDependencies(g, E).ready
           /\ g.ready = Free(g) =>
                  AddDependencies(g, E).ready = Free(AddDependencies(g, E))
<1> DEFINE h == AddDependencies(g, E)
<1>1. g.tasks \subseteq Task
  BY DEF Consistent, GraphType
<1>2. /\ h.tasks = g.tasks
      /\ h.ready = g.ready \ {s \in Task : \E d \in Task \ {s} : <<s, d>> \in E}
      /\ \A t \in Task : h.dependencies[t] =
             g.dependencies[t] \cup {d \in Task \ {t} : <<t, d>> \in E}
  BY DEF AddDependencies
<1> HIDE DEF h
<1>3. \A t \in g.tasks : h.dependencies[t] = {} <=>
          g.dependencies[t] = {} /\ ~\E d \in Task \ {t} : <<t, d>> \in E
  BY <1>1, <1>2
<1>4. Free(h) = Free(g) \ {s \in Task : \E d \in Task \ {s} : <<s, d>> \in E}
  BY <1>1, <1>2, <1>3 DEF Free
<1> QED
  BY <1>2, <1>4 DEF h

LEMMA ReleaseFromStrandsNothing ==
    ASSUME NEW g, Consistent(g), NEW dst \in Task, NEW S \in SUBSET Task,
           Free(g) \subseteq g.ready
    PROVE  Free(ReleaseFrom(g, dst, S)) \subseteq ReleaseFrom(g, dst, S).ready
<1> DEFINE h == ReleaseFrom(g, dst, S)
<1>1. g.tasks \subseteq Task
  BY DEF Consistent, GraphType
<1>2. /\ h.tasks = g.tasks
      /\ h.ready = g.ready \cup {s \in S : g.dependencies[s] \subseteq {dst}}
      /\ \A t \in Task : h.dependencies[t] =
             IF t \in S THEN g.dependencies[t] \ {dst} ELSE g.dependencies[t]
  BY DEF ReleaseFrom
<1> HIDE DEF h
<1>3. ASSUME NEW t \in Free(h) PROVE t \in h.ready
  <2>1. t \in Task /\ t \in g.tasks /\ h.dependencies[t] = {}
    BY <1>1, <1>2 DEF Free
  <2>2. CASE t \in S
    BY <1>2, <2>1, <2>2
  <2>3. CASE t \notin S
    BY <1>2, <2>1, <2>3 DEF Free
  <2> QED
    BY <2>2, <2>3
<1> QED
  BY <1>3 DEF h

LEMMA RemoveTasksStrandsNothing ==
    ASSUME NEW g, Consistent(g), NEW R \in SUBSET Task, Free(g) \subseteq g.ready
    PROVE  Free(RemoveTasks(g, R)) \subseteq RemoveTasks(g, R).ready
<1> DEFINE h    == RemoveTasks(g, R)
           gone == R \cap g.tasks
           cut(t) == {x \in gone : t \in g.dependents[x]}
<1>1. g.tasks \subseteq Task
  BY DEF Consistent, GraphType
<1>2. /\ h.tasks = g.tasks \ gone
      /\ h.ready = (g.ready \cup {t \in Task : /\ cut(t) # {}
                                               /\ g.dependencies[t] \subseteq cut(t)}) \ gone
      /\ \A t \in Task : t \notin gone => h.dependencies[t] = g.dependencies[t] \ cut(t)
  BY DEF RemoveTasks
<1> HIDE DEF h, gone, cut
<1>3. ASSUME NEW t \in Free(h) PROVE t \in h.ready
  <2>1. t \in Task /\ t \in g.tasks /\ t \notin gone /\ g.dependencies[t] \subseteq cut(t)
    BY <1>1, <1>2 DEF Free
  <2>2. CASE cut(t) # {}
    BY <1>2, <2>1, <2>2
  <2>3. CASE cut(t) = {}
    BY <1>2, <2>1, <2>3 DEF Free
  <2> QED
    BY <2>2, <2>3
<1> QED
  BY <1>3 DEF h

LEMMA BuildingInit == AuthorInit => BuildingInv
  BY EmptyGraphConsistent
     DEF AuthorInit, BuildingInv, NothingStranded, ReadyIsExact, EmptyGraph, Free

(* One step per operation of the author. *)
LEMMA BuildingStep == BuildingInv /\ [AuthorNext]_authorVars => BuildingInv'
<1> SUFFICES ASSUME BuildingInv, [AuthorNext]_authorVars PROVE BuildingInv'
  OBVIOUS
<1>c. /\ Consistent(draft)
      /\ Free(draft) \subseteq draft.ready
      /\ last \in [Sequence -> SUBSET Task]
      /\ draft.tasks \subseteq Task
  BY DEF BuildingInv, NothingStranded, Consistent, GraphType
<1>1. ASSUME NEW t \in Task, AddTask(t) PROVE BuildingInv'
  <2>1. Consistent(AddTasks(draft, {t}))
    BY <1>c, AddTasksConsistent
  <2>2. /\ Free(AddTasks(draft, {t})) \subseteq AddTasks(draft, {t}).ready
        /\ draft.ready = Free(draft) =>
               AddTasks(draft, {t}).ready = Free(AddTasks(draft, {t}))
    <3>1. {t} \in SUBSET Task /\ {t} \cap draft.tasks = {}
      BY <1>1 DEF AddTask
    <3> QED
      BY <1>c, <3>1, AddTasksStrandsNothing
  <2> QED
    BY <1>1, <1>c, <2>1, <2>2
       DEF AddTask, BuildingInv, NothingStranded, ReadyIsExact
<1>2. ASSUME NEW t \in Task, AddTaskAgain(t) PROVE BuildingInv'
  <2>1. Consistent(AddTasks(draft, {t}))
    BY <1>c, AddTasksConsistent
  <2>2. Free(AddTasks(draft, {t})) \subseteq AddTasks(draft, {t}).ready
    BY <1>c, AddTasksStrandsNothing
  <2> QED
    BY <1>2, <1>c, <2>1, <2>2
       DEF AddTaskAgain, BuildingInv, NothingStranded, ReadyIsExact
<1>3. ASSUME NEW t \in Task, RemoveTask(t) PROVE BuildingInv'
  <2>1. Consistent(RemoveTasks(draft, {t}))
    BY <1>c, RemoveTasksConsistent
  <2>2. Free(RemoveTasks(draft, {t})) \subseteq RemoveTasks(draft, {t}).ready
    BY <1>c, RemoveTasksStrandsNothing
  <2> QED
    BY <1>3, <1>c, <2>1, <2>2
       DEF RemoveTask, BuildingInv, NothingStranded, ReadyIsExact
<1>4. ASSUME NEW s \in Task, NEW d \in Task, AddDependency(s, d) PROVE BuildingInv'
  <2>1. {<<s, d>>} \in SUBSET (draft.tasks \X draft.tasks)
    BY <1>4 DEF AddDependency
  <2>2. Consistent(AddDependencies(draft, {<<s, d>>}))
    BY <1>c, <2>1, AddDependenciesConsistent
  <2>3. /\ Free(AddDependencies(draft, {<<s, d>>})) \subseteq
               AddDependencies(draft, {<<s, d>>}).ready
        /\ draft.ready = Free(draft) =>
               AddDependencies(draft, {<<s, d>>}).ready =
               Free(AddDependencies(draft, {<<s, d>>}))
    BY <1>c, <2>1, AddDependenciesStrandsNothing
  <2> QED
    BY <1>4, <1>c, <2>2, <2>3
       DEF AddDependency, BuildingInv, NothingStranded, ReadyIsExact
<1>5. ASSUME NEW s \in Task, NEW d \in Task, RemoveDependency(s, d) PROVE BuildingInv'
  <2>1. Consistent(ReleaseFrom(draft, d, {s}))
    BY <1>c, ReleaseFromConsistent
  <2>2. Free(ReleaseFrom(draft, d, {s})) \subseteq ReleaseFrom(draft, d, {s}).ready
    BY <1>c, ReleaseFromStrandsNothing
  <2> QED
    BY <1>5, <1>c, <2>1, <2>2
       DEF RemoveDependency, BuildingInv, NothingStranded, ReadyIsExact
<1>6. ASSUME NEW q \in Sequence, NEW F \in SUBSET Task, SequenceAdd(q, F)
      PROVE  BuildingInv'
  <2> DEFINE a == AddTasks(draft, F)
             E == F \X last[q]
  <2>1. /\ Consistent(a)
        /\ a.tasks = draft.tasks \cup F
        /\ Free(a) \subseteq a.ready
        /\ draft.ready = Free(draft) => a.ready = Free(a)
    BY <1>c, <1>6, AddTasksConsistent, AddTasksStrandsNothing DEF SequenceAdd
  <2>2. E \in SUBSET (a.tasks \X a.tasks)
    BY <1>6, <2>1 DEF SequenceAdd
  <2>3. draft' = AddDependencies(a, E) /\ orderly' = orderly
    BY <1>6 DEF SequenceAdd
  <2> HIDE DEF a, E
  <2>4. Consistent(draft')
    BY <2>1, <2>2, <2>3, AddDependenciesConsistent
  <2>5. /\ Free(draft') \subseteq draft'.ready
        /\ a.ready = Free(a) => draft'.ready = Free(draft')
    BY <2>1, <2>2, <2>3, AddDependenciesStrandsNothing
  <2>6. last' \in [Sequence -> SUBSET Task]
    BY <1>6, <1>c DEF SequenceAdd
  <2> QED
    BY <2>1, <2>3, <2>4, <2>5, <2>6 DEF BuildingInv, NothingStranded, ReadyIsExact
<1>7. CASE UNCHANGED authorVars
  BY <1>7 DEF authorVars, BuildingInv, NothingStranded, ReadyIsExact
<1> QED
  BY <1>1, <1>2, <1>3, <1>4, <1>5, <1>6, <1>7 DEF AuthorNext

(* A task with nothing to wait for is ready after any sequence of calls.   *)
THEOREM NothingIsEverStranded == AuthorSpec => []NothingStranded
<1>1. BuildingInv => NothingStranded
  BY DEF BuildingInv
<1> QED
  BY <1>1, BuildingInit, BuildingStep, PTL DEF AuthorSpec

(* For orderly authors the ready tasks are exactly the free ones.          *)
THEOREM ReadyStaysExact == AuthorSpec => []ReadyIsExact
<1>1. BuildingInv => ReadyIsExact
  BY DEF BuildingInv
<1> QED
  BY <1>1, BuildingInit, BuildingStep, PTL DEF AuthorSpec

LEMMA AuthorTypeInit == AuthorInit => AuthorTypeOK
  BY EmptyGraphConsistent DEF AuthorInit, AuthorTypeOK, Consistent

LEMMA AuthorTypeStep ==
    ASSUME AuthorTypeOK, BuildingInv', [AuthorNext]_authorVars
    PROVE  AuthorTypeOK'
<1>1. draft' \in GraphType /\ last' \in [Sequence -> SUBSET Task]
  BY DEF BuildingInv, Consistent
<1>2. ASSUME NEW t \in Task, AddTask(t) \/ AddTaskAgain(t) \/ RemoveTask(t)
      PROVE  batches' = batches /\ orderly' \in BOOLEAN
  BY <1>2 DEF AddTask, AddTaskAgain, RemoveTask, AuthorTypeOK
<1>3. ASSUME NEW s \in Task, NEW d \in Task, AddDependency(s, d) \/ RemoveDependency(s, d)
      PROVE  batches' = batches /\ orderly' \in BOOLEAN
  BY <1>3 DEF AddDependency, RemoveDependency, AuthorTypeOK
<1>4. ASSUME NEW q \in Sequence, NEW F \in SUBSET Task, SequenceAdd(q, F)
      PROVE  batches' \in [Sequence -> Seq(SUBSET Task)] /\ orderly' \in BOOLEAN
  <2>1. Append(batches[q], F) \in Seq(SUBSET Task)
    BY DEF AuthorTypeOK
  <2>2. batches' = [batches EXCEPT ![q] = Append(batches[q], F)] /\ orderly' = orderly
    BY <1>4 DEF SequenceAdd
  <2> QED
    BY <2>1, <2>2 DEF AuthorTypeOK
<1>5. batches' \in [Sequence -> Seq(SUBSET Task)] /\ orderly' \in BOOLEAN
  BY <1>2, <1>3, <1>4 DEF AuthorNext, authorVars, AuthorTypeOK
<1> QED
  BY <1>1, <1>5 DEF AuthorTypeOK

(* The types of the state, and with them that the graph's sets and dicts   *)
(* keep to the author's tasks.                                             *)
THEOREM AuthorTypeCorrect == AuthorSpec => []AuthorTypeOK
  BY AuthorTypeInit, AuthorTypeStep, BuildingInit, BuildingStep, PTL DEF AuthorSpec

-----------------------------------------------------------------------------
(* What a task waits for *)

(* What a task waits for holds what it depends on and what that waits for, *)
(* and is within every closed set that does.                               *)
LEMMA WaitsForClosure ==
    ASSUME NEW g, g \in GraphType
    PROVE  /\ \A t \in Task : /\ WaitsFor(g)[t] \subseteq Task
                              /\ g.dependencies[t] \subseteq WaitsFor(g)[t]
           /\ \A t \in Task : \A d \in WaitsFor(g)[t] :
                  WaitsFor(g)[d] \subseteq WaitsFor(g)[t]
           /\ \A t \in Task : \A S \in SUBSET Task :
                  /\ g.dependencies[t] \subseteq S
                  /\ \A x \in S : g.dependencies[x] \subseteq S
                  => WaitsFor(g)[t] \subseteq S
<1>1. \A t, d \in Task : d \in WaitsFor(g)[t] <=>
          \A S \in ClosedSets(g) : g.dependencies[t] \subseteq S => d \in S
  BY DEF WaitsFor
<1>2. \A t \in Task : WaitsFor(g)[t] \subseteq Task
  BY DEF WaitsFor
<1>3. \A t \in Task : g.dependencies[t] \subseteq Task
  BY DEF GraphType
<1>4. \A t \in Task : g.dependencies[t] \subseteq WaitsFor(g)[t]
  BY <1>1, <1>3
<1>5. ASSUME NEW t \in Task, NEW d \in WaitsFor(g)[t], NEW e \in WaitsFor(g)[d]
      PROVE  e \in WaitsFor(g)[t]
  <2>1. d \in Task /\ e \in Task
    BY <1>2
  <2>2. ASSUME NEW S \in ClosedSets(g), g.dependencies[t] \subseteq S
        PROVE  e \in S
    <3>1. d \in S
      BY <1>1, <2>1, <2>2
    <3>2. g.dependencies[d] \subseteq S
      BY <3>1 DEF ClosedSets
    <3> QED
      BY <1>1, <2>1, <3>2
  <2> QED
    BY <1>1, <2>1, <2>2
<1>6. ASSUME NEW t \in Task, NEW S \in SUBSET Task,
             g.dependencies[t] \subseteq S, \A x \in S : g.dependencies[x] \subseteq S
      PROVE  WaitsFor(g)[t] \subseteq S
  <2>1. S \in ClosedSets(g)
    BY <1>6 DEF ClosedSets
  <2> QED
    BY <1>1, <1>2, <1>6, <2>1
<1> QED
  BY <1>2, <1>4, <1>5, <1>6

(* More edges, more to wait for. *)
LEMMA WaitsForGrows ==
    ASSUME NEW g, NEW h, g \in GraphType, h \in GraphType,
           \A t \in Task : g.dependencies[t] \subseteq h.dependencies[t]
    PROVE  \A t \in Task : WaitsFor(g)[t] \subseteq WaitsFor(h)[t]
<1> SUFFICES ASSUME NEW t \in Task
             PROVE  WaitsFor(g)[t] \subseteq WaitsFor(h)[t]
  OBVIOUS
<1> DEFINE S == WaitsFor(h)[t]
<1>1. S \in SUBSET Task /\ h.dependencies[t] \subseteq S
  BY WaitsForClosure
<1>2. \A x \in S : h.dependencies[x] \subseteq S
  BY <1>1, WaitsForClosure
<1>3. g.dependencies[t] \subseteq S /\ \A x \in S : g.dependencies[x] \subseteq S
  BY <1>1, <1>2
<1> HIDE DEF S
<1>4. WaitsFor(g)[t] \subseteq S
  BY <1>1, <1>3, WaitsForClosure
<1> QED
  BY <1>4 DEF S

(* A finite, nonempty set of tasks each of which depends on one of the set *)
(* has a task that waits for itself.                                       *)
LEMMA CycleInside ==
    ASSUME NEW g, g \in GraphType, NEW B \in SUBSET Task, B # {}, IsFiniteSet(B),
           \A t \in B : g.dependencies[t] \cap B # {}
    PROVE  \E t \in B : t \in WaitsFor(g)[t]
<1> DEFINE ahead(t) == WaitsFor(g)[t] \cap B
           below == OpToRel(<, Nat)
           T     == {Cardinality(ahead(t)) : t \in B}
<1>1. \A t \in B : IsFiniteSet(ahead(t)) /\ Cardinality(ahead(t)) \in Nat
  BY FS_Subset, FS_CardinalityType
<1>2. IsWellFoundedOn(below, Nat)
  BY NatLessThanWellFounded
<1>3. below = {p \in Nat \X Nat : p[1] < p[2]}
  BY DEF OpToRel
<1>4. T \subseteq Nat /\ T # {}
  BY <1>1
<1> HIDE DEF below, T
<1>5. PICK n \in T : \A m \in T : <<m, n>> \notin below
  BY <1>2, <1>4, WFMin
<1>6. PICK t \in B : n = Cardinality(ahead(t))
  BY DEF T
<1>7. PICK d \in B : d \in g.dependencies[t]
  OBVIOUS
<1>8. d \in WaitsFor(g)[t] /\ WaitsFor(g)[d] \subseteq WaitsFor(g)[t]
  BY <1>7, WaitsForClosure
<1>9. CASE d \in WaitsFor(g)[d]
  BY <1>9
<1>10. CASE d \notin WaitsFor(g)[d]
  <2>1. ahead(d) \subseteq ahead(t) /\ ahead(d) # ahead(t)
    BY <1>8, <1>10
  <2> HIDE DEF ahead
  <2>2. Cardinality(ahead(d)) < Cardinality(ahead(t))
    BY <1>1, <2>1, FS_Subset
  <2>3. Cardinality(ahead(d)) \in T
    BY DEF T
  <2>4. <<Cardinality(ahead(d)), n>> \in below
    BY <1>1, <1>3, <1>6, <2>2
  <2> QED
    BY <1>5, <2>3, <2>4
<1> QED
  BY <1>9, <1>10

-----------------------------------------------------------------------------
(* The rounds of linearize *)

\* Induction over the naturals, for a set: from well-foundedness.
LEMMA Induction ==
    ASSUME NEW S, 0 \in S, \A n \in Nat : n \in S => n + 1 \in S
    PROVE  \A n \in Nat : n \in S
<1> SUFFICES ASSUME NEW m \in Nat, m \notin S
             PROVE  FALSE
  OBVIOUS
<1> DEFINE below == OpToRel(<, Nat)
           T     == {n \in Nat : n \notin S}
<1>1. IsWellFoundedOn(below, Nat)
  BY NatLessThanWellFounded
<1>2. below = {p \in Nat \X Nat : p[1] < p[2]}
  BY DEF OpToRel
<1>3. T \subseteq Nat /\ T # {}
  OBVIOUS
<1> HIDE DEF below, T
<1>4. PICK x \in T : \A y \in T : <<y, x>> \notin below
  BY <1>1, <1>3, WFMin
<1>5. x \in Nat /\ x \notin S
  BY <1>4 DEF T
<1>6. x # 0 /\ x - 1 \in Nat
  BY <1>5
<1>7. <<x - 1, x>> \in below
  BY <1>2, <1>5, <1>6
<1>8. x - 1 \in S
  BY <1>4, <1>6, <1>7 DEF T
<1> QED
  BY <1>5, <1>6, <1>8

(* A function on 0 .. m can be defined by its first value and a step. *)
Iterates(f, X, a, F, m) ==
    /\ f \in [0 .. m -> X]
    /\ f[0] = a
    /\ \A k \in 0 .. m - 1 : f[k + 1] = F[f[k]]

LEMMA Recursion ==
    ASSUME NEW X, NEW a \in X, NEW F \in [X -> X], NEW m \in Nat
    PROVE  \E f : Iterates(f, X, a, F, m)
<1> DEFINE Good(n, g) == /\ g \in [0 .. n -> X] /\ g[0] = a
                         /\ \A k \in 0 .. n - 1 : g[k + 1] = F[g[k]]
           E == {n \in Nat : \E g : Good(n, g)}
<1>1. 0 \in E
  <2>1. Good(0, [k \in 0 .. 0 |-> a])
    OBVIOUS
  <2> QED
    BY <2>1
<1>2. ASSUME NEW n \in Nat, n \in E
      PROVE  n + 1 \in E
  <2>1. PICK g : Good(n, g)
    BY <1>2
  <2> DEFINE h == [k \in 0 .. n + 1 |-> IF k <= n THEN g[k] ELSE F[g[n]]]
  <2>2. h \in [0 .. n + 1 -> X] /\ h[0] = a
    BY <2>1
  <2>3. ASSUME NEW k \in 0 .. (n + 1) - 1
        PROVE  h[k + 1] = F[h[k]]
    <3>1. CASE k < n
      BY <2>1, <3>1
    <3>2. CASE k = n
      BY <2>1, <3>2
    <3> QED
      BY <3>1, <3>2
  <2> HIDE DEF h
  <2>4. Good(n + 1, h)
    BY <2>2, <2>3
  <2> QED
    BY <2>4
<1>3. \A n \in Nat : n \in E
  <2> HIDE DEF E
  <2> QED
    BY <1>1, <1>2, Induction
<1>4. \E f : Good(m, f)
  BY <1>3
<1> QED
  BY <1>4 DEF Iterates

(* One round of linearize, and the rounds it goes through. *)
Round(g, before) ==
    LET freed(t) == {d \in before.ready : t \in g.dependents[d]}
        left     == [t \in Task |-> before.left[t] \ freed(t)]
    IN  [left  |-> left,
         ready |-> {t \in Task : freed(t) # {} /\ left[t] = {}}]

RoundsOf(g, round) ==
    [n \in Rounds |-> IF n = 0 THEN [left |-> g.dependencies, ready |-> Free(g)]
                      ELSE Round(g, round[n - 1])]

RoundType == [left : [Task -> SUBSET Task], ready : SUBSET Task]

LEMMA RoundsExist ==
    ASSUME NEW g, Consistent(g)
    PROVE  \E round : round = RoundsOf(g, round)
<1>1. IsFiniteSet(Task) /\ Cardinality(Task) \in Nat
  BY BuildingAssumption, FS_CardinalityType
<1> DEFINE a == [left |-> g.dependencies, ready |-> Free(g)]
           F == [r \in RoundType |-> Round(g, r)]
           N == Cardinality(Task)
<1>2. a \in RoundType
  BY DEF Consistent, GraphType, Free, RoundType
<1>3. F \in [RoundType -> RoundType]
  <2> SUFFICES ASSUME NEW r \in RoundType
               PROVE  Round(g, r) \in RoundType
    OBVIOUS
  <2> QED
    BY DEF Round, RoundType
<1> HIDE DEF N
<1>4. PICK f : /\ f \in [0 .. N -> RoundType]
               /\ f[0] = a
               /\ \A k \in 0 .. N - 1 : f[k + 1] = F[f[k]]
  <2>1. N \in Nat
    BY <1>1 DEF N
  <2> HIDE DEF a, F
  <2>2. \E f : Iterates(f, RoundType, a, F, N)
    BY <1>2, <1>3, <2>1, Recursion
  <2> QED
    BY <2>2 DEF Iterates
<1>5. ASSUME NEW n \in Rounds
      PROVE  f[n] = IF n = 0 THEN a ELSE Round(g, f[n - 1])
  <2>1. n \in 0 .. N /\ N \in Nat
    BY <1>1 DEF Rounds, N
  <2>2. CASE n = 0
    BY <1>4, <2>2
  <2>3. CASE n # 0
    <3>1. n - 1 \in 0 .. N - 1 /\ (n - 1) + 1 = n /\ n - 1 \in 0 .. N
      BY <2>1, <2>3
    <3>2. f[(n - 1) + 1] = F[f[n - 1]]
      BY <1>4, <3>1
    <3>3. f[n - 1] \in RoundType
      BY <1>4, <3>1
    <3>4. F[f[n - 1]] = Round(g, f[n - 1])
      BY <3>3
    <3> QED
      BY <2>3, <3>1, <3>2, <3>4
  <2> QED
    BY <2>2, <2>3
<1>6. f = [n \in Rounds |-> f[n]]
  <2>1. Rounds = 0 .. N
    BY DEF Rounds, N
  <2> QED
    BY <1>4, <2>1
<1> QED
  BY <1>5, <1>6 DEF RoundsOf

(* What linearize has listed before round n. *)
Listed(g, n) == UNION {Linearize(g)[k] : k \in 0 .. n - 1}

LEMMA ListedStep ==
    ASSUME NEW g
    PROVE  /\ Listed(g, 0) = {}
           /\ \A n \in Nat : Listed(g, n + 1) = Listed(g, n) \cup Linearize(g)[n]
<1>1. Listed(g, 0) = {}
  BY DEF Listed
<1>2. ASSUME NEW n \in Nat
      PROVE  Listed(g, n + 1) = Listed(g, n) \cup Linearize(g)[n]
  <2>1. 0 .. (n + 1) - 1 = (0 .. n - 1) \cup {n}
    OBVIOUS
  <2> QED
    BY <2>1 DEF Listed
<1> QED
  BY <1>1, <1>2

(* What linearize lists first, and what it lists after a round: the tasks  *)
(* of which a dependency was listed in that round and none is left.        *)
LEMMA LinearizeRounds ==
    ASSUME NEW g, Consistent(g)
    PROVE  /\ \A n \in Rounds : Linearize(g)[n] \subseteq Task
           /\ Linearize(g)[0] = Free(g)
           /\ \A n \in Rounds \ {0} : \A t \in Task :
                 t \in Linearize(g)[n] <=>
                    /\ g.dependencies[t] \cap Linearize(g)[n - 1] # {}
                    /\ g.dependencies[t] \subseteq Listed(g, n)
<1> DEFINE the == CHOOSE round : round = RoundsOf(g, round)
<1>1. Linearize(g) = [n \in Rounds |-> the[n].ready]
  BY Zenon DEF Linearize, RoundsOf, Round
<1>2. \E round : round = RoundsOf(g, round)
  BY RoundsExist
<1>3. the = RoundsOf(g, the)
  BY <1>2, Zenon
<1> HIDE DEF the
<1> DEFINE left == [n \in Rounds |-> the[n].left]
           a == [left |-> g.dependencies, ready |-> Free(g)]
<1>4. \A n \in Rounds : the[n] = IF n = 0 THEN a ELSE Round(g, the[n - 1])
  <2> HIDE DEF a
  <2>1. RoundsOf(g, the) = [n \in Rounds |-> IF n = 0 THEN a ELSE Round(g, the[n - 1])]
    BY DEF RoundsOf, a
  <2> QED
    BY <1>3, <2>1
<1>5. 0 \in Rounds /\ \A n \in Rounds \ {0} : n - 1 \in Rounds
  <2>1. Cardinality(Task) \in Nat
    BY BuildingAssumption, FS_CardinalityType
  <2> QED
    BY <2>1 DEF Rounds
<1>6. the[0] = a
  BY <1>4, <1>5
<1>7. \A n \in Rounds \ {0} : the[n] = Round(g, the[n - 1])
  BY <1>4
<1>8. \A n \in Rounds : /\ Linearize(g)[n] = the[n].ready
                        /\ left[n] = the[n].left
  BY <1>1
<1>9. Linearize(g)[0] = Free(g) /\ left[0] = g.dependencies
  BY <1>5, <1>6, <1>8
<1> HIDE DEF left, a
<1>10. \A d, t \in Task : t \in g.dependents[d] <=> d \in g.dependencies[t]
  BY DEF Consistent, Mirrored, GraphType
<1>11. Free(g) \subseteq Task /\ \A t \in Task : g.dependencies[t] \subseteq Task
  BY DEF Consistent, GraphType, Free
<1>12. \A n \in Rounds \ {0} : Linearize(g)[n] \subseteq Task
  <2> SUFFICES ASSUME NEW n \in Rounds \ {0}
               PROVE  Linearize(g)[n] \subseteq Task
    OBVIOUS
  <2>1. Linearize(g)[n] = Round(g, the[n - 1]).ready
    BY <1>7, <1>8
  <2>2. Round(g, the[n - 1]).ready \subseteq Task
    BY DEF Round
  <2> QED
    BY <2>1, <2>2
<1>13. \A n \in Rounds : Linearize(g)[n] \subseteq Task
  BY <1>9, <1>11, <1>12
<1>14. ASSUME NEW n \in Rounds \ {0}, NEW t \in Task
       PROVE  /\ left[n][t] = left[n - 1][t]
                              \ {d \in Linearize(g)[n - 1] : t \in g.dependents[d]}
              /\ t \in Linearize(g)[n] <=>
                    /\ {d \in Linearize(g)[n - 1] : t \in g.dependents[d]} # {}
                    /\ left[n][t] = {}
  <2>1. /\ left[n] = [u \in Task |-> left[n - 1][u]
                              \ {d \in Linearize(g)[n - 1] : u \in g.dependents[d]}]
        /\ Linearize(g)[n] = {u \in Task :
                    /\ {d \in Linearize(g)[n - 1] : u \in g.dependents[d]} # {}
                    /\ left[n][u] = {}}
    <3>1. left[n] = Round(g, the[n - 1]).left /\ Linearize(g)[n] = Round(g, the[n - 1]).ready
      BY <1>7, <1>8
    <3>2. left[n - 1] = the[n - 1].left /\ Linearize(g)[n - 1] = the[n - 1].ready
      BY <1>5, <1>8
    <3>3. left[n] = [u \in Task |-> left[n - 1][u]
                              \ {d \in Linearize(g)[n - 1] : u \in g.dependents[d]}]
      BY <3>1, <3>2 DEF Round
    <3> QED
      BY <3>1, <3>2, <3>3 DEF Round
  <2> QED
    BY <2>1
<1>15. ASSUME NEW t \in Task
       PROVE  \A n \in Rounds : {d \in Linearize(g)[n] : t \in g.dependents[d]} =
                                g.dependencies[t] \cap Linearize(g)[n]
  BY <1>10, <1>11, <1>13
<1>16. ASSUME NEW n \in Rounds \ {0}, NEW t \in Task
       PROVE  /\ left[n][t] = left[n - 1][t]
                              \ (g.dependencies[t] \cap Linearize(g)[n - 1])
              /\ t \in Linearize(g)[n] <=>
                    /\ g.dependencies[t] \cap Linearize(g)[n - 1] # {}
                    /\ left[n][t] = {}
  <2>1. {d \in Linearize(g)[n - 1] : t \in g.dependents[d]} =
            g.dependencies[t] \cap Linearize(g)[n - 1]
    BY <1>5, <1>15
  <2> QED
    BY <1>14, <2>1
<1> DEFINE S == {n \in Nat : n \in Rounds =>
                     \A t \in Task : left[n][t] = g.dependencies[t] \ Listed(g, n)}
<1>17. 0 \in S
  BY <1>9, ListedStep
<1>18. ASSUME NEW n \in Nat, n \in S
       PROVE  n + 1 \in S
  <2> SUFFICES ASSUME n + 1 \in Rounds, NEW t \in Task
               PROVE  left[n + 1][t] = g.dependencies[t] \ Listed(g, n + 1)
    OBVIOUS
  <2>1. n + 1 \in Rounds \ {0} /\ (n + 1) - 1 = n /\ n \in Rounds
    BY <1>5
  <2>2. left[n + 1][t] = left[n][t] \ (g.dependencies[t] \cap Linearize(g)[n])
    BY <1>16, <2>1
  <2>3. left[n][t] = g.dependencies[t] \ Listed(g, n)
    BY <1>18, <2>1
  <2>4. Listed(g, n + 1) = Listed(g, n) \cup Linearize(g)[n]
    BY ListedStep
  <2> QED
    BY <2>2, <2>3, <2>4
<1>19. \A n \in Nat : n \in S
  <2> HIDE DEF S
  <2> QED
    BY <1>17, <1>18, Induction
<1>20. ASSUME NEW n \in Rounds \ {0}, NEW t \in Task
       PROVE  t \in Linearize(g)[n] <=>
                 /\ g.dependencies[t] \cap Linearize(g)[n - 1] # {}
                 /\ g.dependencies[t] \subseteq Listed(g, n)
  <2>1. n \in Nat
    BY DEF Rounds
  <2>2. left[n][t] = g.dependencies[t] \ Listed(g, n)
    BY <1>19, <2>1
  <2> QED
    BY <1>16, <2>2
<1> QED
  BY <1>9, <1>13, <1>20

(* The rounds are finitely many. *)
LEMMA RoundsAre ==
    /\ IsFiniteSet(Task)
    /\ Cardinality(Task) \in Nat
    /\ \A n \in Rounds : n \in Nat /\ \A k \in 0 .. n : k \in Rounds
<1>1. IsFiniteSet(Task) /\ Cardinality(Task) \in Nat
  BY BuildingAssumption, FS_CardinalityType
<1> QED
  BY <1>1 DEF Rounds

(* Every task is listed once, after all it depends on. *)
LEMMA ListedOnce ==
    ASSUME NEW g, Consistent(g)
    PROVE  \A n \in Rounds : \A t \in Linearize(g)[n] :
              /\ t \in g.tasks
              /\ g.dependencies[t] \subseteq Listed(g, n)
              /\ t \notin Listed(g, n)
<1>1. \A n \in Rounds : n \in Nat /\ (n # 0 => n - 1 \in Rounds)
  <2>1. Cardinality(Task) \in Nat
    BY BuildingAssumption, FS_CardinalityType
  <2> QED
    BY <2>1 DEF Rounds
<1>2. \A t \in Task : g.dependencies[t] # {} => t \in g.tasks
  BY DEF Consistent, EdgesInside
<1>3. ASSUME NEW n \in Rounds, NEW t \in Linearize(g)[n]
      PROVE  t \in Task /\ t \in g.tasks /\ g.dependencies[t] \subseteq Listed(g, n)
  <2>1. t \in Task
    BY LinearizeRounds
  <2>2. CASE n = 0
    BY <1>3, <2>1, <2>2, LinearizeRounds DEF Free
  <2>3. CASE n # 0
    <3>1. /\ g.dependencies[t] \cap Linearize(g)[n - 1] # {}
          /\ g.dependencies[t] \subseteq Listed(g, n)
      BY <1>3, <2>1, <2>3, LinearizeRounds
    <3> QED
      BY <1>2, <2>1, <3>1
  <2> QED
    BY <2>2, <2>3
<1> DEFINE S == {n \in Nat : n \in Rounds => Linearize(g)[n] \cap Listed(g, n) = {}}
<1>4. 0 \in S
  BY ListedStep
<1>5. ASSUME NEW n \in Nat, n \in S
      PROVE  n + 1 \in S
  <2> SUFFICES ASSUME n + 1 \in Rounds, NEW t \in Linearize(g)[n + 1],
                      t \in Listed(g, n + 1)
               PROVE  FALSE
    OBVIOUS
  <2>1. n + 1 \in Rounds \ {0} /\ (n + 1) - 1 = n /\ n \in Rounds
    BY <1>1
  <2>2. t \in Task
    BY <1>3
  <2>3. PICK d \in g.dependencies[t] : d \in Linearize(g)[n]
    BY <2>1, <2>2, LinearizeRounds
  <2>4. PICK k \in 0 .. n : t \in Linearize(g)[k]
    BY DEF Listed
  <2>5. k \in Rounds
    BY <2>1, RoundsAre
  <2>6. d \in Listed(g, k)
    BY <1>3, <2>3, <2>4, <2>5
  <2>7. PICK j \in 0 .. k - 1 : d \in Linearize(g)[j]
    BY <2>6 DEF Listed
  <2>8. j \in 0 .. n - 1
    BY <2>7
  <2>9. d \in Listed(g, n)
    BY <2>7, <2>8 DEF Listed
  <2> QED
    BY <1>5, <2>1, <2>3, <2>9
<1>6. \A n \in Nat : n \in S
  <2> HIDE DEF S
  <2> QED
    BY <1>4, <1>5, Induction
<1> QED
  BY <1>1, <1>3, <1>6

(* What a listed task waits for, even through others, is listed before it. *)
LEMMA ListedInOrder ==
    ASSUME NEW g, Consistent(g), NEW m \in Rounds, NEW n \in Rounds,
           NEW t \in Linearize(g)[m], NEW d \in Linearize(g)[n]
    PROVE  /\ t = d => m = n
           /\ d \in WaitsFor(g)[t] => n < m
<1>1. m \in Nat /\ n \in Nat /\ t \in Task /\ d \in Task
  BY LinearizeRounds DEF Rounds
<1>2. ASSUME NEW i \in Rounds, NEW j \in Rounds, NEW x \in Linearize(g)[i],
             x \in Linearize(g)[j], i < j
      PROVE  FALSE
  <2>1. i \in 0 .. j - 1
    BY <1>2 DEF Rounds
  <2>2. x \in Listed(g, j)
    BY <1>2, <2>1 DEF Listed
  <2> QED
    BY <1>2, <2>2, ListedOnce
<1>3. \A i, j \in Rounds : \A x \in Linearize(g)[i] :
          x \in Linearize(g)[j] => i = j
  <2> SUFFICES ASSUME NEW i \in Rounds, NEW j \in Rounds, NEW x \in Linearize(g)[i],
                      x \in Linearize(g)[j], i # j
               PROVE  FALSE
    OBVIOUS
  <2>1. i < j \/ j < i
    BY DEF Rounds
  <2> QED
    BY <1>2, <2>1
<1>4. ASSUME d \in WaitsFor(g)[t]
      PROVE  n < m
  <2> DEFINE S == Listed(g, m)
  <2>1. S \subseteq Task
    <3>1. \A k \in 0 .. m - 1 : k \in 0 .. m
      BY <1>1
    <3>2. \A k \in 0 .. m - 1 : k \in Rounds
      BY <3>1, RoundsAre
    <3> QED
      BY <3>2, LinearizeRounds DEF Listed
  <2>2. ASSUME NEW x \in S
        PROVE  g.dependencies[x] \subseteq S
    <3>1. PICK k \in 0 .. m - 1 : x \in Linearize(g)[k]
      BY DEF Listed
    <3>2. k \in 0 .. m /\ 0 .. k - 1 \subseteq 0 .. m - 1
      BY <1>1
    <3>5. k \in Rounds
      BY <3>2, RoundsAre
    <3>3. g.dependencies[x] \subseteq Listed(g, k)
      BY <3>1, <3>5, ListedOnce
    <3>4. Listed(g, k) \subseteq Listed(g, m)
      BY <3>2 DEF Listed
    <3> QED
      BY <3>3, <3>4
  <2>3. g.dependencies[t] \subseteq S
    BY ListedOnce
  <2>4. g \in GraphType
    BY DEF Consistent
  <2> HIDE DEF S
  <2>5. WaitsFor(g)[t] \subseteq S
    BY <1>1, <2>1, <2>2, <2>3, <2>4, WaitsForClosure
  <2>6. PICK k \in 0 .. m - 1 : d \in Linearize(g)[k]
    BY <1>4, <2>5 DEF S, Listed
  <2>7. k \in Rounds
    BY <1>1, RoundsAre
  <2>8. k = n
    BY <1>3, <2>6, <2>7
  <2> QED
    BY <1>1, <2>6, <2>8
<1> QED
  BY <1>3, <1>4

(* There are rounds enough: each that lists anything comes after others    *)
(* that do, and lists other tasks.                                         *)
LEMMA RoundsEnough ==
    ASSUME NEW g, Consistent(g)
    PROVE  Linearize(g)[Cardinality(Task)] = {}
<1> DEFINE N == Cardinality(Task)
<1>1. N \in Nat /\ IsFiniteSet(Task) /\ Rounds = 0 .. N
  BY RoundsAre DEF Rounds
<1>2. \A n \in 0 .. N + 1 : Listed(g, n) \subseteq Task
  <2> SUFFICES ASSUME NEW n \in 0 .. N + 1
               PROVE  Listed(g, n) \subseteq Task
    OBVIOUS
  <2> HIDE DEF N
  <2>1. \A k \in 0 .. n - 1 : k \in Rounds
    BY <1>1
  <2> QED
    BY <2>1, LinearizeRounds DEF Listed
<1> HIDE DEF N
<1>3. ASSUME NEW n \in 0 .. N + 1
      PROVE  /\ IsFiniteSet(Listed(g, n))
             /\ Cardinality(Listed(g, n)) \in Nat
             /\ Cardinality(Listed(g, n)) <= N
  BY <1>1, <1>2, FS_Subset, FS_CardinalityType DEF N
<1> DEFINE S == {n \in Nat : n \in Rounds /\ Linearize(g)[n] # {} =>
                             n + 1 <= Cardinality(Listed(g, n + 1))}
<1>4. ASSUME NEW n \in Rounds, Linearize(g)[n] # {}
      PROVE  Cardinality(Listed(g, n)) < Cardinality(Listed(g, n + 1))
  <2>1. n \in Nat /\ n + 1 \in 0 .. N + 1
    BY <1>1
  <2>2. Listed(g, n + 1) = Listed(g, n) \cup Linearize(g)[n]
    BY <2>1, ListedStep
  <2>3. Linearize(g)[n] \cap Listed(g, n) = {}
    BY ListedOnce
  <2>4. Listed(g, n) \subseteq Listed(g, n + 1) /\ Listed(g, n) # Listed(g, n + 1)
    BY <1>4, <2>2, <2>3
  <2>5. IsFiniteSet(Listed(g, n + 1))
    BY <1>3, <2>1
  <2>6. /\ Cardinality(Listed(g, n)) <= Cardinality(Listed(g, n + 1))
        /\ Cardinality(Listed(g, n)) # Cardinality(Listed(g, n + 1))
    BY <2>4, <2>5, FS_Subset
  <2>7. n \in 0 .. N + 1
    BY <1>1
  <2>8. /\ Cardinality(Listed(g, n)) \in Nat
        /\ Cardinality(Listed(g, n + 1)) \in Nat
    BY <1>3, <2>1, <2>7
  <2> QED
    BY <2>6, <2>8
<1>5. 0 \in S
  <2> SUFFICES ASSUME Linearize(g)[0] # {}
               PROVE  1 <= Cardinality(Listed(g, 1))
    OBVIOUS
  <2>1. 0 \in Rounds /\ 0 \in 0 .. N + 1 /\ 1 \in 0 .. N + 1 /\ 0 + 1 = 1
    BY <1>1
  <2>2. Cardinality(Listed(g, 0)) < Cardinality(Listed(g, 1))
    BY <1>4, <2>1
  <2>3. Cardinality(Listed(g, 0)) \in Nat /\ Cardinality(Listed(g, 1)) \in Nat
    BY <1>3, <2>1
  <2> QED
    BY <2>2, <2>3
<1>6. ASSUME NEW n \in Nat, n \in S
      PROVE  n + 1 \in S
  <2> SUFFICES ASSUME n + 1 \in Rounds, Linearize(g)[n + 1] # {}
               PROVE  (n + 1) + 1 <= Cardinality(Listed(g, (n + 1) + 1))
    OBVIOUS
  <2>1. /\ n \in Rounds /\ n + 1 \in Rounds \ {0} /\ (n + 1) - 1 = n
        /\ n + 1 \in 0 .. N + 1 /\ (n + 1) + 1 \in 0 .. N + 1
    BY <1>1
  <2>2. Linearize(g)[n] # {}
    <3>1. PICK t \in Linearize(g)[n + 1] : TRUE
      OBVIOUS
    <3>2. t \in Task
      BY LinearizeRounds
    <3> QED
      BY <2>1, <3>1, <3>2, LinearizeRounds
  <2>3. n + 1 <= Cardinality(Listed(g, n + 1))
    BY <1>6, <2>1, <2>2
  <2>4. Cardinality(Listed(g, n + 1)) < Cardinality(Listed(g, (n + 1) + 1))
    BY <1>4
  <2>5. /\ Cardinality(Listed(g, n + 1)) \in Nat
        /\ Cardinality(Listed(g, (n + 1) + 1)) \in Nat
    BY <1>3, <2>1
  <2> QED
    BY <2>3, <2>4, <2>5
<1>7. N \in S
  <2> HIDE DEF S
  <2>1. \A n \in Nat : n \in S
    BY <1>5, <1>6, Induction
  <2> QED
    BY <1>1, <2>1
<1>8. N \in Rounds /\ N + 1 \in 0 .. N + 1
  BY <1>1
<1>9. ~(N + 1 <= Cardinality(Listed(g, N + 1)))
  BY <1>1, <1>3, <1>8
<1> QED
  BY <1>7, <1>8, <1>9 DEF N

(* Just the tasks that are not on a cycle, nor wait for one, are listed.   *)
LEMMA ListedExactly ==
    ASSUME NEW g, Consistent(g)
    PROVE  UNION {Linearize(g)[n] : n \in Rounds} =
               {t \in g.tasks : \A u \in Task :
                    u = t \/ u \in WaitsFor(g)[t] => u \notin WaitsFor(g)[u]}
<1> DEFINE N   == Cardinality(Task)
           All == UNION {Linearize(g)[n] : n \in Rounds}
           W   == WaitsFor(g)
<1>1. N \in Nat /\ IsFiniteSet(Task) /\ Rounds = 0 .. N
  BY RoundsAre DEF Rounds
<1>2. g \in GraphType /\ g.tasks \subseteq Task /\ \A t \in Task : g.dependencies[t] \subseteq g.tasks
  BY DEF Consistent, GraphType, EdgesInside
<1>3. All \subseteq Task /\ All \subseteq g.tasks
  BY <1>2, ListedOnce
<1>4. ASSUME NEW t \in All
      PROVE  g.dependencies[t] \subseteq All
  <2>1. PICK n \in Rounds : t \in Linearize(g)[n]
    OBVIOUS
  <2>2. 0 .. n - 1 \subseteq Rounds
    BY <1>1
  <2>3. Listed(g, n) \subseteq All
    BY <2>2 DEF Listed
  <2> QED
    BY <2>1, <2>3, ListedOnce
<1>5. ASSUME NEW t \in Task, t \in W[t]
      PROVE  t \notin All
  <2> SUFFICES ASSUME NEW n \in Rounds, t \in Linearize(g)[n]
               PROVE  FALSE
    OBVIOUS
  <2>1. n < n
    BY <1>5, ListedInOrder
  <2> QED
    BY <1>1, <2>1
<1>6. ASSUME NEW t \in All, NEW u \in Task, u = t \/ u \in W[t]
      PROVE  u \notin W[u]
  <2>1. W[t] \subseteq All
    <3> HIDE DEF All
    <3> QED
      BY <1>2, <1>3, <1>4, WaitsForClosure
  <2>2. u \in All
    BY <1>6, <2>1
  <2> HIDE DEF All, W
  <2> QED
    BY <1>5, <2>2
<1>7. ASSUME NEW t \in g.tasks, g.dependencies[t] \subseteq All
      PROVE  t \in All
  <2>0. t \in Task
    BY <1>2
  <2>1. CASE g.dependencies[t] = {}
    <3>1. t \in Linearize(g)[0] /\ 0 \in Rounds
      BY <1>1, <2>1, LinearizeRounds DEF Free
    <3> QED
      BY <3>1
  <2>2. CASE g.dependencies[t] # {}
    <3> DEFINE S == {n \in Nat : n \in Rounds /\ t \notin All =>
                                 ~(g.dependencies[t] \subseteq Listed(g, n))}
    <3>1. 0 \in S
      BY <2>2, ListedStep
    <3>2. ASSUME NEW n \in Nat, n \in S
          PROVE  n + 1 \in S
      <4> SUFFICES ASSUME n + 1 \in Rounds, t \notin All,
                          g.dependencies[t] \subseteq Listed(g, n + 1)
                   PROVE  FALSE
        OBVIOUS
      <4>1. n \in Rounds /\ n + 1 \in Rounds \ {0} /\ (n + 1) - 1 = n
        BY <1>1
      <4>2. ~(g.dependencies[t] \subseteq Listed(g, n))
        BY <3>2, <4>1
      <4>3. g.dependencies[t] \cap Linearize(g)[n] # {}
        BY <4>2, ListedStep
      <4>4. t \in Linearize(g)[n + 1]
        BY <2>0, <4>1, <4>3, LinearizeRounds
      <4> QED
        BY <4>1, <4>4
    <3>3. N \in S
      <4> HIDE DEF S
      <4>1. \A n \in Nat : n \in S
        BY <3>1, <3>2, Induction
      <4> QED
        BY <1>1, <4>1
    <3>4. All \subseteq Listed(g, N)
      <4>1. ASSUME NEW n \in Rounds, NEW x \in Linearize(g)[n]
            PROVE  x \in Listed(g, N)
        <5>1. n # N
          BY <4>1, RoundsEnough
        <5>2. n \in 0 .. N - 1
          BY <1>1, <5>1
        <5> QED
          BY <4>1, <5>2 DEF Listed
      <4> QED
        BY <4>1
    <3>5. N \in Rounds
      BY <1>1
    <3> HIDE DEF All, N
    <3> QED
      BY <1>7, <3>3, <3>4, <3>5
  <2> QED
    BY <2>1, <2>2
<1>8. ASSUME NEW t \in g.tasks, t \notin All,
             \A u \in Task : u = t \/ u \in W[t] => u \notin W[u]
      PROVE  FALSE
  <2> DEFINE B == {x \in g.tasks : (x = t \/ x \in W[t]) /\ x \notin All}
  <2>1. B \in SUBSET Task /\ t \in B
    BY <1>2, <1>8
  <2>2. IsFiniteSet(B)
    BY <1>1, <2>1, FS_Subset
  <2>3. ASSUME NEW x \in B
        PROVE  g.dependencies[x] \cap B # {}
    <3>1. PICK d \in g.dependencies[x] : d \notin All
      BY <1>7
    <3>2. d \in W[x] /\ d \in g.tasks
      BY <1>2, <2>1, WaitsForClosure
    <3>3. d \in W[t]
      BY <1>2, <2>1, <3>2, WaitsForClosure
    <3> QED
      BY <3>1, <3>2, <3>3
  <2> HIDE DEF B
  <2>4. PICK u \in B : u \in W[u]
    BY <1>2, <2>1, <2>2, <2>3, CycleInside
  <2> QED
    BY <1>8, <2>1, <2>4 DEF B
<1> HIDE DEF All, W
<1>9. All = {t \in g.tasks : \A u \in Task : u = t \/ u \in W[t] => u \notin W[u]}
  BY <1>3, <1>6, <1>8
<1> QED
  BY <1>9 DEF All, W

-----------------------------------------------------------------------------
(* The sequences of an author *)

(* A sequence is in the graph while nothing was removed from it, its end   *)
(* is what the last forkjoin that was not empty left, and what was added   *)
(* before it is the end or is waited for by the end.                       *)
SequencesKept ==
    orderly => \A q \in Sequence :
        /\ last[q] \subseteq draft.tasks
        /\ \A i \in DOMAIN batches[q] : \A d \in batches[q][i] :
              /\ d \in draft.tasks
              /\ last[q] # {}
              /\ d \notin last[q] =>
                    \A l \in last[q] : d \in WaitsFor(draft)[l]
        /\ \A i, j \in DOMAIN batches[q] : i < j =>
              \A s \in batches[q][j], d \in batches[q][i] : d \in WaitsFor(draft)[s]

AuthorInv == BuildingInv /\ AuthorTypeOK /\ SequencesKept

(* The end of a sequence, as long as it keeps what waits for what. *)
LEMMA SequencesStay ==
    ASSUME AuthorInv, draft' \in GraphType,
           orderly' => orderly,
           orderly => /\ draft.tasks \subseteq draft'.tasks
                      /\ \A t \in Task : draft.dependencies[t] \subseteq draft'.dependencies[t],
           last' = last, batches' = batches
    PROVE  SequencesKept'
<1> SUFFICES ASSUME orderly'
             PROVE  \A q \in Sequence :
        /\ last[q] \subseteq draft'.tasks
        /\ \A i \in DOMAIN batches[q] : \A d \in batches[q][i] :
              /\ d \in draft'.tasks
              /\ last[q] # {}
              /\ d \notin last[q] =>
                    \A l \in last[q] : d \in WaitsFor(draft')[l]
        /\ \A i, j \in DOMAIN batches[q] : i < j =>
              \A s \in batches[q][j], d \in batches[q][i] : d \in WaitsFor(draft')[s]
  BY DEF SequencesKept
<1>1. draft \in GraphType /\ draft.tasks \subseteq Task
  BY DEF AuthorInv, AuthorTypeOK, GraphType
<1>2. \A t \in Task : WaitsFor(draft)[t] \subseteq WaitsFor(draft')[t]
  BY <1>1, WaitsForGrows
<1>3. orderly /\ draft.tasks \subseteq draft'.tasks
  OBVIOUS
<1> TAKE q \in Sequence
<1>4. /\ last[q] \subseteq draft.tasks
      /\ \A i \in DOMAIN batches[q] : \A d \in batches[q][i] :
            /\ d \in draft.tasks
            /\ last[q] # {}
            /\ d \notin last[q] => \A l \in last[q] : d \in WaitsFor(draft)[l]
      /\ \A i, j \in DOMAIN batches[q] : i < j =>
            \A s \in batches[q][j], d \in batches[q][i] : d \in WaitsFor(draft)[s]
  BY <1>3 DEF AuthorInv, SequencesKept
<1>5. \A i \in DOMAIN batches[q] : batches[q][i] \subseteq Task
  BY <1>1, <1>4
<1>6. \A i \in DOMAIN batches[q] : \A d \in batches[q][i] :
            d \notin last[q] => \A l \in last[q] : d \in WaitsFor(draft')[l]
  BY <1>1, <1>2, <1>4
<1>7. \A i, j \in DOMAIN batches[q] : i < j =>
            \A s \in batches[q][j], d \in batches[q][i] : d \in WaitsFor(draft')[s]
  BY <1>2, <1>4, <1>5
<1> QED
  BY <1>3, <1>4, <1>6, <1>7

(* One call of add makes the new tasks wait for the end. *)
LEMMA SequencesGrow ==
    ASSUME AuthorInv, NEW p \in Sequence, NEW F \in SUBSET Task, SequenceAdd(p, F),
           BuildingInv'
    PROVE  SequencesKept'
<1>1. /\ draft \in GraphType /\ draft' \in GraphType
      /\ draft.tasks \subseteq Task
      /\ last \in [Sequence -> SUBSET Task]
      /\ batches \in [Sequence -> Seq(SUBSET Task)]
      /\ Consistent(draft)
  BY DEF AuthorInv, AuthorTypeOK, BuildingInv, Consistent, GraphType
<1>2. /\ F \cap draft.tasks = {}
      /\ last[p] \subseteq draft.tasks
      /\ draft' = AddDependencies(AddTasks(draft, F), F \X last[p])
      /\ last' = [last EXCEPT ![p] = IF F = {} THEN @ ELSE F]
      /\ batches' = [batches EXCEPT ![p] = Append(@, F)]
      /\ orderly' = orderly
  BY DEF SequenceAdd
<1> SUFFICES ASSUME orderly, NEW q \in Sequence
             PROVE
        /\ last'[q] \subseteq draft'.tasks
        /\ \A i \in DOMAIN batches'[q] : \A d \in batches'[q][i] :
              /\ d \in draft'.tasks
              /\ last'[q] # {}
              /\ d \notin last'[q] =>
                    \A l \in last'[q] : d \in WaitsFor(draft')[l]
        /\ \A i, j \in DOMAIN batches'[q] : i < j =>
              \A s \in batches'[q][j], d \in batches'[q][i] : d \in WaitsFor(draft')[s]
  BY <1>2 DEF SequencesKept
<1>3. /\ draft'.tasks = draft.tasks \cup F
      /\ \A t \in Task : draft.dependencies[t] \subseteq draft'.dependencies[t]
      /\ \A s \in F : last[p] \subseteq draft'.dependencies[s]
  <2>1. /\ AddTasks(draft, F).tasks = draft.tasks \cup F
        /\ AddTasks(draft, F).dependencies = draft.dependencies
    BY <1>1, AddTasksConsistent
  <2>2. /\ draft'.tasks = draft.tasks \cup F
        /\ \A t \in Task : draft'.dependencies[t] =
              draft.dependencies[t] \cup {d \in Task \ {t} : <<t, d>> \in F \X last[p]}
    BY <1>2, <2>1 DEF AddDependencies
  <2>3. last[p] \subseteq Task /\ F \cap last[p] = {}
    BY <1>1, <1>2
  <2>4. \A s \in F : last[p] \subseteq draft'.dependencies[s]
    BY <2>2, <2>3
  <2> QED
    BY <2>2, <2>4
<1>4. \A t \in Task : WaitsFor(draft)[t] \subseteq WaitsFor(draft')[t]
  BY <1>1, <1>3, WaitsForGrows
<1>5. /\ \A i \in DOMAIN batches[q] : \A d \in batches[q][i] :
            /\ d \in draft.tasks
            /\ last[q] # {}
            /\ d \notin last[q] => \A l \in last[q] : d \in WaitsFor(draft)[l]
      /\ \A i, j \in DOMAIN batches[q] : i < j =>
            \A s \in batches[q][j], d \in batches[q][i] : d \in WaitsFor(draft)[s]
      /\ last[q] \subseteq draft.tasks
  BY DEF AuthorInv, SequencesKept
<1>6. \A i \in DOMAIN batches[q] : batches[q][i] \subseteq Task
  BY <1>1, <1>5
<1>7. \A i \in DOMAIN batches[q] : \A d \in batches[q][i] :
            d \notin last[q] => \A l \in last[q] : d \in WaitsFor(draft')[l]
  BY <1>1, <1>4, <1>5
<1>8. \A i, j \in DOMAIN batches[q] : i < j =>
            \A s \in batches[q][j], d \in batches[q][i] : d \in WaitsFor(draft')[s]
  BY <1>4, <1>5, <1>6
<1>9. CASE q # p
  <2>1. last'[q] = last[q] /\ batches'[q] = batches[q]
    BY <1>1, <1>2, <1>9
  <2> QED
    BY <1>3, <1>5, <1>7, <1>8, <2>1
<1>10. CASE q = p
  <2>1. /\ last'[q] = IF F = {} THEN last[q] ELSE F
        /\ batches'[q] = Append(batches[q], F)
    BY <1>1, <1>2, <1>10
  <2> DEFINE n == Len(batches[q])
  <2>2. /\ n \in Nat /\ DOMAIN batches[q] = 1 .. n
        /\ DOMAIN batches'[q] = 1 .. n + 1
        /\ \A i \in 1 .. n : batches'[q][i] = batches[q][i]
        /\ batches'[q][n + 1] = F
    <3>1. batches[q] \in Seq(SUBSET Task)
      BY <1>1
    <3> QED
      BY <2>1, <3>1
  <2> HIDE DEF n
  \* What was there before is waited for by the new tasks.
  <2>3. ASSUME NEW s \in F, NEW i \in 1 .. n, NEW d \in batches[q][i]
        PROVE  d \in WaitsFor(draft')[s]
    <3>1. last[q] \subseteq WaitsFor(draft')[s]
      <4>1. draft'.dependencies[s] \subseteq WaitsFor(draft')[s]
        BY <1>1, WaitsForClosure
      <4> QED
        BY <1>3, <1>10, <4>1
    <3>2. CASE d \in last[q]
      BY <3>1, <3>2
    <3>3. CASE d \notin last[q]
      <4>1. PICK l \in last[q] : TRUE
        BY <1>5, <2>2
      <4>2. d \in WaitsFor(draft')[l]
        BY <1>7, <2>2, <3>3, <4>1
      <4>3. l \in WaitsFor(draft')[s]
        BY <3>1, <4>1
      <4> QED
        BY <1>1, <4>2, <4>3, WaitsForClosure
    <3> QED
      BY <3>2, <3>3
  <2>4. ASSUME NEW i \in 1 .. n + 1, NEW d \in batches'[q][i]
        PROVE  /\ d \in draft'.tasks
               /\ last'[q] # {}
               /\ d \notin last'[q] => \A l \in last'[q] : d \in WaitsFor(draft')[l]
    <3>1. CASE i = n + 1
      BY <1>3, <2>1, <2>2, <2>4, <3>1
    <3>2. CASE i # n + 1
      <4>1. i \in 1 .. n /\ d \in batches[q][i]
        BY <2>2, <2>4, <3>2
      <4>2. CASE F = {}
        BY <1>3, <1>5, <1>7, <2>1, <2>2, <4>1, <4>2
      <4>3. CASE F # {}
        BY <1>3, <1>5, <2>1, <2>2, <2>3, <4>1, <4>3
      <4> QED
        BY <4>2, <4>3
    <3> QED
      BY <3>1, <3>2
  <2>5. ASSUME NEW i \in 1 .. n + 1, NEW j \in 1 .. n + 1, i < j,
               NEW s \in batches'[q][j], NEW d \in batches'[q][i]
        PROVE  d \in WaitsFor(draft')[s]
    <3>1. i \in 1 .. n /\ d \in batches[q][i]
      BY <2>2, <2>5
    <3>2. CASE j = n + 1
      BY <2>2, <2>3, <2>5, <3>1, <3>2
    <3>3. CASE j # n + 1
      <4>1. j \in 1 .. n /\ s \in batches[q][j]
        BY <2>2, <2>5, <3>3
      <4> QED
        BY <1>8, <2>2, <2>5, <3>1, <4>1
    <3> QED
      BY <3>2, <3>3
  <2>6. last'[q] \subseteq draft'.tasks
    BY <1>3, <1>5, <2>1
  <2> QED
    BY <2>2, <2>4, <2>5, <2>6
<1> QED
  BY <1>9, <1>10

LEMMA AuthorInvInit == AuthorInit => AuthorInv
<1> SUFFICES ASSUME AuthorInit PROVE AuthorInv
  OBVIOUS
<1>1. \A q \in Sequence : last[q] = {} /\ batches[q] = <<>>
  BY DEF AuthorInit
<1>2. SequencesKept
  BY <1>1 DEF SequencesKept
<1> QED
  BY <1>2, BuildingInit, AuthorTypeInit DEF AuthorInv

(* Only an orderly author's tasks and edges are certain to stay. *)
LEMMA AuthorInvStep == AuthorInv /\ [AuthorNext]_authorVars => AuthorInv'
<1> SUFFICES ASSUME AuthorInv, [AuthorNext]_authorVars PROVE AuthorInv'
  OBVIOUS
<1>1. BuildingInv' /\ AuthorTypeOK'
  BY BuildingStep, AuthorTypeStep DEF AuthorInv
<1>2. /\ Consistent(draft) /\ draft \in GraphType /\ draft' \in GraphType
      /\ draft.tasks \subseteq Task
  BY <1>1 DEF AuthorInv, BuildingInv, AuthorTypeOK, Consistent, GraphType
<1>3. ASSUME NEW t \in Task, AddTask(t)
      PROVE  SequencesKept'
  <2>1. /\ draft'.tasks = draft.tasks \cup {t}
        /\ draft'.dependencies = draft.dependencies
    BY <1>2, <1>3, AddTasksConsistent DEF AddTask
  <2>2. last' = last /\ batches' = batches /\ orderly' = orderly
    BY <1>3 DEF AddTask
  <2> QED
    BY <1>2, <2>1, <2>2, SequencesStay
<1>4. ASSUME NEW s \in Task, NEW d \in Task, AddDependency(s, d)
      PROVE  SequencesKept'
  <2>1. /\ draft'.tasks = draft.tasks
        /\ \A t \in Task : draft.dependencies[t] \subseteq draft'.dependencies[t]
    BY <1>4 DEF AddDependency, AddDependencies
  <2>2. last' = last /\ batches' = batches /\ orderly' = orderly
    BY <1>4 DEF AddDependency
  <2> QED
    BY <1>2, <2>1, <2>2, SequencesStay
<1>5. ASSUME ~orderly'
      PROVE  SequencesKept'
  BY <1>5 DEF SequencesKept
<1>6. ASSUME NEW t \in Task, AddTaskAgain(t) \/ RemoveTask(t)
      PROVE  ~orderly'
  BY <1>6 DEF AddTaskAgain, RemoveTask
<1>7. ASSUME NEW s \in Task, NEW d \in Task, RemoveDependency(s, d)
      PROVE  ~orderly'
  BY <1>7 DEF RemoveDependency
<1>8. ASSUME NEW q \in Sequence, NEW F \in SUBSET Task, SequenceAdd(q, F)
      PROVE  SequencesKept'
  BY <1>1, <1>8, SequencesGrow
<1>9. ASSUME UNCHANGED authorVars
      PROVE  SequencesKept'
  <2>1. draft' = draft /\ last' = last /\ batches' = batches /\ orderly' = orderly
    BY <1>9 DEF authorVars
  <2> QED
    BY <1>2, <2>1, SequencesStay
<1>10. ASSUME AuthorNext
       PROVE  SequencesKept'
  <2>1. \/ \E t \in Task : AddTask(t) \/ AddTaskAgain(t) \/ RemoveTask(t)
        \/ \E s, d \in Task : AddDependency(s, d) \/ RemoveDependency(s, d)
        \/ \E q \in Sequence, F \in SUBSET Task : SequenceAdd(q, F)
    BY <1>10 DEF AuthorNext
  <2> QED
    BY <1>3, <1>4, <1>5, <1>6, <1>7, <1>8, <2>1
<1>11. SequencesKept'
  BY <1>9, <1>10
<1> QED
  BY <1>1, <1>11 DEF AuthorInv

(* The orders an author relies on are kept, after any sequence of calls:   *)
(* those of the sequences, and the one in which linearize lists the tasks. *)
THEOREM OrdersStayKept == AuthorSpec => []OrdersAreKept
<1>1. AuthorInv => OrdersAreKept
  <2> SUFFICES ASSUME AuthorInv PROVE OrdersAreKept
    OBVIOUS
  <2>1. Consistent(draft)
    BY DEF AuthorInv, BuildingInv
  <2>2. orderly => \A q \in Sequence : \A i, j \in DOMAIN batches[q] :
            i < j => \A s \in batches[q][j], d \in batches[q][i] : d \in WaitsFor(draft)[s]
    BY DEF AuthorInv, SequencesKept
  <2>3. UNION {Linearize(draft)[n] : n \in Rounds} =
            {t \in draft.tasks : \A u \in Task :
                 u = t \/ u \in WaitsFor(draft)[t] => u \notin WaitsFor(draft)[u]}
    BY <2>1, ListedExactly
  <2>4. \A m, n \in Rounds : \A t \in Linearize(draft)[m], d \in Linearize(draft)[n] :
            /\ t = d => m = n
            /\ d \in WaitsFor(draft)[t] => n < m
    BY <2>1, ListedInOrder
  <2> QED
    BY <2>2, <2>3, <2>4, Zenon DEF OrdersAreKept
<1> QED
  BY <1>1, AuthorInvInit, AuthorInvStep, PTL DEF AuthorSpec

-----------------------------------------------------------------------------
(* The records that stand for task objects *)

LEMMA TaskFields ==
    ASSUME NEW t \in Task
    PROVE  t.op \in Op /\ t.gen \in 0..MaxGen /\ t.try \in 0..MaxTry
BY TaskAssumption

LEMMA FirstTaskIsTask ==
    ASSUME NEW o \in Op, NEW g \in 0..MaxGen
    PROVE  /\ FirstTask(o, g) \in Task
           /\ FirstTask(o, g).op = o
           /\ FirstTask(o, g).gen = g
           /\ FirstTask(o, g).try = 0
BY TaskAssumption, BoundAssumption DEF FirstTask

LEMMA ContainerIsTask ==
    ASSUME NEW t \in Task, Contained(t)
    PROVE  Container(t) \in Task
BY TaskFields, FirstTaskIsTask, WorkflowAssumption DEF Contained, Container

LEMMA DuplicateIsTask ==
    ASSUME NEW t \in Task, t.try < MaxTry
    PROVE  /\ Duplicate(t) \in Task
           /\ Duplicate(t).op = t.op
           /\ Duplicate(t).gen = t.gen
           /\ Duplicate(t).try = t.try + 1
BY TaskAssumption, BoundAssumption DEF Duplicate

LEMMA SecondRetryIsTask ==
    ASSUME NEW t \in Task, t.gen < MaxGen, t.try < MaxTry
    PROVE  /\ SecondRetry(t) \in Task
           /\ SecondRetry(t).op = t.op
           /\ SecondRetry(t).gen = t.gen + 1
           /\ SecondRetry(t).try = t.try + 1
BY TaskAssumption, BoundAssumption DEF SecondRetry

LEMMA UnderIsTasks ==
    ASSUME TypeOK, NEW t \in Task
    PROVE  Under(t) \in SUBSET Task /\ t \in Under(t)
<1>1. \A u \in Task : subtasks[u] \subseteq Task
  BY DEF TypeOK
<1>2. UNION {subtasks[u] : u \in subtasks[t]} \subseteq Task
  BY <1>1
<1> QED
  BY <1>1, <1>2 DEF Under

(* Building tasks and edges for operations keeps the graph consistent. *)
LEMMA BuildConsistent ==
    ASSUME NEW g, Consistent(g), NEW O \in SUBSET Op, NEW n \in 0..MaxGen
    PROVE  /\ Consistent(Build(g, O, n))
           /\ Build(g, O, n).tasks = g.tasks \cup TasksFor(O, n)
           /\ Build(g, O, n).ready \subseteq g.ready \cup TasksFor(O, n)
<1> DEFINE a == AddTasks(g, TasksFor(O, n))
<1>1. TasksFor(O, n) \in SUBSET Task
  BY FirstTaskIsTask DEF TasksFor
<1>2. /\ Consistent(a)
      /\ a.tasks = g.tasks \cup TasksFor(O, n)
      /\ a.ready = g.ready \cup TasksFor(O, n)
  BY <1>1, AddTasksConsistent
<1>3. EdgesFor(O, n) \in SUBSET (a.tasks \X a.tasks)
  <2>1. \A e \in Needs \cap (O \X O) :
          <<FirstTask(e[1], n), FirstTask(e[2], n)>> \in a.tasks \X a.tasks
    BY <1>2, WorkflowAssumption DEF TasksFor
  <2>2. \A o \in O : Parent[o] \in O =>
          <<FirstTask(o, n), FirstTask(Parent[o], n)>> \in a.tasks \X a.tasks
    BY <1>2 DEF TasksFor
  <2> QED
    BY <2>1, <2>2 DEF EdgesFor
<1> HIDE DEF a
<1>4. /\ Consistent(AddDependencies(a, EdgesFor(O, n)))
      /\ AddDependencies(a, EdgesFor(O, n)).tasks = a.tasks
      /\ AddDependencies(a, EdgesFor(O, n)).ready \subseteq a.ready
  BY <1>2, <1>3, AddDependenciesConsistent
<1> QED
  BY <1>2, <1>4 DEF Build, a

-----------------------------------------------------------------------------
(* Types and the consistency of the two dicts of edges, in one invariant:  *)
(* the graph stays in its type only together with the other variables.     *)
ConsistencyInv == TypeOK /\ Consistent(graph)

LEMMA InitConsistency == Init => ConsistencyInv
<1> SUFFICES ASSUME Init PROVE ConsistencyInv
  OBVIOUS
<1>1. Consistent(graph)
  <2>1. 0 \in 0..MaxGen /\ Op \in SUBSET Op
    BY BoundAssumption
  <2> QED
    BY <2>1, EmptyGraphConsistent, BuildConsistent DEF Init
<1>2. subtasks \in [Task -> SUBSET Task]
  BY TaskFields, FirstTaskIsTask DEF Init, TasksFor, Members, IsSubgraph
<1> QED
  BY <1>1, <1>2 DEF Init, ConsistencyInv, TypeOK, Consistent, State, Result

LEMMA TellContainerType ==
    ASSUME TypeOK, NEW t \in Task, NEW fails \in BOOLEAN,
           NEW retried \in SUBSET Task, TellContainer(t, fails, retried)
    PROVE  /\ state' \in [Task -> State]
           /\ subtasks' \in [Task -> SUBSET Task]
           /\ failed_task' \subseteq Task
           /\ finished_tasks' \subseteq Task
<1>1. CASE ~Contained(t)
  BY <1>1 DEF TellContainer, TypeOK
<1>2. CASE Contained(t)
  <2>1. Container(t) \in Task
    BY <1>2, ContainerIsTask
  <2> DEFINE s    == Container(t)
             left == (subtasks[s] \ {t}) \cup retried
             ends == IF state[s] \in TERMINATED_STATES THEN state[s]
                     ELSE IF fails \/ s \in failed_task THEN "failed"
                     ELSE IF left = {} THEN "succeeded"
                     ELSE state[s]
  <2>2. ends \in State
    BY <2>1 DEF TypeOK, State, TERMINATED_STATES
  <2>3. left \subseteq Task
    BY <2>1 DEF TypeOK
  <2>4. /\ subtasks' = [subtasks EXCEPT ![s] = left]
        /\ failed_task' = failed_task \cup (IF fails THEN {s} ELSE {})
        /\ state' = [state EXCEPT ![s] = ends]
        /\ finished_tasks' = (finished_tasks \ {t})
                              \cup (IF ends # state[s] THEN {s} ELSE {})
    BY <1>2 DEF TellContainer
  <2> HIDE DEF s, left, ends
  <2> QED
    BY <2>1, <2>2, <2>3, <2>4 DEF TypeOK, s
<1> QED
  BY <1>1, <1>2

(* A result is delivered with a state that goes with it. *)
LEMMA SettleType ==
    ASSUME TypeOK, NEW t \in Task, NEW st \in State, NEW r \in Result,
           Settle(t, st, r)
    PROVE  /\ state' \in [Task -> State]
           /\ result' \in [Task -> Result]
           /\ finished_tasks' \subseteq Task
BY DEF Settle, TypeOK

(* Sending a task, or failing to, keeps the types. *)
LEMMA SendType ==
    ASSUME TypeOK, NEW t \in Task, Send(t)
    PROVE  /\ state' \in [Task -> State]
           /\ result' \in [Task -> Result]
           /\ finished_tasks' \subseteq Task
<1>1. {"sent", "failed", "succeeded"} \subseteq State
  BY DEF State, TERMINATED_STATES
<1>2. {"value", "RecoverableError", "NonRecoverableError"} \subseteq Result
  BY DEF Result, Failure
<1>3. CASE state' = [state EXCEPT ![t] = "sent"] /\ UNCHANGED <<result, finished_tasks>>
  BY <1>1, <1>3 DEF TypeOK
<1>4. CASE \E e \in {"RecoverableError", "NonRecoverableError"} : Settle(t, "failed", e)
  BY <1>1, <1>2, <1>4, SettleType
<1>5. CASE Settle(t, "succeeded", "value")
  BY <1>1, <1>2, <1>5, SettleType
<1> QED
  BY <1>3, <1>4, <1>5 DEF Send

(* Popping a task off _ready touches no edge. *)
LEMMA PopConsistent ==
    ASSUME Consistent(graph), NEW t \in Task
    PROVE  Consistent([graph EXCEPT !.ready = @ \ {t}])
BY DEF Consistent, GraphType, Mirrored, EdgesInside

LEMMA NextConsistency == ConsistencyInv /\ [Next]_vars => ConsistencyInv'
<1> SUFFICES ASSUME ConsistencyInv, [Next]_vars PROVE ConsistencyInv'
  OBVIOUS
<1> USE DEF ConsistencyInv
<1>1. CASE Check
  BY <1>1 DEF Check, TypeOK, Consistent, Mirrored, EdgesInside
<1>2. CASE RunDone
  BY <1>2 DEF RunDone, TypeOK, Consistent, Mirrored, EdgesInside
<1>3. CASE HandleDone
  BY <1>3 DEF HandleDone, TypeOK, Consistent, Mirrored, EdgesInside
<1>4. ASSUME NEW t \in Task, RunOperation(t) PROVE ConsistencyInv'
  <2>1. Consistent(graph')
    BY <1>4, PopConsistent DEF RunOperation
  <2>2. /\ state' \in [Task -> State]
        /\ result' \in [Task -> Result]
        /\ finished_tasks' \subseteq Task
        /\ timers' \subseteq Task
    BY <1>4, SendType DEF RunOperation, TypeOK
  <2> QED
    BY <1>4, <2>1, <2>2 DEF RunOperation, TypeOK, Consistent, Mirrored, EdgesInside
<1>5. ASSUME NEW s \in Task, RunSubgraph(s) PROVE ConsistencyInv'
  <2>1. Consistent(graph')
    <3>1. Consistent([graph EXCEPT !.ready = @ \ {s}])
      BY PopConsistent
    <3>2. subtasks[s] \in SUBSET Task
      BY DEF TypeOK
    <3> QED
      BY <1>5, <3>1, <3>2, ReleaseFromConsistent DEF RunSubgraph
  <2>2. state' \in [Task -> State] /\ finished_tasks' \subseteq Task
    BY <1>5 DEF RunSubgraph, TypeOK, State, TERMINATED_STATES
  <2> QED
    BY <1>5, <2>1, <2>2 DEF RunSubgraph, TypeOK, Consistent, Mirrored, EdgesInside
<1>6. ASSUME NEW t \in Task, HandleEnd(t) PROVE ConsistencyInv'
  <2>1. Consistent(graph')
    BY <1>6, UnderIsTasks, RemoveTasksConsistent DEF HandleEnd
  <2> QED
    BY <1>6, <2>1, TellContainerType, FALSE \in BOOLEAN
    DEF HandleEnd, Popped, TypeOK, Consistent, Mirrored, EdgesInside
<1>7. ASSUME NEW t \in Task, HandleFail(t) PROVE ConsistencyInv'
  <2>1. Consistent(graph')
    BY <1>7, UnderIsTasks, RemoveTasksConsistent DEF HandleFail
  <2> QED
    BY <1>7, <2>1, TellContainerType, TRUE \in BOOLEAN
    DEF HandleFail, Popped, FailOnce, TypeOK, Consistent, Mirrored, EdgesInside
<1>8. ASSUME NEW t \in Task, HandleRetry(t) PROVE ConsistencyInv'
  <2>1. Duplicate(t) \in Task
    BY <1>8, DuplicateIsTask DEF HandleRetry
  <2>2. Consistent(graph')
    <3>1. Consistent(TakeOver(graph, t, Duplicate(t)))
      BY <2>1, TakeOverConsistent
    <3>2. {t} \in SUBSET Task
      OBVIOUS
    <3> QED
      BY <1>8, <3>1, <3>2, RemoveTasksConsistent DEF HandleRetry
  <2>3. /\ state' \in [Task -> State]
        /\ subtasks' \in [Task -> SUBSET Task]
        /\ failed_task' \subseteq Task
        /\ finished_tasks' \subseteq Task
    BY <1>8, <2>1, TellContainerType, {Duplicate(t)} \in SUBSET Task DEF HandleRetry
  <2> QED
    BY <1>8, <2>2, <2>3
    DEF HandleRetry, Popped, TypeOK, Consistent, Mirrored, EdgesInside
<1>9. ASSUME NEW s \in Task, HandleRebuild(s) PROVE ConsistencyInv'
  <2> DEFINE kept  == RemoveTasks(graph, Under(s) \ {s})
             built == Build(kept, Inside(s.op), s.gen + 1)
             new   == FirstTask(s.op, s.gen + 1)
  <2>1. s.op \in Op /\ s.gen + 1 \in 0..MaxGen
    BY <1>9, TaskFields, BoundAssumption DEF HandleRebuild
  <2>2. new \in Task
    BY <2>1, FirstTaskIsTask
  <2>3. Under(s) \in SUBSET Task
    BY UnderIsTasks
  <2>4. Consistent(kept)
    BY <2>3, RemoveTasksConsistent
  <2>5. Consistent(built)
    BY <2>1, <2>4, BuildConsistent DEF Inside
  <2> HIDE DEF kept, built, new
  <2>6. Consistent(TakeOver(built, s, new))
    BY <2>2, <2>5, TakeOverConsistent
  <2>7. \/ graph' = RemoveTasks(TakeOver(built, s, new), Under(s))
        \/ graph' = RemoveTasks(built, Under(s))
    BY <1>9 DEF HandleRebuild, kept, built, new
  <2>8. Consistent(graph')
    BY <2>3, <2>5, <2>6, <2>7, RemoveTasksConsistent
  <2> QED
    BY <1>9, <2>8
    DEF HandleRebuild, Popped, FailOnce, TypeOK, Consistent, Mirrored, EdgesInside
<1>10. ASSUME NEW s \in Task, HandlePropagate(s) PROVE ConsistencyInv'
  <2>1. Container(s) \in Task
    BY <1>10, ContainerIsTask DEF HandlePropagate, Propagates
  <2>2. Consistent(graph')
    BY <1>10, UnderIsTasks, RemoveTasksConsistent DEF HandlePropagate
  <2>3. "failed" \in State
    BY DEF State, TERMINATED_STATES
  <2>4. /\ state' \in [Task -> State]
        /\ subtasks' \in [Task -> SUBSET Task]
        /\ finished_tasks' \subseteq Task
        /\ failed_task' \subseteq Task
        /\ waiting_for' \subseteq Task
    BY <1>10, <2>1, <2>3 DEF HandlePropagate, Popped, TypeOK
  <2>5. /\ error' \in {"none", "failed", "cancelled", "crashed"}
        /\ pc' \in {"check", "run", "handle", "returned"}
    BY <1>10 DEF HandlePropagate, TypeOK
  <2>6. UNCHANGED <<result, timers, cancel_request, deadline_passed, redelivery>>
    BY <1>10 DEF HandlePropagate
  <2> QED
    BY <2>2, <2>4, <2>5, <2>6
    DEF TypeOK, Consistent, Mirrored, EdgesInside
<1>11. ASSUME NEW t \in Task, Finish(t) PROVE ConsistencyInv'
  <2>1. PICK r \in Outcome[t.op] : Settle(t, StateFor(r), r)
    BY <1>11 DEF Finish
  <2>2. r \in Result
    BY TaskFields, WorkflowAssumption
  <2>3. StateFor(r) \in State
    BY DEF StateFor, State, TERMINATED_STATES
  <2>4. /\ state' \in [Task -> State]
        /\ result' \in [Task -> Result]
        /\ finished_tasks' \subseteq Task
    BY <2>1, <2>2, <2>3, SettleType
  <2> QED
    BY <1>11, <2>4 DEF Finish, TypeOK, Consistent, Mirrored, EdgesInside
<1>12. ASSUME NEW t \in Task, TimerFires(t) PROVE ConsistencyInv'
  BY <1>12, SendType DEF TimerFires, TypeOK, Consistent, Mirrored, EdgesInside
<1>13. CASE Cancel
  BY <1>13 DEF Cancel, TypeOK, Consistent, Mirrored, EdgesInside
<1>14. CASE DeadlinePasses
  BY <1>14 DEF DeadlinePasses, TypeOK, Consistent, Mirrored, EdgesInside
<1>15. CASE UNCHANGED vars
  BY <1>15 DEF vars, TypeOK, Consistent, Mirrored, EdgesInside
<1>16. ASSUME NEW t \in Task, AnswerAtOnce(t) PROVE ConsistencyInv'
  <2>1. Consistent(graph')
    BY <1>16, PopConsistent DEF AnswerAtOnce
  <2>2. PICK r \in Outcome[t.op] : Settle(t, StateFor(r), r)
    BY <1>16 DEF AnswerAtOnce
  <2>3. r \in Result /\ StateFor(r) \in State
    BY TaskFields, WorkflowAssumption DEF StateFor, State, TERMINATED_STATES
  <2>4. /\ state' \in [Task -> State]
        /\ result' \in [Task -> Result]
        /\ finished_tasks' \subseteq Task
    BY <2>2, <2>3, SettleType
  <2>5. waiting_for' \subseteq Task
    BY <1>16 DEF AnswerAtOnce, TypeOK
  <2>6. redelivery' \in [due : SUBSET Task, again : SUBSET Task, handled : SUBSET Task]
    BY <1>16 DEF AnswerAtOnce, TypeOK
  <2>7. UNCHANGED <<error, pc, subtasks, failed_task, timers, cancel_request, deadline_passed>>
    BY <1>16 DEF AnswerAtOnce
  <2> QED
    BY <2>1, <2>4, <2>5, <2>6, <2>7 DEF TypeOK, Consistent, Mirrored, EdgesInside
<1>17. ASSUME NEW t \in Task, CallBackAgain(t) PROVE ConsistencyInv'
  <2>1. redelivery' \in [due : SUBSET Task, again : SUBSET Task, handled : SUBSET Task]
    BY <1>17 DEF CallBackAgain, TypeOK
  <2>2. UNCHANGED <<graph, waiting_for, finished_tasks, error, pc, state, result, subtasks,
                    failed_task, timers, cancel_request, deadline_passed>>
    BY <1>17 DEF CallBackAgain
  <2> QED
    BY <2>1, <2>2 DEF TypeOK, Consistent, Mirrored, EdgesInside
<1>18. ASSUME NEW t \in Task, HandleAgain(t) PROVE ConsistencyInv'
  <2>1. redelivery' \in [due : SUBSET Task, again : SUBSET Task, handled : SUBSET Task]
    BY <1>18 DEF HandleAgain, TypeOK
  <2>2. UNCHANGED <<waiting_for, finished_tasks, state, result, subtasks, failed_task,
                    timers, cancel_request, deadline_passed>>
    BY <1>18 DEF HandleAgain
  <2>3. Consistent(graph')
    <3>1. CASE graph' = graph
      BY <3>1 DEF Consistent, Mirrored, EdgesInside
    <3>2. CASE t.gen < MaxGen /\ t.try < MaxTry /\ graph' = AddTasks(graph, {SecondRetry(t)})
      <4>1. {SecondRetry(t)} \in SUBSET Task
        BY <3>2, SecondRetryIsTask
      <4> QED
        BY <3>2, <4>1, AddTasksConsistent
    <3> QED
      BY <1>18, <3>1, <3>2 DEF HandleAgain
  <2>4. /\ error' \in {"none", "failed", "cancelled", "crashed"}
        /\ pc' \in {"check", "run", "handle", "returned"}
    BY <1>18 DEF HandleAgain, FailOnce, TypeOK
  <2> QED
    BY <2>1, <2>2, <2>3, <2>4 DEF TypeOK, Consistent, Mirrored, EdgesInside
<1>19. /\ graph.ready \cup finished_tasks \cup waiting_for \cup timers \subseteq Task
       /\ redelivery.due \cup redelivery.again \subseteq Task
  BY DEF TypeOK, GraphType, ConsistencyInv
<1> QED
  BY <1>1, <1>2, <1>3, <1>4, <1>5, <1>6, <1>7, <1>8, <1>9, <1>10, <1>11, <1>12,
     <1>13, <1>14, <1>15, <1>16, <1>17, <1>18, <1>19 DEF Next, MainLoop, Due, Run, Handle

LEMMA AlwaysConsistent == Spec => []ConsistencyInv
BY InitConsistency, NextConsistency, PTL DEF Spec

(* Every variable of the engine keeps its type, whatever the workflow.     *)
THEOREM TypeCorrect == Spec => []TypeOK
BY AlwaysConsistent, PTL DEF ConsistencyInv

(* _dependencies and _dependents stay mirror images through every retry,   *)
(* rebuild and removal, and no edge ever leads out of the graph: get_task  *)
(* in the retry arm never returns None.                                    *)
THEOREM EdgesStayConsistent == Spec => []EdgesConsistent
<1>1. ConsistencyInv => EdgesConsistent
  BY DEF ConsistencyInv, Consistent, EdgesConsistent
<1> QED
  BY <1>1, AlwaysConsistent, PTL

-----------------------------------------------------------------------------
(* The limits on retries.  A task can only be applied if it is ready, and  *)
(* what may become ready is in the graph or listed by a subgraph; a build  *)
(* of a subgraph beyond its limit may be in the graph, but only once the   *)
(* execution has an error, after which nothing is applied.                 *)
TryBounded(t) ==
    (/\ TotalRetries[t.op] # INFINITE_TOTAL_RETRIES
     /\ ~IsSubgraph(t)
     /\ Handler[t.op] # "poll") => t.try <= TotalRetries[t.op]

GenBounded(t) ==
    (TotalRetries[t.op] # INFINITE_TOTAL_RETRIES /\ Rebuilds(t))
        => t.gen <= TotalRetries[t.op]

RetriesInv ==
    /\ \A t \in graph.tasks \cup graph.ready \cup waiting_for : TryBounded(t)
    /\ \A s \in Task : \A t \in subtasks[s] : TryBounded(t) /\ Contained(t)
    /\ \A t \in waiting_for : GenBounded(t)
    /\ error = "none" => \A t \in graph.tasks \cup graph.ready : GenBounded(t)

(* The first attempt of anything is within its limit. *)
LEMMA FirstTaskBounded ==
    ASSUME NEW o \in Op, NEW g \in 0..MaxGen
    PROVE  /\ TryBounded(FirstTask(o, g))
           /\ g = 0 \/ Parent[o] # NoOp => GenBounded(FirstTask(o, g))
<1>1. TotalRetries[o] # INFINITE_TOTAL_RETRIES => TotalRetries[o] \in Nat
  BY WorkflowAssumption
<1> QED
  BY <1>1, FirstTaskIsTask DEF TryBounded, GenBounded, Rebuilds, Contained

LEMMA InitRetries == Init => RetriesInv
<1> SUFFICES ASSUME Init PROVE RetriesInv
  OBVIOUS
<1>1. 0 \in 0..MaxGen /\ Op \in SUBSET Op
  BY BoundAssumption
<1>2. /\ graph.tasks \subseteq TasksFor(Op, 0)
      /\ graph.ready \subseteq TasksFor(Op, 0)
  <2>1. EmptyGraph.tasks = {} /\ EmptyGraph.ready = {}
    BY DEF EmptyGraph
  <2> QED
    BY <1>1, <2>1, EmptyGraphConsistent, BuildConsistent DEF Init
<1>3. \A t \in TasksFor(Op, 0) : TryBounded(t) /\ GenBounded(t)
  BY <1>1, FirstTaskBounded DEF TasksFor
<1>4. ASSUME NEW s \in Task, NEW t \in subtasks[s] PROVE TryBounded(t) /\ Contained(t)
  <2>1. PICK o \in Members(s.op) : t = FirstTask(o, s.gen) /\ s.op \in Subgraph
    BY <1>4 DEF Init, TasksFor, IsSubgraph
  <2>2. o \in Op /\ Parent[o] # NoOp
    BY <2>1, WorkflowAssumption DEF Members
  <2> QED
    BY <2>1, <2>2, TaskFields, FirstTaskIsTask, FirstTaskBounded DEF Contained
<1> QED
  BY <1>2, <1>3, <1>4 DEF Init, RetriesInv

(* Telling the container adds at most the retry to what it lists. *)
LEMMA TellContainerLists ==
    ASSUME TypeOK, NEW t \in Task, NEW fails \in BOOLEAN,
           NEW retried \in SUBSET Task, TellContainer(t, fails, retried)
    PROVE  \A s \in Task : \A u \in subtasks'[s] :
               u \in subtasks[s] \/ (u \in retried /\ Contained(t))
<1>1. CASE ~Contained(t)
  BY <1>1 DEF TellContainer
<1>2. CASE Contained(t)
  BY <1>2, ContainerIsTask DEF TellContainer, TypeOK
<1> QED
  BY <1>1, <1>2

(* A retry that no limit denies is within the limit. *)
LEMMA RetryBounded ==
    ASSUME NEW t \in Task, ~IsSubgraph(t), Retries(t), NEW new \in Task,
           new.op = t.op, new.try = t.try + 1
    PROVE  TryBounded(new) /\ GenBounded(new)
<1>1. Handler[t.op] = "poll" \/ WithinRetries(t, t.try)
  BY DEF Retries, PollsAgain
<1>2. t.op \in Op /\ t.try \in Nat
  BY TaskFields, BoundAssumption
<1>3. TotalRetries[t.op] \in Int
  BY <1>2, WorkflowAssumption DEF INFINITE_TOTAL_RETRIES
<1>4. TryBounded(new)
  BY <1>1, <1>2, <1>3 DEF TryBounded, WithinRetries
<1>5. Handler[new.op] \in OpHandler
  BY <1>2, WorkflowAssumption DEF IsSubgraph
<1> QED
  BY <1>4, <1>5 DEF GenBounded, Rebuilds, OpHandler

LEMMA NextRetries == ConsistencyInv /\ RetriesInv /\ [Next]_vars => RetriesInv'
<1> SUFFICES ASSUME ConsistencyInv, RetriesInv, [Next]_vars PROVE RetriesInv'
  OBVIOUS
<1>a. TypeOK /\ Consistent(graph)
  BY DEF ConsistencyInv
<1>b. \A t \in Task : {t} \in SUBSET Task /\ Under(t) \in SUBSET Task
  BY <1>a, UnderIsTasks
<1>1. CASE Check
  BY <1>1 DEF Check, RetriesInv, TryBounded, GenBounded
<1>2. CASE RunDone
  BY <1>2 DEF RunDone, RetriesInv
<1>3. CASE HandleDone
  BY <1>3 DEF HandleDone, RetriesInv
<1>4. ASSUME NEW t \in Task, RunOperation(t) PROVE RetriesInv'
  <2>1. graph'.tasks = graph.tasks /\ graph'.ready \subseteq graph.ready
    BY <1>4, <1>a DEF RunOperation, Consistent, GraphType
  <2> QED
    BY <1>4, <2>1 DEF RunOperation, RetriesInv
<1>5. ASSUME NEW s \in Task, RunSubgraph(s) PROVE RetriesInv'
  <2> DEFINE popped == [graph EXCEPT !.ready = @ \ {s}]
  <2>1. Consistent(popped) /\ popped.tasks = graph.tasks /\ popped.ready \subseteq graph.ready
    BY <1>a, PopConsistent DEF Consistent, GraphType
  <2>2. subtasks[s] \in SUBSET Task
    BY <1>a DEF TypeOK
  <2>3. graph' = ReleaseFrom(popped, s, subtasks[s])
    BY <1>5 DEF RunSubgraph
  <2> HIDE DEF popped
  <2>4. graph'.tasks = graph.tasks /\ graph'.ready \subseteq graph.ready \cup subtasks[s]
    BY <2>1, <2>2, <2>3, ReleaseFromConsistent
  <2>5. \A t \in subtasks[s] : TryBounded(t) /\ GenBounded(t)
    BY DEF RetriesInv, GenBounded, Rebuilds
  <2> QED
    BY <1>5, <2>4, <2>5 DEF RunSubgraph, RetriesInv
<1>6. ASSUME NEW t \in Task, HandleEnd(t) PROVE RetriesInv'
  <2>1. /\ graph'.tasks \subseteq graph.tasks
        /\ graph'.ready \subseteq graph.ready \cup graph.tasks
    BY <1>6, <1>a, <1>b, RemoveTasksConsistent DEF HandleEnd
  <2>2. \A s \in Task : subtasks'[s] \subseteq subtasks[s]
    BY <1>6, <1>a, TellContainerLists, FALSE \in BOOLEAN, {} \in SUBSET Task DEF HandleEnd
  <2> QED
    BY <1>6, <2>1, <2>2 DEF HandleEnd, Popped, RetriesInv
<1>7. ASSUME NEW t \in Task, HandleFail(t) PROVE RetriesInv'
  <2>1. /\ graph'.tasks \subseteq graph.tasks
        /\ graph'.ready \subseteq graph.ready \cup graph.tasks
    BY <1>7, <1>a, <1>b, RemoveTasksConsistent DEF HandleFail
  <2>2. \A s \in Task : subtasks'[s] \subseteq subtasks[s]
    BY <1>7, <1>a, TellContainerLists, TRUE \in BOOLEAN, {} \in SUBSET Task DEF HandleFail
  <2>3. error' = "none" => error = "none"
    BY <1>7 DEF HandleFail, FailOnce
  <2> QED
    BY <1>7, <2>1, <2>2, <2>3 DEF HandleFail, Popped, RetriesInv
<1>8. ASSUME NEW t \in Task, HandleRetry(t) PROVE RetriesInv'
  <2> DEFINE new == Duplicate(t)
  <2>1. /\ new \in Task /\ new.op = t.op /\ new.gen = t.gen /\ new.try = t.try + 1
        /\ {new} \in SUBSET Task
    BY <1>8, DuplicateIsTask DEF HandleRetry
  <2>2. TryBounded(new) /\ GenBounded(new)
    BY <1>8, <2>1, RetryBounded DEF HandleRetry
  <2> HIDE DEF new
  <2>4. /\ graph'.tasks \subseteq graph.tasks \cup {new}
        /\ graph'.ready \subseteq graph.ready \cup graph.tasks \cup {new}
    <3> DEFINE taken == TakeOver(graph, t, new)
    <3>1. /\ Consistent(taken)
          /\ taken.tasks = graph.tasks \cup {new}
          /\ taken.ready \subseteq graph.ready \cup {new}
      BY <1>a, <2>1, TakeOverConsistent
    <3>2. graph' = RemoveTasks(taken, {t})
      BY <1>8 DEF HandleRetry, new
    <3> HIDE DEF taken
    <3> QED
      BY <1>b, <3>1, <3>2, RemoveTasksConsistent
  <2>5. \A s \in Task : \A u \in subtasks'[s] :
            u \in subtasks[s] \/ (u = new /\ Contained(t))
    <3>1. TellContainer(t, FALSE, {new})
      BY <1>8 DEF HandleRetry, new
    <3> QED
      BY <1>a, <2>1, <3>1, TellContainerLists, FALSE \in BOOLEAN
  <2>6. Contained(t) => Contained(new)
    BY <2>1 DEF Contained
  <2> QED
    BY <1>8, <2>2, <2>4, <2>5, <2>6 DEF HandleRetry, Popped, RetriesInv
<1>9. ASSUME NEW s \in Task, HandleRebuild(s) PROVE RetriesInv'
  <2> DEFINE kept  == RemoveTasks(graph, Under(s) \ {s})
             built == Build(kept, Inside(s.op), s.gen + 1)
             new   == FirstTask(s.op, s.gen + 1)
             fresh == TasksFor(Inside(s.op), s.gen + 1)
             taken == TakeOver(built, s, new)
  <2>1. /\ s.op \in Op /\ s.gen + 1 \in 0..MaxGen
        /\ Inside(s.op) \in SUBSET Op /\ s.op \in Inside(s.op)
    BY <1>9, TaskFields, BoundAssumption DEF HandleRebuild, Inside
  <2>2. new \in Task /\ new \in fresh
    BY <2>1, FirstTaskIsTask DEF TasksFor
  <2>3. Under(s) \ {s} \in SUBSET Task
    BY <1>b
  <2>4. /\ Consistent(kept)
        /\ kept.tasks \subseteq graph.tasks
        /\ kept.ready \subseteq graph.ready \cup graph.tasks
    BY <1>a, <2>3, RemoveTasksConsistent
  <2>5. \A t \in fresh : TryBounded(t)
    BY <2>1, FirstTaskBounded DEF TasksFor
  <2>6. WithinRetries(s, s.gen) => \A t \in fresh : GenBounded(t)
    <3> SUFFICES ASSUME WithinRetries(s, s.gen),
                        NEW o \in Inside(s.op)
                 PROVE  GenBounded(FirstTask(o, s.gen + 1))
      BY DEF TasksFor
    <3>1. CASE o = s.op
      <4>1. s.gen \in Nat /\ TotalRetries[s.op] \in Int
        BY TaskFields, BoundAssumption, WorkflowAssumption DEF INFINITE_TOTAL_RETRIES
      <4> QED
        BY <2>1, <3>1, <4>1, FirstTaskIsTask DEF WithinRetries, GenBounded
    <3>2. CASE o # s.op
      <4>1. o \in Op /\ Parent[o] # NoOp
        BY <3>2, <2>1, WorkflowAssumption DEF Inside
      <4> QED
        BY <2>1, <4>1, FirstTaskBounded
    <3> QED
      BY <3>1, <3>2
  <2> HIDE DEF kept, fresh
  <2>7. /\ Consistent(built)
        /\ built.tasks \subseteq graph.tasks \cup fresh
        /\ built.ready \subseteq graph.ready \cup graph.tasks \cup fresh
    BY <2>1, <2>4, BuildConsistent DEF fresh
  <2> HIDE DEF built, new
  <2>8. /\ Consistent(taken)
        /\ taken.tasks \subseteq graph.tasks \cup fresh
        /\ taken.ready \subseteq graph.ready \cup graph.tasks \cup fresh
    BY <2>2, <2>7, TakeOverConsistent
  <2> HIDE DEF taken
  <2>9. \/ graph' = RemoveTasks(taken, Under(s)) /\ WithinRetries(s, s.gen)
        \/ graph' = RemoveTasks(built, Under(s)) /\ error' # "none"
    BY <1>9 DEF HandleRebuild, FailOnce, kept, built, new, taken
  <2>10. /\ graph'.tasks \subseteq graph.tasks \cup fresh
         /\ graph'.ready \subseteq graph.ready \cup graph.tasks \cup fresh
    BY <1>b, <2>7, <2>8, <2>9, RemoveTasksConsistent
  <2>11. error' = "none" => error = "none" /\ WithinRetries(s, s.gen)
    BY <1>9 DEF HandleRebuild, FailOnce
  <2> QED
    BY <1>9, <2>5, <2>6, <2>10, <2>11 DEF HandleRebuild, Popped, RetriesInv
<1>10. ASSUME NEW s \in Task, HandlePropagate(s) PROVE RetriesInv'
  <2>1. Under(s) \in SUBSET Task /\ Under(s) \ {s} \in SUBSET Task
    BY <1>b
  <2>2. /\ graph'.tasks \subseteq graph.tasks
        /\ graph'.ready \subseteq graph.ready \cup graph.tasks
    BY <1>10, <1>a, <2>1, RemoveTasksConsistent DEF HandlePropagate
  <2>3. \A u \in Task : subtasks'[u] \subseteq subtasks[u]
    BY <1>10, <1>a DEF HandlePropagate, TypeOK
  <2>4. error' = "none" => error = "none"
    BY <1>10 DEF HandlePropagate
  <2> QED
    BY <1>10, <2>2, <2>3, <2>4 DEF HandlePropagate, Popped, RetriesInv
<1>11. ASSUME NEW t \in Task, Finish(t) PROVE RetriesInv'
  BY <1>11 DEF Finish, RetriesInv
<1>12. ASSUME NEW t \in Task, TimerFires(t) PROVE RetriesInv'
  BY <1>12 DEF TimerFires, RetriesInv
<1>13. CASE Cancel
  BY <1>13 DEF Cancel, RetriesInv
<1>14. CASE DeadlinePasses
  BY <1>14 DEF DeadlinePasses, RetriesInv
<1>15. CASE UNCHANGED vars
  BY <1>15 DEF vars, RetriesInv
<1>16. ASSUME NEW t \in Task, AnswerAtOnce(t) PROVE RetriesInv'
  <2>1. graph'.tasks = graph.tasks /\ graph'.ready \subseteq graph.ready
    BY <1>16, <1>a DEF AnswerAtOnce, Consistent, GraphType
  <2> QED
    BY <1>16, <2>1 DEF AnswerAtOnce, RetriesInv
<1>17. ASSUME NEW t \in Task, CallBackAgain(t) PROVE RetriesInv'
  BY <1>17 DEF CallBackAgain, RetriesInv
<1>18. ASSUME NEW t \in Task, HandleAgain(t) PROVE RetriesInv'
  <2>1. UNCHANGED <<waiting_for, subtasks>> /\ (error' = "none" => error = "none")
    BY <1>18 DEF HandleAgain, FailOnce
  <2>2. CASE graph' = graph
    BY <2>1, <2>2 DEF RetriesInv
  <2>3. CASE /\ ~IsSubgraph(t) /\ Retries(t) /\ t.gen < MaxGen /\ t.try < MaxTry
             /\ graph' = AddTasks(graph, {SecondRetry(t)})
    <3>1. SecondRetry(t) \in Task /\ {SecondRetry(t)} \in SUBSET Task
      BY <2>3, SecondRetryIsTask
    <3>2. TryBounded(SecondRetry(t)) /\ GenBounded(SecondRetry(t))
      BY <2>3, <3>1, SecondRetryIsTask, RetryBounded
    <3>3. /\ graph'.tasks \subseteq graph.tasks \cup {SecondRetry(t)}
          /\ graph'.ready \subseteq graph.ready \cup {SecondRetry(t)}
      BY <1>a, <2>3, <3>1, AddTasksConsistent
    <3> QED
      BY <2>1, <3>2, <3>3 DEF RetriesInv
  <2> QED
    BY <1>18, <2>2, <2>3 DEF HandleAgain
<1>19. /\ graph.ready \cup finished_tasks \cup waiting_for \cup timers \subseteq Task
       /\ redelivery.due \cup redelivery.again \subseteq Task
  BY DEF TypeOK, GraphType, ConsistencyInv
<1> QED
  BY <1>1, <1>2, <1>3, <1>4, <1>5, <1>6, <1>7, <1>8, <1>9, <1>10, <1>11, <1>12,
     <1>13, <1>14, <1>15, <1>16, <1>17, <1>18, <1>19 DEF Next, MainLoop, Due, Run, Handle

(* No operation is ever applied more often than its total_retries allows,  *)
(* and no build of a subgraph beyond its limit is ever started, for every  *)
(* workflow and every mix of failures, timers and cancellation.            *)
THEOREM RetriesStayBounded == Spec => []RetriesBounded
<1>1. Spec => []RetriesInv
  BY InitConsistency, NextConsistency, InitRetries, NextRetries, PTL DEF Spec
<1>2. RetriesInv => RetriesBounded
  BY DEF RetriesInv, RetriesBounded, TryBounded, GenBounded
<1> QED
  BY <1>1, <1>2, PTL

-----------------------------------------------------------------------------
(* The shape of a workflow *)

(* The subgraph a task is in is a first attempt of the same build, and no  *)
(* subgraph is in a subgraph of a subgraph.                                *)
LEMMA ContainerShape ==
    ASSUME NEW t \in Task, Contained(t)
    PROVE  /\ Container(t) \in Task
           /\ Container(t).op = Parent[t.op]
           /\ Container(t).gen = t.gen
           /\ Container(t).try = 0
           /\ IsSubgraph(Container(t))
           /\ Container(t) # t
           /\ Contained(Container(t)) => /\ Container(Container(t)) \in Task
                                         /\ Container(Container(t)) # t
                                         /\ ~Contained(Container(Container(t)))
           /\ IsSubgraph(t) => ~Contained(Container(t))
<1>1. t.op \in Op /\ t.gen \in 0..MaxGen /\ Parent[t.op] \in Subgraph /\ Subgraph \subseteq Op
  BY TaskFields, WorkflowAssumption DEF Contained
<1>2. /\ Container(t) \in Task
      /\ Container(t).op = Parent[t.op]
      /\ Container(t).gen = t.gen
      /\ Container(t).try = 0
  BY <1>1, FirstTaskIsTask DEF Container
<1>3. IsSubgraph(Container(t))
  BY <1>1, <1>2 DEF IsSubgraph
<1>4. IsSubgraph(t) => Parent[t.op] # t.op /\ Parent[Parent[t.op]] = NoOp
  BY NestingAssumption DEF IsSubgraph, Contained
<1>5. Container(t) # t
  BY <1>2, <1>3, <1>4
<1>6. IsSubgraph(t) => ~Contained(Container(t))
  BY <1>2, <1>4 DEF Contained
<1>7. ASSUME Contained(Container(t))
      PROVE  /\ Container(Container(t)) \in Task
             /\ Container(Container(t)) # t
             /\ ~Contained(Container(Container(t)))
  <2>1. Parent[Parent[t.op]] # NoOp
    BY <1>2, <1>7 DEF Contained
  <2>2. Parent[Parent[Parent[t.op]]] = NoOp /\ Parent[Parent[t.op]] \in Op
    BY <1>1, <2>1, NestingAssumption, WorkflowAssumption
  <2>3. Container(Container(t)).op = Parent[Parent[t.op]] /\ Container(Container(t)) \in Task
    BY <1>1, <1>2, <2>2, FirstTaskIsTask DEF Container
  <2> QED
    BY <2>2, <2>3 DEF Contained
<1> QED
  BY <1>2, <1>3, <1>5, <1>6, <1>7

(* Every operation has one subgraph at top level, and what is inside that  *)
(* one shares it.                                                          *)
LEMMA RootShape ==
    ASSUME NEW o \in Op
    PROVE  /\ Root(o) \in Op /\ Parent[Root(o)] = NoOp
           /\ Parent[o] # NoOp => Parent[o] \in Op /\ Root(Parent[o]) = Root(o)
           /\ \A s \in Op : Parent[s] = NoOp /\ o \in Inside(s) =>
                 /\ Root(o) = s
                 /\ o # s => Parent[o] \in Inside(s)
<1>1. /\ Parent[o] # NoOp => Parent[o] \in Subgraph /\ Parent[o] \in Op
      /\ Parent[o] # NoOp /\ Parent[Parent[o]] # NoOp =>
             /\ Parent[Parent[o]] \in Op
             /\ Parent[Parent[Parent[o]]] = NoOp
  BY WorkflowAssumption, NestingAssumption
<1>2. Root(o) \in Op /\ Parent[Root(o)] = NoOp
  BY <1>1 DEF Root
<1>3. Parent[o] # NoOp => Root(Parent[o]) = Root(o)
  BY <1>1 DEF Root
<1>4. ASSUME NEW s \in Op, Parent[s] = NoOp, o \in Inside(s)
      PROVE  Root(o) = s /\ (o # s => Parent[o] \in Inside(s))
  BY <1>1, <1>4, WorkflowAssumption DEF Root, Inside
<1> QED
  BY <1>1, <1>2, <1>3, <1>4

-----------------------------------------------------------------------------
(* The invariant of the engine: what is in flight, the books of the       *)
(* subgraphs, and the task objects that are yet to be made.                *)

(* The tasks that the main loop still has anything to do with. *)
Alive == graph.tasks \cup waiting_for

(* A task object that was not made yet. *)
Fresh(t) == t \notin Alive /\ state[t] = "pending" /\ result[t] = "not_set"

(* What is in flight. The first four say that _ready and _waiting_for      *)
(* share what can run, and that a timer or a delivered result is of a task *)
(* in flight.                                                              *)
ReadyFree == ReadyIsFree(graph)

AppliedFree ==
    \A t \in waiting_for : t \notin graph.ready /\ graph.dependencies[t] = {}

NoneForgotten ==
    error # "crashed" => Free(graph) \subseteq graph.ready \cup waiting_for

InFlight ==
    /\ finished_tasks \subseteq waiting_for
    /\ timers \subseteq waiting_for \ finished_tasks
    /\ \A t \in waiting_for : Contained(t) \/ t \in graph.tasks
    /\ error = "crashed" => pc = "returned"

(* The state of a task is "pending" until it is applied and its timer ends. *)
PendingFirst ==
    /\ \A t \in graph.ready : state[t] = "pending"
    /\ \A t \in timers : state[t] = "pending" /\ ~IsSubgraph(t)
    /\ error # "crashed" => \A t \in graph.tasks \ waiting_for : state[t] = "pending"

SentInFlight ==
    \A t \in Task :
        /\ state[t] = "sent" => /\ t \in waiting_for \ (finished_tasks \cup timers)
                                /\ ~IsSubgraph(t)
        /\ state[t] = "started" => t \in waiting_for \ finished_tasks /\ IsSubgraph(t)

SubgraphStates ==
    \A s \in Task : IsSubgraph(s) =>
        /\ result[s] = "not_set"
        /\ state[s] \in {"pending", "started", "succeeded", "failed"}
        /\ s \in waiting_for => state[s] # "pending"
        /\ s \in Alive \/ state[s] # "pending" => s.try = 0

(* The outcome of a task that was delivered. *)
Fits(t, st, r) ==
    \/ IsSubgraph(t) /\ st \in {"succeeded", "failed"}
    \/ /\ ~IsSubgraph(t)
       /\ \/ st = "succeeded" /\ r \in {"value", "falsy"}
          \/ st = "failed" /\ r \in {"RecoverableError", "NonRecoverableError"}
          \/ st = "rescheduled" /\ r = "OperationRetry"

FinishedFits == \A t \in finished_tasks : Fits(t, state[t], result[t])

(* The books of the subgraphs: whatever is alive is listed in its          *)
(* container, and nothing else ever is.                                    *)
ListedAll == \A t \in Alive : Contained(t) => t \in subtasks[Container(t)]

ListsOwn == \A s \in Task : \A t \in subtasks[s] : Contained(t) /\ Container(t) = s

PendingLists ==
    \A s \in Task : IsSubgraph(s) /\ s.try = 0 /\ state[s] = "pending" =>
        subtasks[s] = TasksFor(Members(s.op), s.gen) /\ s \notin failed_task

(* A container starts before what is in it, which waits for it until then. *)
StartsFirst ==
    \A t \in Task : Contained(t) /\ (t \in waiting_for \/ state[t] # "pending") =>
        state[Container(t)] # "pending"

Held ==
    \A t \in graph.tasks : Contained(t) /\ state[Container(t)] = "pending" =>
        Container(t) \in graph.dependencies[t]

(* All that a subgraph lists is in the graph until it starts. *)
AllThere ==
    \A s \in graph.tasks : state[s] = "pending" => subtasks[s] \subseteq graph.tasks

(* What is yet to be made: later attempts, and later builds of a subgraph. *)
OneAttempt == \A t, u \in Alive : t.op = u.op /\ t.gen = u.gen => t = u

FreshTries ==
    \A t \in Alive : \A u \in Task :
        u.op = t.op /\ u.gen = t.gen /\ u.try > t.try => Fresh(u)

FreshBuilds ==
    \A s \in graph.tasks : \A u \in Task :
        IsSubgraph(s) /\ Root(u.op) = s.op /\ u.gen > s.gen => Fresh(u)

(* An author may make a subgraph wait for something in it: then it never   *)
(* starts, so it is never rebuilt.                                         *)
SelfNeed ==
    \A s \in graph.tasks : \A e \in Needs :
        /\ IsSubgraph(s) /\ ~Contained(s)
        /\ e[1] = s.op /\ e[2] \in Inside(s.op) \ {s.op}
        => s \notin waiting_for /\ FirstTask(e[2], s.gen) \in graph.dependencies[s]

FlightInv == /\ ReadyFree /\ AppliedFree /\ NoneForgotten
             /\ InFlight /\ PendingFirst /\ SentInFlight /\ SubgraphStates /\ FinishedFits
BooksInv == ListedAll /\ ListsOwn /\ PendingLists /\ StartsFirst /\ Held /\ AllThere
FreshInv == OneAttempt /\ FreshTries /\ FreshBuilds /\ SelfNeed
EngineInv == FlightInv /\ BooksInv /\ FreshInv

(* What is under a task, in the books, is what is nested in it. *)
LEMMA UnderShape ==
    ASSUME TypeOK, ListedAll, ListsOwn, NEW t \in Task
    PROVE  /\ \A u \in Under(t) : /\ u \in Task /\ u.gen = t.gen
                                  /\ u # t => /\ Contained(u)
                                              /\ Container(u) \in Under(t)
                                              /\ \/ Container(u) = t
                                                 \/ /\ Contained(Container(u))
                                                    /\ Container(Container(u)) = t
           /\ \A u \in Alive : Contained(u) /\ Container(u) \in Under(t) => u \in Under(t)
           /\ \A s \in Task : \A u \in subtasks[s] : u \in Under(t) /\ u # t => s \in Under(t)
           /\ ~IsSubgraph(t) => Under(t) = {t}
           /\ subtasks[t] = {} => Under(t) = {t}
<1>0. \A u \in Task : subtasks[u] \subseteq Task
  BY DEF TypeOK
<1>1. \A u \in Task : \A v \in subtasks[u] :
         v \in Task /\ Contained(v) /\ Container(v) = u /\ v.gen = u.gen
  BY <1>0, ContainerShape DEF ListsOwn
<1>2. \A u : u \in Under(t) <=> \/ u = t
                                \/ u \in subtasks[t]
                                \/ \E v \in subtasks[t] : u \in subtasks[v]
  BY DEF Under
<1>3. ASSUME NEW u \in Under(t)
      PROVE  /\ u \in Task /\ u.gen = t.gen
             /\ u # t => /\ Contained(u)
                         /\ Container(u) \in Under(t)
                         /\ \/ Container(u) = t
                            \/ /\ Contained(Container(u))
                               /\ Container(Container(u)) = t
  BY <1>0, <1>1, <1>2
<1>4. ASSUME NEW u \in Alive, Contained(u), Container(u) \in Under(t)
      PROVE  u \in Under(t)
  <2>1. u \in Task /\ u \in subtasks[Container(u)]
    BY <1>4 DEF ListedAll, TypeOK, GraphType, Alive
  <2>2. CASE Container(u) = t \/ Container(u) \in subtasks[t]
    BY <1>2, <2>1, <2>2
  <2>3. ASSUME NEW v \in subtasks[t], Container(u) \in subtasks[v]
        PROVE  FALSE
    <3>1. /\ Contained(Container(u)) /\ Container(Container(u)) = v
          /\ Contained(v)
      BY <1>1, <2>3
    <3> QED
      BY <1>4, <2>1, <3>1, ContainerShape
  <2> QED
    BY <1>2, <1>4, <2>2, <2>3
<1>5. ASSUME NEW s \in Task, NEW u \in subtasks[s], u \in Under(t), u # t
      PROVE  s \in Under(t)
  BY <1>1, <1>3, <1>5
<1>6. ASSUME ~IsSubgraph(t) PROVE subtasks[t] = {}
  BY <1>1, <1>6, ContainerShape
<1>7. subtasks[t] = {} => Under(t) = {t}
  BY DEF Under
<1> QED
  BY <1>3, <1>4, <1>5, <1>6, <1>7

(* Whether the author's code makes a task of o wait for one of p. *)
Linked(o, p) == <<o, p>> \in Needs \/ p = Parent[o]

(* The tasks of a build that the author's code makes the task of o wait for. *)
Wanted(o, O, n) == {FirstTask(p, n) : p \in {q \in O : Linked(o, q)}}

(* Which edges building a set of operations makes. *)
LEMMA EdgesForShape ==
    ASSUME NEW O \in SUBSET Op, NEW n \in 0..MaxGen, NEW t, NEW d
    PROVE  <<t, d>> \in EdgesFor(O, n) <=>
               \E o, p \in O : /\ t = FirstTask(o, n) /\ d = FirstTask(p, n)
                               /\ Linked(o, p)
<1>1. ASSUME <<t, d>> \in EdgesFor(O, n)
      PROVE  \E o, p \in O : /\ t = FirstTask(o, n) /\ d = FirstTask(p, n)
                             /\ Linked(o, p)
  <2>1. CASE \E e \in Needs \cap (O \X O) :
                 <<t, d>> = <<FirstTask(e[1], n), FirstTask(e[2], n)>>
    BY <2>1 DEF Linked
  <2>2. CASE \E o \in O : Parent[o] \in O /\
                 <<t, d>> = <<FirstTask(o, n), FirstTask(Parent[o], n)>>
    BY <2>2 DEF Linked
  <2> QED
    BY <1>1, <2>1, <2>2 DEF EdgesFor
<1>2. ASSUME NEW o \in O, NEW p \in O, t = FirstTask(o, n), d = FirstTask(p, n),
             Linked(o, p)
      PROVE  <<t, d>> \in EdgesFor(O, n)
  <2>1. CASE <<o, p>> \in Needs
    <3>1. <<o, p>> \in Needs \cap (O \X O)
      BY <2>1
    <3> QED
      BY <1>2, <3>1 DEF EdgesFor
  <2>2. CASE p = Parent[o]
    BY <1>2, <2>2 DEF EdgesFor
  <2> QED
    BY <1>2, <2>1, <2>2 DEF Linked
<1> QED
  BY <1>1, <1>2

(* Building a subgraph adds its tasks and the edges between them, and      *)
(* nothing else.                                                           *)
LEMMA BuildTight ==
    ASSUME NEW g, Consistent(g), NEW W \in SUBSET Task, Tight(g, W),
           NEW O \in SUBSET Op, NEW n \in 0..MaxGen,
           \A t \in TasksFor(O, n) : t \notin W /\ t \notin g.tasks
    PROVE  LET h == Build(g, O, n)
           IN  /\ Tight(h, W)
               /\ \A t \in Task \ TasksFor(O, n) : h.dependencies[t] = g.dependencies[t]
               /\ \A o, p \in O : o # p /\ Linked(o, p) =>
                      FirstTask(p, n) \in h.dependencies[FirstTask(o, n)]
               /\ \A o \in O : h.dependencies[FirstTask(o, n)] \subseteq Wanted(o, O, n)
<1> DEFINE a == AddTasks(g, TasksFor(O, n))
           h == AddDependencies(a, EdgesFor(O, n))
<1>0. \A t \in Task : t \notin g.tasks => g.dependencies[t] = {}
  BY DEF Consistent, EdgesInside, GraphType
<1>1. TasksFor(O, n) \in SUBSET Task
  BY FirstTaskIsTask DEF TasksFor
<1>2. /\ Consistent(a)
      /\ a.tasks = g.tasks \cup TasksFor(O, n)
      /\ a.dependencies = g.dependencies
      /\ Tight(a, W)
  BY <1>0, <1>1, AddTasksConsistent, AddTasksTight
<1>e. \A t, d : <<t, d>> \in EdgesFor(O, n) <=>
          \E o, p \in O : /\ t = FirstTask(o, n) /\ d = FirstTask(p, n)
                          /\ Linked(o, p)
  BY EdgesForShape
<1>3. \A t, d : <<t, d>> \in EdgesFor(O, n) => t \in TasksFor(O, n) /\ d \in TasksFor(O, n)
  <2>1. \A o \in O : FirstTask(o, n) \in TasksFor(O, n)
    BY DEF TasksFor
  <2>2. ASSUME NEW t, NEW d, <<t, d>> \in EdgesFor(O, n)
        PROVE  t \in TasksFor(O, n) /\ d \in TasksFor(O, n)
    <3>1. PICK o, p \in O : /\ t = FirstTask(o, n) /\ d = FirstTask(p, n)
                            /\ Linked(o, p)
      BY <1>e, <2>2
    <3> QED
      BY <2>1, <3>1
  <2> QED
    BY <2>2
<1>4. EdgesFor(O, n) \in SUBSET (a.tasks \X a.tasks)
  <2>1. \A e \in EdgesFor(O, n) : \E t, d : e = <<t, d>>
    BY DEF EdgesFor
  <2> QED
    BY <1>2, <1>3, <2>1
<1>5. \A t \in W : \A d \in Task : <<t, d>> \notin EdgesFor(O, n)
  BY <1>3
<1> HIDE DEF a
<1>6. /\ Consistent(h)
      /\ Tight(h, W)
      /\ \A t, d \in Task : d \in h.dependencies[t] <=>
             d \in a.dependencies[t] \/ (d # t /\ <<t, d>> \in EdgesFor(O, n))
  BY <1>2, <1>4, <1>5, AddDependenciesTight, AddDependenciesConsistent
<1>7. h = Build(g, O, n)
  BY DEF Build, a
<1> HIDE DEF h
<1>8. \A t \in Task : h.dependencies[t] \subseteq Task /\ g.dependencies[t] \subseteq Task
  BY <1>6 DEF Consistent, GraphType
<1>9. ASSUME NEW t \in Task \ TasksFor(O, n) PROVE h.dependencies[t] = g.dependencies[t]
  BY <1>2, <1>3, <1>6, <1>8
<1>10. ASSUME NEW o \in O, NEW p \in O, o # p, Linked(o, p)
       PROVE  FirstTask(p, n) \in h.dependencies[FirstTask(o, n)]
  <2>1. /\ FirstTask(o, n) \in Task /\ FirstTask(p, n) \in Task
        /\ FirstTask(p, n) # FirstTask(o, n)
    BY <1>10, FirstTaskIsTask
  <2>2. <<FirstTask(o, n), FirstTask(p, n)>> \in EdgesFor(O, n)
    BY <1>10, <1>e
  <2> QED
    BY <1>6, <2>1, <2>2
<1>11. ASSUME NEW o \in O, NEW d \in h.dependencies[FirstTask(o, n)]
       PROVE  d \in Wanted(o, O, n)
  <2>1. /\ FirstTask(o, n) \in Task /\ FirstTask(o, n) \in TasksFor(O, n)
        /\ FirstTask(o, n).op = o
        /\ d \in Task
    BY <1>8, FirstTaskIsTask DEF TasksFor
  <2>2. <<FirstTask(o, n), d>> \in EdgesFor(O, n)
    BY <1>0, <1>2, <1>6, <1>11, <2>1
  <2>5. \E q, p \in O : /\ FirstTask(o, n) = FirstTask(q, n) /\ d = FirstTask(p, n)
                        /\ Linked(q, p)
    BY <2>2, <1>e
  <2>3. PICK q, p \in O : /\ FirstTask(o, n) = FirstTask(q, n) /\ d = FirstTask(p, n)
                          /\ Linked(q, p)
    BY <2>5
  <2>4. q = o
    BY <2>1, <2>3, FirstTaskIsTask
  <2> QED
    BY <2>3, <2>4 DEF Wanted
<1> QED
  BY <1>6, <1>7, <1>9, <1>10, <1>11

-----------------------------------------------------------------------------
(* The invariant holds at first, and each action keeps it *)

LEMMA InitEngine == Init => EngineInv
<1> SUFFICES ASSUME Init PROVE EngineInv
  OBVIOUS
<1>0. ConsistencyInv
  BY InitConsistency
<1>1. 0 \in 0..MaxGen /\ Op \in SUBSET Op
  BY BoundAssumption
<1>2. /\ Consistent(EmptyGraph) /\ Tight(EmptyGraph, {})
      /\ EmptyGraph.tasks = {}
      /\ {} \in SUBSET Task
  BY EmptyGraphConsistent, EmptyGraphTight DEF EmptyGraph
<1>3. graph = Build(EmptyGraph, Op, 0)
  BY DEF Init
<1>4. graph.tasks = TasksFor(Op, 0)
  <2>1. Build(EmptyGraph, Op, 0).tasks = EmptyGraph.tasks \cup TasksFor(Op, 0)
    BY <1>1, <1>2, BuildConsistent
  <2> QED
    BY <1>2, <1>3, <2>1
<1>5. /\ Tight(graph, {})
      /\ \A o, p \in Op : o # p /\ Linked(o, p) =>
             FirstTask(p, 0) \in graph.dependencies[FirstTask(o, 0)]
  BY <1>1, <1>2, <1>3, BuildTight
<1>6. /\ \A t \in graph.tasks : /\ t \in Task /\ t.gen = 0 /\ t.try = 0 /\ t.op \in Op
                                /\ t = FirstTask(t.op, 0)
      /\ graph.tasks \subseteq Task
      /\ \A o \in Op : FirstTask(o, 0) \in graph.tasks
  BY <1>1, <1>4, FirstTaskIsTask DEF TasksFor
<1>7. /\ waiting_for = {} /\ finished_tasks = {} /\ timers = {} /\ failed_task = {}
      /\ error = "none" /\ pc = "check"
      /\ \A t \in Task : state[t] = "pending" /\ result[t] = "not_set"
      /\ \A t \in Task : subtasks[t] = IF IsSubgraph(t) /\ t.try = 0
                                       THEN TasksFor(Members(t.op), t.gen) ELSE {}
  BY DEF Init
<1>8. FlightInv
  <2>1. graph.ready \subseteq graph.tasks
    BY <1>5 DEF Tight, ReadyIsFree
  <2>2. \A t \in Task : t \in Alive => t.try = 0
    BY <1>6, <1>7 DEF Alive
  <2> QED
    BY <1>5, <1>6, <1>7, <2>1, <2>2
    DEF FlightInv, ReadyFree, AppliedFree, NoneForgotten, InFlight, PendingFirst,
        SentInFlight, SubgraphStates, FinishedFits, Tight
<1>9. BooksInv
  <2>1. ASSUME NEW s \in Task, NEW t \in subtasks[s] PROVE Contained(t) /\ Container(t) = s
    <3>1. /\ IsSubgraph(s) /\ s.try = 0 /\ t \in TasksFor(Members(s.op), s.gen)
          /\ s.op \in Op /\ s.gen \in 0..MaxGen
      BY <1>7, <2>1, TaskFields
    <3>2. PICK o \in Members(s.op) : t = FirstTask(o, s.gen)
      BY <3>1 DEF TasksFor
    <3>3. o \in Op /\ Parent[o] = s.op
      BY <3>2 DEF Members
    <3>4. t.op = o /\ t.gen = s.gen
      BY <3>1, <3>2, <3>3, FirstTaskIsTask
    <3>5. s = FirstTask(s.op, s.gen)
      BY <3>1, TaskAssumption DEF FirstTask
    <3> QED
      BY <3>1, <3>3, <3>4, <3>5, WorkflowAssumption DEF Contained, Container
  <2>2. ASSUME NEW t \in graph.tasks, Contained(t)
        PROVE  /\ t \in subtasks[Container(t)]
               /\ Container(t) \in graph.dependencies[t]
    <3>1. /\ Container(t) \in Task /\ IsSubgraph(Container(t)) /\ Container(t).try = 0
          /\ Container(t).op = Parent[t.op] /\ Container(t).gen = t.gen
      BY <1>6, <2>2, ContainerShape
    <3>2. t \in TasksFor(Members(Parent[t.op]), t.gen)
      BY <1>6 DEF TasksFor, Members
    <3>3. Parent[t.op] \in Op /\ t.op # Parent[t.op]
      BY <1>6, <2>2, <3>1, TaskFields, ContainerShape, NestingAssumption, WorkflowAssumption
      DEF IsSubgraph, Contained
    <3>4. Container(t) \in graph.dependencies[t]
      BY <1>5, <1>6, <3>3 DEF Linked, Container
    <3> QED
      BY <1>7, <3>1, <3>2, <3>4
  <2>3. ASSUME NEW s \in graph.tasks, NEW t \in subtasks[s] PROVE t \in graph.tasks
    <3>1. s \in Task /\ s.gen = 0
      BY <1>6
    <3>2. t \in TasksFor(Members(s.op), 0)
      BY <1>7, <2>3, <3>1
    <3>3. PICK o \in Members(s.op) : t = FirstTask(o, 0)
      BY <3>2 DEF TasksFor
    <3> QED
      BY <1>6, <3>3 DEF Members
  <2> QED
    BY <1>6, <1>7, <2>1, <2>2, <2>3
    DEF BooksInv, ListedAll, ListsOwn, PendingLists, StartsFirst, Held, AllThere, Alive
<1>10. FreshInv
  <2>1. OneAttempt
    BY <1>6, <1>7 DEF OneAttempt, Alive
  <2>2. \A u \in Task : u.try > 0 \/ u.gen > 0 => Fresh(u)
    BY <1>6, <1>7, TaskFields DEF Fresh, Alive
  <2>3. FreshTries /\ FreshBuilds
    BY <1>6, <1>7, <2>2 DEF FreshTries, FreshBuilds, Alive
  <2>4. SelfNeed
    <3>1. ASSUME NEW s \in graph.tasks, NEW e \in Needs, e[1] = s.op,
                 e[2] \in Inside(s.op) \ {s.op}
          PROVE  FirstTask(e[2], s.gen) \in graph.dependencies[s]
      <4>1. e[1] \in Op /\ e[2] \in Op /\ e = <<e[1], e[2]>>
        BY WorkflowAssumption
      <4> QED
        BY <1>5, <1>6, <3>1, <4>1 DEF Linked
    <3> QED
      BY <1>7, <3>1 DEF SelfNeed
  <2> QED
    BY <2>1, <2>3, <2>4 DEF FreshInv
<1> QED
  BY <1>8, <1>9, <1>10 DEF EngineInv

(* The steps that change none of the tasks. *)
LEMMA QuietKeeps ==
    ASSUME EngineInv,
           UNCHANGED <<graph, waiting_for, finished_tasks, state, result, subtasks,
                       failed_task, timers>>,
           error = "crashed" => error' = "crashed",
           error' = "crashed" => pc' = "returned"
    PROVE  EngineInv'
<1>1. FlightInv'
  <2>1. ReadyFree' /\ AppliedFree' /\ NoneForgotten'
    BY DEF EngineInv, FlightInv, ReadyFree, ReadyIsFree, AppliedFree, NoneForgotten, Free
  <2>2. InFlight' /\ PendingFirst' /\ SentInFlight'
    BY DEF EngineInv, FlightInv, InFlight, PendingFirst, SentInFlight, IsSubgraph, Contained
  <2>3. SubgraphStates' /\ FinishedFits'
    BY DEF EngineInv, FlightInv, SubgraphStates, FinishedFits, Fits, IsSubgraph, Alive
  <2> QED
    BY <2>1, <2>2, <2>3 DEF FlightInv
<1>2. BooksInv'
  BY DEF EngineInv, BooksInv, ListedAll, ListsOwn, PendingLists, StartsFirst, Held,
         AllThere, Alive
<1>3. FreshInv'
  BY DEF EngineInv, FreshInv, OneAttempt, FreshTries, FreshBuilds, SelfNeed, Alive, Fresh
<1> QED
  BY <1>1, <1>2, <1>3 DEF EngineInv

(* An operation's task is applied, or changes its own state only. *)
LEMMA TouchKeeps ==
    ASSUME TypeOK, EngineInv, NEW t \in Task, t \in Alive, ~IsSubgraph(t),
           Contained(t) => state[Container(t)] # "pending",
           graph'.tasks = graph.tasks, graph'.dependencies = graph.dependencies,
           waiting_for' = waiting_for \cup {t},
           UNCHANGED <<subtasks, failed_task>>,
           \A u \in Task : u # t => state'[u] = state[u] /\ result'[u] = result[u]
    PROVE  BooksInv' /\ FreshInv'
<1>0. Alive' = Alive /\ Alive \subseteq Task
  BY DEF Alive, TypeOK, GraphType
<1>1. subtasks[t] = {}
  BY ContainerShape DEF EngineInv, BooksInv, ListsOwn, TypeOK
<1>2. \A u \in Task : Contained(u) => Container(u) \in Task /\ Container(u) # t
  BY ContainerShape
<1>3. BooksInv'
  <2>1. ListedAll' /\ ListsOwn'
    BY <1>0 DEF EngineInv, BooksInv, ListedAll, ListsOwn
  <2>2. PendingLists'
    BY DEF EngineInv, BooksInv, PendingLists, IsSubgraph
  <2>3. StartsFirst'
    BY <1>2 DEF EngineInv, BooksInv, StartsFirst
  <2>4. Held'
    <3>1. graph.tasks \subseteq Task
      BY DEF TypeOK, GraphType
    <3> QED
      BY <1>2, <3>1 DEF EngineInv, BooksInv, Held
  <2>5. AllThere'
    <3>1. graph.tasks \subseteq Task
      BY DEF TypeOK, GraphType
    <3> QED
      BY <1>1, <3>1 DEF EngineInv, BooksInv, AllThere
  <2> QED
    BY <2>1, <2>2, <2>3, <2>4, <2>5 DEF BooksInv
<1>4. FreshInv'
  <2>1. \A u \in Task : Fresh(u) => Fresh(u)'
    BY <1>0 DEF Fresh
  <2>2. OneAttempt'
    BY <1>0 DEF EngineInv, FreshInv, OneAttempt
  <2>3. FreshTries' /\ FreshBuilds'
    BY <1>0, <2>1 DEF EngineInv, FreshInv, FreshTries, FreshBuilds
  <2>4. SelfNeed'
    BY DEF EngineInv, FreshInv, SelfNeed
  <2> QED
    BY <2>2, <2>3, <2>4 DEF FreshInv
<1> QED
  BY <1>3, <1>4

(* apply_async leaves its task sent, or ends it with a result that fits. *)
LEMMA SendEffect ==
    ASSUME TypeOK, NEW t \in Task, ~IsSubgraph(t), Send(t)
    PROVE  /\ \A u \in Task : u # t => state'[u] = state[u] /\ result'[u] = result[u]
           /\ \/ /\ state'[t] = "sent"
                 /\ UNCHANGED <<result, finished_tasks>>
              \/ /\ state'[t] \in {"failed", "succeeded"}
                 /\ Fits(t, state'[t], result'[t])
                 /\ finished_tasks' = finished_tasks \cup {t}
<1>1. CASE state' = [state EXCEPT ![t] = "sent"] /\ UNCHANGED <<result, finished_tasks>>
  BY <1>1 DEF TypeOK
<1>2. CASE \E e \in {"RecoverableError", "NonRecoverableError"} : Settle(t, "failed", e)
  BY <1>2 DEF Settle, Fits, TypeOK
<1>3. CASE Settle(t, "succeeded", "value")
  BY <1>3 DEF Settle, Fits, TypeOK
<1> QED
  BY <1>1, <1>2, <1>3 DEF Send

(* An operation is applied: it is sent, or has an answer already, or waits *)
(* for its timer.                                                          *)
LEMMA ApplyKeeps ==
    ASSUME ConsistencyInv, EngineInv, NEW t \in Task, error # "crashed",
           t \in graph.ready, ~IsSubgraph(t),
           waiting_for' = waiting_for \cup {t},
           graph' = [graph EXCEPT !.ready = @ \ {t}],
           UNCHANGED <<error, pc, subtasks, failed_task>>,
           \A u \in Task : u # t => state'[u] = state[u] /\ result'[u] = result[u],
           \/ /\ timers' \subseteq timers \cup {t}
              /\ UNCHANGED <<state, result, finished_tasks>>
           \/ /\ timers' = timers
              /\ \/ /\ state'[t] = "sent"
                    /\ UNCHANGED <<result, finished_tasks>>
                 \/ /\ state'[t] \in {"failed", "succeeded", "rescheduled"}
                    /\ Fits(t, state'[t], result'[t])
                    /\ finished_tasks' = finished_tasks \cup {t}
    PROVE  EngineInv'
<1>0. TypeOK /\ Consistent(graph)
  BY DEF ConsistencyInv
<1>1. /\ error # "crashed" /\ error' = error /\ pc' = pc
      /\ t \in graph.ready /\ ~IsSubgraph(t)
      /\ waiting_for' = waiting_for \cup {t}
      /\ graph' = [graph EXCEPT !.ready = @ \ {t}]
      /\ UNCHANGED <<subtasks, failed_task>>
  OBVIOUS
<1>2. /\ graph'.tasks = graph.tasks /\ graph'.dependencies = graph.dependencies
      /\ graph'.ready = graph.ready \ {t}
      /\ t \in graph.tasks /\ graph.dependencies[t] = {}
      /\ state[t] = "pending" /\ t \notin waiting_for
  BY <1>0, <1>1 DEF Consistent, GraphType, EngineInv, FlightInv, ReadyFree, ReadyIsFree,
                    PendingFirst, AppliedFree
<1>3. \/ /\ timers' \subseteq timers \cup {t}
         /\ UNCHANGED <<state, result, finished_tasks>>
      \/ /\ timers' = timers
         /\ \/ /\ state'[t] = "sent"
               /\ UNCHANGED <<result, finished_tasks>>
            \/ /\ state'[t] \in {"failed", "succeeded", "rescheduled"}
               /\ Fits(t, state'[t], result'[t])
               /\ finished_tasks' = finished_tasks \cup {t}
  OBVIOUS
<1>4. \A u \in Task : u # t => state'[u] = state[u] /\ result'[u] = result[u]
  OBVIOUS
<1>5. Contained(t) => state[Container(t)] # "pending"
  BY <1>2 DEF EngineInv, BooksInv, Held
<1>6. BooksInv' /\ FreshInv'
  BY <1>0, <1>1, <1>2, <1>4, <1>5, TouchKeeps DEF Alive
<1>7. Tight(graph, waiting_for) /\ waiting_for \in SUBSET Task
  BY <1>0, <1>1 DEF EngineInv, FlightInv, ReadyFree, AppliedFree, NoneForgotten, Tight, TypeOK
<1>8. Tight(graph', waiting_for')
  BY <1>0, <1>1, <1>7, PopTight
<1>9. FlightInv'
  <2>1. ReadyFree' /\ AppliedFree' /\ NoneForgotten'
    BY <1>8 DEF ReadyFree, AppliedFree, NoneForgotten, Tight, ReadyIsFree, Free
  <2>2. timers \subseteq waiting_for /\ finished_tasks \subseteq waiting_for
        /\ graph.ready \subseteq Task /\ waiting_for \subseteq Task /\ graph.tasks \subseteq Task
    BY <1>0 DEF EngineInv, FlightInv, InFlight, TypeOK, GraphType
  <2>3. InFlight'
    BY <1>1, <1>2, <1>3, <2>2 DEF EngineInv, FlightInv, InFlight
  <2>4. PendingFirst'
    BY <1>1, <1>2, <1>3, <1>4, <2>2 DEF EngineInv, FlightInv, PendingFirst
  <2>5. SentInFlight'
    BY <1>1, <1>2, <1>3, <1>4, <2>2 DEF EngineInv, FlightInv, SentInFlight, Fits
  <2>6. SubgraphStates'
    BY <1>1, <1>2, <1>4 DEF EngineInv, FlightInv, SubgraphStates, Alive
  <2>7. FinishedFits'
    BY <1>1, <1>2, <1>3, <1>4, <2>2 DEF EngineInv, FlightInv, FinishedFits, Fits
  <2> QED
    BY <2>1, <2>3, <2>4, <2>5, <2>6, <2>7 DEF FlightInv
<1> QED
  BY <1>6, <1>9 DEF EngineInv

LEMMA RunOperationKeeps ==
    ASSUME ConsistencyInv, EngineInv, NEW t \in Task, RunOperation(t)
    PROVE  EngineInv'
<1>1. /\ error # "crashed" /\ TypeOK
      /\ t \in graph.ready /\ ~IsSubgraph(t)
      /\ waiting_for' = waiting_for \cup {t}
      /\ graph' = [graph EXCEPT !.ready = @ \ {t}]
      /\ UNCHANGED <<error, pc, subtasks, failed_task>>
  BY DEF RunOperation, ConsistencyInv
<1>2. \/ /\ timers' \subseteq timers \cup {t}
         /\ UNCHANGED <<state, result, finished_tasks>>
      \/ /\ timers' = timers
         /\ \/ /\ state'[t] = "sent"
               /\ UNCHANGED <<result, finished_tasks>>
            \/ /\ state'[t] \in {"failed", "succeeded"}
               /\ Fits(t, state'[t], result'[t])
               /\ finished_tasks' = finished_tasks \cup {t}
  BY <1>1, SendEffect DEF RunOperation
<1>3. \A u \in Task : u # t => state'[u] = state[u] /\ result'[u] = result[u]
  BY <1>1, SendEffect DEF RunOperation
<1> QED
  BY <1>1, <1>2, <1>3, ApplyKeeps

(* What an agent answers fits. *)
LEMMA AnswerFits ==
    ASSUME NEW t \in Task, ~IsSubgraph(t), NEW r \in Outcome[t.op]
    PROVE  /\ StateFor(r) \in {"failed", "succeeded", "rescheduled"}
           /\ Fits(t, StateFor(r), r)
<1>1. r \in {"value", "falsy", "OperationRetry", "RecoverableError", "NonRecoverableError"}
  BY TaskFields, WorkflowAssumption DEF Result, Failure
<1> QED
  BY <1>1 DEF StateFor, Failure, Fits

LEMMA HastyShape ==
    ASSUME NEW t \in Task, MayDouble(t)
    PROVE  ~IsSubgraph(t)
BY WorkflowAssumption DEF MayDouble, IsSubgraph

LEMMA AnswerAtOnceEffect ==
    ASSUME TypeOK, NEW t \in Task, AnswerAtOnce(t)
    PROVE  /\ ~IsSubgraph(t)
           /\ \A u \in Task : u # t => state'[u] = state[u] /\ result'[u] = result[u]
           /\ state'[t] \in {"failed", "succeeded", "rescheduled"}
           /\ Fits(t, state'[t], result'[t])
           /\ finished_tasks' = finished_tasks \cup {t}
<1>1. ~IsSubgraph(t)
  BY HastyShape DEF AnswerAtOnce
<1>2. PICK r \in Outcome[t.op] : Settle(t, StateFor(r), r)
  BY DEF AnswerAtOnce
<1>3. /\ \A u \in Task : u # t => state'[u] = state[u] /\ result'[u] = result[u]
      /\ state'[t] = StateFor(r) /\ result'[t] = r
      /\ finished_tasks' = finished_tasks \cup {t}
  BY <1>2 DEF Settle, TypeOK
<1> QED
  BY <1>1, <1>3, AnswerFits

LEMMA AnswerAtOnceKeeps ==
    ASSUME ConsistencyInv, EngineInv, NEW t \in Task, AnswerAtOnce(t)
    PROVE  EngineInv'
<1>1. /\ error # "crashed" /\ TypeOK
      /\ t \in graph.ready
      /\ waiting_for' = waiting_for \cup {t}
      /\ graph' = [graph EXCEPT !.ready = @ \ {t}]
      /\ UNCHANGED <<error, pc, subtasks, failed_task, timers>>
  BY DEF AnswerAtOnce, ConsistencyInv
<1> QED
  BY <1>1, AnswerAtOnceEffect, ApplyKeeps

(* An answer or a timer changes the state of its own task at most, and     *)
(* delivers a result that fits the new state.                              *)
LEMMA DeliverKeeps ==
    ASSUME ConsistencyInv, EngineInv, error # "crashed",
           NEW t \in Task, t \in waiting_for \ finished_tasks, ~IsSubgraph(t),
           UNCHANGED <<graph, waiting_for, error, pc, subtasks, failed_task>>,
           timers' = timers \ {t},
           \A u \in Task : u # t => state'[u] = state[u] /\ result'[u] = result[u],
           \/ UNCHANGED <<state, result, finished_tasks>>
           \/ /\ state'[t] = "sent"
              /\ UNCHANGED <<result, finished_tasks>>
           \/ /\ state'[t] \in {"failed", "succeeded", "rescheduled"}
              /\ Fits(t, state'[t], result'[t])
              /\ finished_tasks' = finished_tasks \cup {t}
    PROVE  EngineInv'
<1>0. /\ TypeOK /\ Consistent(graph)
      /\ graph.ready \subseteq Task /\ waiting_for \subseteq Task /\ graph.tasks \subseteq Task
      /\ timers \subseteq waiting_for /\ finished_tasks \subseteq waiting_for
  BY DEF ConsistencyInv, EngineInv, FlightInv, InFlight, TypeOK, GraphType
<1>1. t \notin graph.ready /\ waiting_for' = waiting_for \cup {t}
  BY DEF EngineInv, FlightInv, AppliedFree
<1>2. Contained(t) => state[Container(t)] # "pending"
  BY DEF EngineInv, BooksInv, StartsFirst
<1>3. BooksInv' /\ FreshInv'
  BY <1>0, <1>1, <1>2, TouchKeeps DEF Alive
<1>4. FlightInv'
  <2>1. ReadyFree' /\ AppliedFree' /\ NoneForgotten'
    BY DEF EngineInv, FlightInv, ReadyFree, AppliedFree, NoneForgotten, ReadyIsFree, Free
  <2>2. InFlight'
    BY <1>0 DEF EngineInv, FlightInv, InFlight
  <2>3. PendingFirst'
    BY <1>0, <1>1 DEF EngineInv, FlightInv, PendingFirst
  <2>4. SentInFlight'
    BY <1>0, <1>1 DEF EngineInv, FlightInv, SentInFlight, Fits
  <2>5. SubgraphStates'
    BY DEF EngineInv, FlightInv, SubgraphStates, Alive
  <2>6. FinishedFits'
    BY <1>0 DEF EngineInv, FlightInv, FinishedFits, Fits
  <2> QED
    BY <2>1, <2>2, <2>3, <2>4, <2>5, <2>6 DEF FlightInv
<1> QED
  BY <1>3, <1>4 DEF EngineInv

LEMMA FinishKeeps ==
    ASSUME ConsistencyInv, EngineInv, NEW t \in Task, Finish(t)
    PROVE  EngineInv'
<1>1. PICK r \in Outcome[t.op] : Settle(t, StateFor(r), r)
  BY DEF Finish
<1>3. /\ t \in waiting_for \ (finished_tasks \cup timers) /\ ~IsSubgraph(t)
      /\ error # "crashed"
  BY DEF Finish, EngineInv, FlightInv, SentInFlight, InFlight
<1>4. /\ StateFor(r) \in {"failed", "succeeded", "rescheduled"}
      /\ Fits(t, StateFor(r), r)
  BY <1>3, AnswerFits
<1>5. /\ \A u \in Task : u # t => state'[u] = state[u] /\ result'[u] = result[u]
      /\ state'[t] = StateFor(r) /\ result'[t] = r
      /\ finished_tasks' = finished_tasks \cup {t}
  BY <1>1 DEF Settle, ConsistencyInv, TypeOK
<1> QED
  BY <1>3, <1>4, <1>5, DeliverKeeps DEF Finish

LEMMA TimerFiresKeeps ==
    ASSUME ConsistencyInv, EngineInv, NEW t \in Task, TimerFires(t)
    PROVE  EngineInv'
<1>1. /\ t \in waiting_for \ finished_tasks /\ ~IsSubgraph(t)
      /\ error # "crashed"
  BY DEF TimerFires, EngineInv, FlightInv, PendingFirst, InFlight
<1>2. /\ \A u \in Task : u # t => state'[u] = state[u] /\ result'[u] = result[u]
      /\ \/ UNCHANGED <<state, result, finished_tasks>>
         \/ /\ state'[t] = "sent"
            /\ UNCHANGED <<result, finished_tasks>>
         \/ /\ state'[t] \in {"failed", "succeeded"}
            /\ Fits(t, state'[t], result'[t])
            /\ finished_tasks' = finished_tasks \cup {t}
  BY <1>1, SendEffect DEF TimerFires, ConsistencyInv
<1> QED
  BY <1>1, <1>2, DeliverKeeps DEF TimerFires

LEMMA RunSubgraphKeeps ==
    ASSUME ConsistencyInv, EngineInv, NEW s \in Task, RunSubgraph(s)
    PROVE  EngineInv'
<1> DEFINE popped == [graph EXCEPT !.ready = @ \ {s}]
<1>0. /\ TypeOK /\ Consistent(graph)
      /\ graph.ready \subseteq Task /\ waiting_for \subseteq Task /\ graph.tasks \subseteq Task
      /\ timers \subseteq waiting_for /\ finished_tasks \subseteq waiting_for
      /\ \A u \in Task : subtasks[u] \subseteq Task
  BY DEF ConsistencyInv, EngineInv, FlightInv, InFlight, TypeOK, GraphType
<1>1. /\ error # "crashed" /\ error' = error /\ pc' = pc
      /\ s \in graph.ready /\ IsSubgraph(s)
      /\ waiting_for' = waiting_for \cup {s}
      /\ graph' = ReleaseFrom(popped, s, subtasks[s])
      /\ UNCHANGED <<result, timers, subtasks, failed_task>>
  BY DEF RunSubgraph
<1>2. /\ s \in graph.tasks /\ graph.dependencies[s] = {}
      /\ state[s] = "pending" /\ s \notin waiting_for
  BY <1>1 DEF EngineInv, FlightInv, ReadyFree, ReadyIsFree, PendingFirst, AppliedFree
<1>3. /\ \A u \in Task : u # s => state'[u] = state[u]
      /\ \/ /\ subtasks[s] = {} /\ state'[s] = "succeeded"
            /\ finished_tasks' = finished_tasks \cup {s}
         \/ /\ subtasks[s] # {} /\ state'[s] = "started"
            /\ finished_tasks' = finished_tasks
  BY <1>0 DEF RunSubgraph, TypeOK
<1>4. /\ subtasks[s] \subseteq graph.tasks
      /\ \A u \in subtasks[s] : Contained(u) /\ Container(u) = s /\ u # s
      /\ subtasks[s] \cap (waiting_for \cup {s}) = {}
  <2>1. subtasks[s] \subseteq graph.tasks
    BY <1>2 DEF EngineInv, BooksInv, AllThere
  <2>2. \A u \in subtasks[s] : Contained(u) /\ Container(u) = s /\ u # s
    BY <1>0, ContainerShape DEF EngineInv, BooksInv, ListsOwn
  <2> QED
    BY <1>0, <1>2, <2>1, <2>2 DEF EngineInv, BooksInv, StartsFirst
<1>5. /\ Consistent(popped) /\ Tight(popped, waiting_for \cup {s})
      /\ popped.tasks = graph.tasks /\ popped.dependencies = graph.dependencies
  <2>1. Tight(graph, waiting_for) /\ waiting_for \in SUBSET Task
    BY <1>0, <1>1 DEF EngineInv, FlightInv, ReadyFree, AppliedFree, NoneForgotten, Tight
  <2> QED
    <3>1. popped.tasks = graph.tasks /\ popped.dependencies = graph.dependencies
      BY <1>0 DEF Consistent, GraphType
    <3>2. Consistent(popped)
      BY <1>0, PopConsistent
    <3>3. Tight(popped, waiting_for \cup {s})
      BY <1>0, <1>1, <2>1, PopTight
    <3> QED
      BY <3>1, <3>2, <3>3
<1> HIDE DEF popped
<1>6. /\ Tight(graph', waiting_for') /\ graph'.tasks = graph.tasks
      /\ graph'.ready \subseteq Task
      /\ \A u \in Task : graph'.dependencies[u] =
             IF u \in subtasks[s] THEN graph.dependencies[u] \ {s} ELSE graph.dependencies[u]
  <2>1. waiting_for \cup {s} \in SUBSET Task /\ subtasks[s] \in SUBSET popped.tasks
    BY <1>0, <1>4, <1>5
  <2>2. Consistent(graph')
    BY <1>0, <1>1, <1>5, ReleaseFromConsistent
  <2> QED
    <3>1. graph'.tasks = graph.tasks
      BY <1>0, <1>1, <1>5, ReleaseFromConsistent
    <3>2. graph'.ready \subseteq Task
      BY <2>2 DEF Consistent, GraphType
    <3>3. /\ Tight(graph', waiting_for')
          /\ \A u \in Task : graph'.dependencies[u] =
                 IF u \in subtasks[s] THEN popped.dependencies[u] \ {s}
                 ELSE popped.dependencies[u]
      BY <1>1, <1>4, <1>5, <2>1, ReleaseFromTight
    <3> QED
      BY <1>5, <3>1, <3>2, <3>3
<1>7. FlightInv'
  <2>1. ReadyFree' /\ AppliedFree' /\ NoneForgotten'
    BY <1>6 DEF ReadyFree, AppliedFree, NoneForgotten, Tight, ReadyIsFree, Free
  <2>2. InFlight'
    BY <1>0, <1>1, <1>2, <1>3, <1>6 DEF EngineInv, FlightInv, InFlight
  <2>3. PendingFirst'
    <3>1. \A u \in graph'.ready : u \in graph.tasks \ (waiting_for \cup {s})
      BY <1>0, <1>1, <1>6 DEF Tight, ReadyIsFree
    <3> QED
      BY <1>0, <1>1, <1>2, <1>3, <1>6, <3>1 DEF EngineInv, FlightInv, PendingFirst
  <2>4. SentInFlight'
    BY <1>0, <1>1, <1>2, <1>3 DEF EngineInv, FlightInv, SentInFlight
  <2>5. SubgraphStates'
    BY <1>0, <1>1, <1>2, <1>3, <1>6 DEF EngineInv, FlightInv, SubgraphStates, Alive
  <2>6. FinishedFits'
    BY <1>0, <1>1, <1>2, <1>3 DEF EngineInv, FlightInv, FinishedFits, Fits
  <2> QED
    BY <2>1, <2>2, <2>3, <2>4, <2>5, <2>6 DEF FlightInv
<1>8. Alive' = Alive /\ s \in Alive /\ Alive \subseteq Task
  BY <1>0, <1>1, <1>2, <1>6 DEF Alive
<1>9. BooksInv'
  <2>1. ListedAll' /\ ListsOwn'
    BY <1>1, <1>8 DEF EngineInv, BooksInv, ListedAll, ListsOwn
  <2>2. PendingLists'
    BY <1>1, <1>3 DEF EngineInv, BooksInv, PendingLists
  <2>3. StartsFirst'
    <3>1. Contained(s) => state[Container(s)] # "pending"
      BY <1>2 DEF EngineInv, BooksInv, Held
    <3> QED
      BY <1>1, <1>3, <3>1, ContainerShape DEF EngineInv, BooksInv, StartsFirst
  <2>4. Held'
    BY <1>0, <1>3, <1>6, ContainerShape DEF EngineInv, BooksInv, Held
  <2>5. AllThere'
    BY <1>0, <1>1, <1>3, <1>6 DEF EngineInv, BooksInv, AllThere
  <2> QED
    BY <2>1, <2>2, <2>3, <2>4, <2>5 DEF BooksInv
<1>10. FreshInv'
  <2>1. \A u \in Task : Fresh(u) => Fresh(u)'
    BY <1>1, <1>3, <1>8 DEF Fresh
  <2>2. OneAttempt'
    BY <1>8 DEF EngineInv, FreshInv, OneAttempt
  <2>3. FreshTries' /\ FreshBuilds'
    BY <1>6, <1>8, <2>1 DEF EngineInv, FreshInv, FreshTries, FreshBuilds
  <2>4. SelfNeed'
    BY <1>0, <1>1, <1>2, <1>4, <1>6, ZenonT(60) DEF EngineInv, FreshInv, SelfNeed
  <2> QED
    BY <2>2, <2>3, <2>4 DEF FreshInv
<1> QED
  BY <1>7, <1>9, <1>10 DEF EngineInv

(* A first attempt of what is inside a subgraph is in it or in one of its  *)
(* subgraphs.                                                              *)
LEMMA InsideShape ==
    ASSUME NEW s \in Task, ~Contained(s), s.try = 0,
           NEW o \in Inside(s.op) \ {s.op}
    PROVE  LET t == FirstTask(o, s.gen)
           IN  /\ t \in Task /\ Contained(t)
               /\ \/ Container(t) = s
                  \/ Contained(Container(t)) /\ Container(Container(t)) = s
<1>1. /\ s.op \in Op /\ s.gen \in 0..MaxGen /\ o \in Op
      /\ Parent[s.op] = NoOp /\ s = FirstTask(s.op, s.gen)
  BY TaskFields, TaskAssumption DEF Inside, FirstTask, Contained
<1> DEFINE t == FirstTask(o, s.gen)
<1>2. t \in Task /\ t.op = o /\ t.gen = s.gen
  BY <1>1, FirstTaskIsTask
<1>3. CASE Parent[o] = s.op
  BY <1>1, <1>2, <1>3, WorkflowAssumption DEF Contained, Container
<1>4. CASE Parent[o] \in Subgraph /\ Parent[Parent[o]] = s.op
  <2>1. Parent[o] # NoOp /\ Parent[Parent[o]] # NoOp /\ Parent[o] \in Op
    BY <1>1, <1>4, WorkflowAssumption
  <2>2. Container(t).op = Parent[o] /\ Container(t).gen = s.gen
    BY <1>1, <1>2, <2>1, FirstTaskIsTask DEF Container
  <2> QED
    BY <1>1, <1>2, <1>4, <2>1, <2>2 DEF Contained, Container
<1> QED
  BY <1>2, <1>3, <1>4 DEF Inside

(* A subgraph that needs something in it is never applied, nor is that. *)
LEMMA NeededInside ==
    ASSUME TypeOK, EngineInv, error # "crashed",
           NEW s \in graph.tasks, NEW e \in Needs, IsSubgraph(s), ~Contained(s),
           e[1] = s.op, e[2] \in Inside(s.op) \ {s.op}
    PROVE  LET x == FirstTask(e[2], s.gen)
           IN  /\ s \notin waiting_for /\ x \in graph.dependencies[s]
               /\ x \in Task /\ x \notin waiting_for
               /\ Contained(x) /\ Container(x) \notin waiting_for
               /\ Container(x) = s \/ Container(Container(x)) = s
<1> DEFINE x == FirstTask(e[2], s.gen)
<1>1. s \in Task /\ s \notin waiting_for /\ x \in graph.dependencies[s]
  BY DEF EngineInv, FreshInv, SelfNeed, TypeOK, GraphType
<1>2. state[s] = "pending" /\ s.try = 0
  BY <1>1 DEF EngineInv, FlightInv, PendingFirst, SubgraphStates, Alive
<1>3. /\ x \in Task /\ Contained(x)
      /\ \/ Container(x) = s
         \/ Contained(Container(x)) /\ Container(Container(x)) = s
  BY <1>1, <1>2, InsideShape
<1> HIDE DEF x
<1>4. /\ Container(x) \in Task
      /\ state[Container(x)] = "pending" /\ Container(x) \notin waiting_for
  BY <1>1, <1>2, <1>3, ContainerShape DEF EngineInv, BooksInv, StartsFirst
<1>5. x \notin waiting_for
  BY <1>3, <1>4 DEF EngineInv, BooksInv, StartsFirst
<1> QED
  BY <1>1, <1>3, <1>4, <1>5 DEF x

(***************************************************************************)
(* A handled task leaves the graph, with the tasks R under it, and tells   *)
(* the subgraph it is in.  When set_state raises, the task itself stays.   *)
(***************************************************************************)
Leaves(t, R) ==
    /\ t \in finished_tasks
    /\ R \in {Under(t), Under(t) \ {t}}
    /\ graph' = RemoveTasks(graph, R)
    /\ waiting_for' = waiting_for \ {t}
    /\ \A u \in Task :
          \/ state'[u] = state[u]
          \/ /\ Contained(t) /\ u = Container(t)
             /\ state[u] = "started" /\ state'[u] \in {"succeeded", "failed"}
    /\ \A u \in Task : u \in finished_tasks' <=>
                           (u \in finished_tasks /\ u # t) \/ state'[u] # state[u]
    /\ \A u \in Task : subtasks'[u] = subtasks[u] \/ subtasks'[u] = subtasks[u] \ {t}
    /\ failed_task \subseteq failed_task'
    /\ \A u \in Task : u \in failed_task' =>
           u \in failed_task \/ (Contained(t) /\ u = Container(t))
    /\ UNCHANGED <<result, timers>>
    /\ error # "crashed"
    /\ IF error' = "crashed" THEN pc' = "returned" /\ subtasks' = subtasks
                             ELSE R = Under(t)

LEMMA LeavesKeeps ==
    ASSUME ConsistencyInv, EngineInv, ConsistencyInv', NEW t \in Task, NEW R, Leaves(t, R)
    PROVE  EngineInv'
<1>0. /\ TypeOK /\ Consistent(graph)
      /\ graph.ready \subseteq Task /\ waiting_for \subseteq Task /\ graph.tasks \subseteq Task
      /\ timers \subseteq waiting_for /\ finished_tasks \subseteq waiting_for
      /\ graph'.tasks \subseteq Task /\ graph'.ready \subseteq Task /\ finished_tasks' \subseteq Task
      /\ \A u \in Task : subtasks[u] \subseteq Task
  BY DEF ConsistencyInv, EngineInv, FlightInv, InFlight, TypeOK, GraphType
<1>1. /\ t \in finished_tasks /\ t \in waiting_for
      /\ state[t] \notin {"pending", "started", "sent"}
      /\ Contained(t) => state[Container(t)] # "pending" /\ t \in subtasks[Container(t)]
      /\ t \notin timers /\ error # "crashed"
  BY <1>0 DEF Leaves, EngineInv, FlightInv, InFlight, FinishedFits, Fits, BooksInv,
              StartsFirst, ListedAll, Alive
<1>2. /\ R \in SUBSET Task /\ R \subseteq Under(t) /\ Under(t) \subseteq R \cup {t}
      /\ error' # "crashed" => t \in R
      /\ t \in Under(t)
  BY <1>0, UnderIsTasks DEF Leaves
<1>3. /\ \A u \in Under(t) : /\ u \in Task /\ u.gen = t.gen
                             /\ u # t => /\ Contained(u)
                                         /\ Container(u) \in Under(t)
                                         /\ \/ Container(u) = t
                                            \/ /\ Contained(Container(u))
                                               /\ Container(Container(u)) = t
      /\ \A u \in Alive : Contained(u) /\ Container(u) \in Under(t) => u \in Under(t)
      /\ \A s \in Task : \A u \in subtasks[s] : u \in Under(t) /\ u # t => s \in Under(t)
  BY <1>0, UnderShape DEF EngineInv, BooksInv
<1>4. /\ \A u \in Task : state'[u] # state[u] =>
             /\ Contained(t) /\ u = Container(t) /\ IsSubgraph(u) /\ u # t
             /\ state[u] = "started" /\ state'[u] \in {"succeeded", "failed"}
             /\ u \in waiting_for \ finished_tasks
      /\ \A u \in Task : u \in finished_tasks' <=>
             (u \in finished_tasks /\ u # t) \/ state'[u] # state[u]
      /\ UNCHANGED <<result, timers>>
      /\ waiting_for' = waiting_for \ {t}
  BY ContainerShape DEF Leaves, EngineInv, FlightInv, SentInFlight
<1>5. Tight(graph, waiting_for) /\ waiting_for \in SUBSET Task
  BY <1>0, <1>1 DEF EngineInv, FlightInv, ReadyFree, AppliedFree, NoneForgotten, Tight
<1>6. /\ graph'.tasks = graph.tasks \ R
      /\ \A u \in Task : graph'.dependencies[u] =
             IF u \in R THEN {} ELSE graph.dependencies[u] \ R
      /\ Tight(graph', waiting_for \ (R \cap {t}))
  <2>1. graph' = RemoveTasks(graph, R)
    BY DEF Leaves
  <2> DEFINE V == waiting_for \ (R \cap {t})
  <2>2. V \in SUBSET waiting_for /\ waiting_for \subseteq V \cup R
    OBVIOUS
  <2> HIDE DEF V
  <2>4. graph'.tasks = graph.tasks \ R
    BY <1>0, <1>2, <2>1, RemoveTasksConsistent
  <2>5. /\ Tight(RemoveTasks(graph, R), V)
        /\ \A u \in Task : RemoveTasks(graph, R).dependencies[u] =
               IF u \in R THEN {} ELSE graph.dependencies[u] \ R
    BY <1>0, <1>2, <1>5, <2>2, RemoveTasksTight
  <2> QED
    BY <2>1, <2>4, <2>5 DEF V
<1>7. Alive' \subseteq Alive /\ Alive \subseteq Task
  BY <1>0, <1>4, <1>6 DEF Alive
<1>8. FlightInv'
  <2>1. ReadyFree' /\ AppliedFree' /\ NoneForgotten'
    <3>1. error' # "crashed" => waiting_for' = waiting_for \ (R \cap {t})
      BY <1>2, <1>4
    <3> QED
      BY <1>4, <1>6, <3>1 DEF ReadyFree, AppliedFree, NoneForgotten, Tight, ReadyIsFree, Free
  <2>2. InFlight'
    <3>1. finished_tasks' \subseteq waiting_for'
      BY <1>0, <1>4
    <3>2. timers' \subseteq waiting_for' \ finished_tasks'
      BY <1>0, <1>1, <1>4 DEF EngineInv, FlightInv, InFlight, PendingFirst
    <3>3. \A u \in waiting_for' : Contained(u) \/ u \in graph'.tasks
      BY <1>0, <1>2, <1>3, <1>4, <1>6 DEF EngineInv, FlightInv, InFlight
    <3>4. error' = "crashed" => pc' = "returned"
      BY DEF Leaves
    <3> QED
      BY <3>1, <3>2, <3>3, <3>4 DEF InFlight
  <2>3. PendingFirst'
    <3>1. \A u \in graph'.ready : u \in graph.tasks \ waiting_for
      BY <1>0, <1>1, <1>4, <1>6 DEF Tight, ReadyIsFree
    <3>2. \A u \in graph.tasks \ waiting_for : state[u] = "pending" /\ state'[u] = "pending"
      BY <1>0, <1>1, <1>4 DEF EngineInv, FlightInv, PendingFirst
    <3>3. \A u \in timers' : state'[u] = "pending" /\ ~IsSubgraph(u)
      BY <1>0, <1>4 DEF EngineInv, FlightInv, PendingFirst
    <3>4. error' # "crashed" => \A u \in graph'.tasks \ waiting_for' : u \in graph.tasks \ waiting_for
      BY <1>2, <1>4, <1>6
    <3> QED
      BY <3>1, <3>2, <3>3, <3>4 DEF PendingFirst
  <2>4. SentInFlight'
    BY <1>1, <1>4 DEF EngineInv, FlightInv, SentInFlight
  <2>5. SubgraphStates'
    BY <1>4, <1>7 DEF EngineInv, FlightInv, SubgraphStates
  <2>6. FinishedFits'
    BY <1>0, <1>4 DEF EngineInv, FlightInv, FinishedFits, Fits
  <2> QED
    BY <2>1, <2>2, <2>3, <2>4, <2>5, <2>6 DEF FlightInv
<1>9. \A u \in Task : subtasks'[u] \subseteq subtasks[u] /\ subtasks[u] \subseteq subtasks'[u] \cup {t}
  BY DEF Leaves
<1>10. \A u \in Task : state'[u] = "pending" <=> state[u] = "pending"
  BY <1>4
<1>11. BooksInv'
  <2>1. ListedAll'
    <3>1. ASSUME NEW u \in Alive', Contained(u) PROVE u \in subtasks'[Container(u)]
      <4>1. u \in subtasks[Container(u)] /\ u \in Task /\ Container(u) \in Task
        BY <1>7, <3>1, ContainerShape DEF EngineInv, BooksInv, ListedAll
      <4>2. CASE error' = "crashed"
        BY <4>1, <4>2 DEF Leaves
      <4>3. CASE error' # "crashed"
        <5>1. u # t
          BY <1>2, <1>4, <1>6, <3>1, <4>3 DEF Alive
        <5> QED
          BY <1>9, <4>1, <5>1
      <4> QED
        BY <4>2, <4>3
    <3> QED
      BY <3>1 DEF ListedAll
  <2>2. ListsOwn'
    BY <1>9 DEF EngineInv, BooksInv, ListsOwn
  <2>3. PendingLists'
    <3>1. ASSUME NEW s \in Task, state[s] = "pending"
          PROVE  subtasks'[s] = subtasks[s] /\ (s \in failed_task' => s \in failed_task)
      <4>1. ~(Contained(t) /\ Container(t) = s)
        BY <1>1, <3>1
      <4>2. t \notin subtasks[s]
        BY <4>1 DEF EngineInv, BooksInv, ListsOwn
      <4> QED
        BY <1>9, <4>1, <4>2, SMTT(40) DEF Leaves
    <3> QED
      BY <1>10, <3>1 DEF EngineInv, BooksInv, PendingLists
  <2>4. StartsFirst'
    BY <1>4, <1>10, ContainerShape DEF EngineInv, BooksInv, StartsFirst
  <2>5. Held'
    <3>1. ASSUME NEW u \in graph'.tasks, Contained(u), state'[Container(u)] = "pending"
          PROVE  Container(u) \in graph'.dependencies[u]
      <4>1. /\ u \in Task /\ u \in graph.tasks /\ u \notin R /\ u \in Alive
            /\ Container(u) \in Task
        BY <1>0, <1>6, <3>1, ContainerShape DEF Alive
      <4>2. state[Container(u)] = "pending" /\ Container(u) \in graph.dependencies[u]
        BY <1>10, <3>1, <4>1 DEF EngineInv, BooksInv, Held
      <4>3. u # t
        BY <1>1, <3>1, <4>2
      <4>4. Container(u) \notin R
        BY <1>2, <1>3, <3>1, <4>1, <4>3
      <4> QED
        BY <1>6, <4>1, <4>2, <4>4
    <3> QED
      BY <3>1 DEF Held
  <2>6. AllThere'
    <3>1. ASSUME NEW s \in graph'.tasks, state'[s] = "pending", NEW u \in subtasks'[s]
          PROVE  u \in graph'.tasks
      <4>1. /\ s \in Task /\ s \in graph.tasks /\ s \notin R /\ state[s] = "pending"
        BY <1>0, <1>6, <1>10, <3>1
      <4>2. u \in subtasks[s] /\ u \in graph.tasks
        BY <1>9, <3>1, <4>1 DEF EngineInv, BooksInv, AllThere
      <4>3. u # t
        BY <1>1, <4>1, <4>2 DEF EngineInv, BooksInv, ListsOwn
      <4>4. s # t
        BY <1>1, <4>1
      <4>5. u \notin R
        BY <1>2, <1>3, <4>1, <4>2, <4>3, <4>4
      <4> QED
        BY <1>6, <4>2, <4>5
    <3> QED
      BY <3>1 DEF AllThere
  <2> QED
    BY <2>1, <2>2, <2>3, <2>4, <2>5, <2>6 DEF BooksInv
<1>12. FreshInv'
  <2>1. \A u \in Task : Fresh(u) => Fresh(u)'
    BY <1>4, <1>7, <1>10 DEF Fresh
  <2>2. OneAttempt'
    BY <1>7 DEF EngineInv, FreshInv, OneAttempt
  <2>3. FreshTries' /\ FreshBuilds'
    BY <1>6, <1>7, <2>1 DEF EngineInv, FreshInv, FreshTries, FreshBuilds
  <2>4. SelfNeed'
    <3>1. ASSUME NEW s \in graph'.tasks, NEW e \in Needs, IsSubgraph(s), ~Contained(s),
                 e[1] = s.op, e[2] \in Inside(s.op) \ {s.op}
          PROVE  s \notin waiting_for' /\ FirstTask(e[2], s.gen) \in graph'.dependencies[s]
      <4> DEFINE x == FirstTask(e[2], s.gen)
      <4>1. /\ s \in Task /\ s \in graph.tasks /\ s \notin R
            /\ s \notin waiting_for /\ x \in graph.dependencies[s]
            /\ x \in Task /\ x \notin waiting_for
            /\ Contained(x) /\ Container(x) \notin waiting_for
            /\ Container(x) = s \/ Container(Container(x)) = s
        BY <1>0, <1>1, <1>6, <3>1, NeededInside
      <4> HIDE DEF x
      <4>6. x \notin Under(t)
        BY <1>1, <1>3, <3>1, <4>1
      <4>7. x \in graph'.dependencies[s]
        BY <1>2, <1>6, <4>1, <4>6
      <4> QED
        BY <1>4, <4>1, <4>7 DEF x
    <3> QED
      BY <3>1 DEF SelfNeed
  <2> QED
    BY <2>2, <2>3, <2>4 DEF FreshInv
<1> QED
  BY <1>8, <1>11, <1>12 DEF EngineInv

(* What telling the containing subgraph that t has ended comes to. *)
LEMMA TellContainerEffect ==
    ASSUME ConsistencyInv, EngineInv, NEW t \in Task, t \in finished_tasks,
           NEW fails \in BOOLEAN, NEW retried \in SUBSET Task,
           TellContainer(t, fails, retried)
    PROVE  /\ \A u \in Task :
                 \/ state'[u] = state[u]
                 \/ /\ Contained(t) /\ u = Container(t)
                    /\ state[u] = "started" /\ state'[u] \in {"succeeded", "failed"}
                    /\ state'[u] = "succeeded" => /\ subtasks'[u] = {}
                                                  /\ u \notin failed_task'
           /\ \A u \in Task : u \in finished_tasks' <=>
                 (u \in finished_tasks /\ u # t) \/ state'[u] # state[u]
           /\ \A u \in Task : subtasks'[u] =
                 IF Contained(t) /\ u = Container(t) THEN (subtasks[u] \ {t}) \cup retried
                                                     ELSE subtasks[u]
           /\ \A u \in Task : u \in failed_task' <=>
                 u \in failed_task \/ (fails /\ Contained(t) /\ u = Container(t))
<1>0. TypeOK /\ finished_tasks \subseteq waiting_for
  BY DEF ConsistencyInv, EngineInv, FlightInv, InFlight
<1>1. CASE ~Contained(t)
  BY <1>0, <1>1 DEF TellContainer, TypeOK
<1>2. CASE Contained(t)
  <2> DEFINE s    == Container(t)
             left == (subtasks[s] \ {t}) \cup retried
             ends == IF state[s] \in TERMINATED_STATES THEN state[s]
                     ELSE IF fails \/ s \in failed_task THEN "failed"
                     ELSE IF left = {} THEN "succeeded"
                     ELSE state[s]
  <2>1. s \in Task /\ IsSubgraph(s) /\ s # t
    BY <1>2, ContainerShape
  <2>2. state[s] # "pending"
    BY <1>0, <1>2 DEF EngineInv, BooksInv, StartsFirst
  <2>3. state[s] \in {"started", "succeeded", "failed"}
    BY <2>1, <2>2 DEF EngineInv, FlightInv, SubgraphStates
  <2>4. /\ subtasks' = [subtasks EXCEPT ![s] = left]
        /\ failed_task' = failed_task \cup (IF fails THEN {s} ELSE {})
        /\ state' = [state EXCEPT ![s] = ends]
        /\ finished_tasks' = (finished_tasks \ {t})
                              \cup (IF ends # state[s] THEN {s} ELSE {})
    BY <1>2 DEF TellContainer
  <2>5. \/ ends = state[s]
        \/ /\ state[s] = "started" /\ ends \in {"succeeded", "failed"}
           /\ ends = "succeeded" => left = {} /\ s \notin failed_task /\ ~fails
    BY <2>3 DEF TERMINATED_STATES
  <2> HIDE DEF s, left, ends
  <2>6. /\ \A u \in Task : u # s => state'[u] = state[u] /\ subtasks'[u] = subtasks[u]
        /\ state'[s] = ends /\ subtasks'[s] = left
    BY <1>0, <2>1, <2>4 DEF TypeOK
  <2>7. \A u \in Task : u \in failed_task' <=> u \in failed_task \/ (fails /\ u = s)
    BY <2>4
  <2>8. \A u \in Task : u \in finished_tasks' <=>
             (u \in finished_tasks /\ u # t) \/ state'[u] # state[u]
    BY <2>1, <2>4, <2>6
  <2> QED
    BY <1>2, <2>1, <2>5, <2>6, <2>7, <2>8 DEF s, left
<1> QED
  BY <1>1, <1>2

LEMMA HandleEndLeaves ==
    ASSUME ConsistencyInv, EngineInv, NEW t \in Task, HandleEnd(t)
    PROVE  Leaves(t, Under(t))
<1>1. /\ t \in finished_tasks /\ error # "crashed" /\ error' = error
      /\ TellContainer(t, FALSE, {})
      /\ FALSE \in BOOLEAN /\ {} \in SUBSET Task
  BY DEF HandleEnd, Popped, EngineInv, FlightInv, InFlight
<1>2. \A u \in Task : subtasks'[u] = subtasks[u] \/ subtasks'[u] = subtasks[u] \ {t}
  <2>1. \A u \in Task : subtasks'[u] =
           IF Contained(t) /\ u = Container(t) THEN (subtasks[u] \ {t}) \cup {}
                                               ELSE subtasks[u]
    BY <1>1, TellContainerEffect, ZenonT(60)
  <2> QED
    BY <2>1
<1>3. failed_task \subseteq failed_task'
  BY <1>1 DEF TellContainer
<1> QED
  BY <1>1, <1>2, <1>3, TellContainerEffect DEF HandleEnd, Popped, Leaves

LEMMA HandleFailLeaves ==
    ASSUME ConsistencyInv, EngineInv, NEW t \in Task, HandleFail(t)
    PROVE  Leaves(t, Under(t))
<1>1. /\ t \in finished_tasks /\ error # "crashed" /\ error' # "crashed"
      /\ TellContainer(t, TRUE, {})
      /\ TRUE \in BOOLEAN /\ {} \in SUBSET Task
  BY DEF HandleFail, FailOnce, Popped, EngineInv, FlightInv, InFlight
<1>2. \A u \in Task : subtasks'[u] = subtasks[u] \/ subtasks'[u] = subtasks[u] \ {t}
  <2>1. \A u \in Task : subtasks'[u] =
           IF Contained(t) /\ u = Container(t) THEN (subtasks[u] \ {t}) \cup {}
                                               ELSE subtasks[u]
    BY <1>1, TellContainerEffect, ZenonT(60)
  <2> QED
    BY <2>1
<1>3. failed_task \subseteq failed_task'
  BY <1>1 DEF TellContainer
<1> QED
  BY <1>1, <1>2, <1>3, TellContainerEffect DEF HandleFail, Popped, Leaves

LEMMA HandlePropagateLeaves ==
    ASSUME ConsistencyInv, EngineInv, NEW s \in Task, HandlePropagate(s)
    PROVE  /\ Contained(s) /\ state[s] = "failed"
           /\ failed_task' = failed_task \cup {Container(s)}
           /\ \/ /\ Leaves(s, Under(s))
                 /\ state'[Container(s)] = "failed"
                 /\ UNCHANGED <<error, pc>>
              \/ Leaves(s, Under(s) \ {s}) /\ error' = "crashed" /\ state' = state
<1>0. TypeOK /\ finished_tasks \subseteq waiting_for
  BY DEF ConsistencyInv, EngineInv, FlightInv, InFlight
<1>1. /\ s \in finished_tasks /\ error # "crashed" /\ Contained(s)
      /\ waiting_for' = waiting_for \ {s}
      /\ failed_task' = failed_task \cup {Container(s)}
      /\ UNCHANGED <<result, timers>>
  BY DEF HandlePropagate, Propagates, Popped, EngineInv, FlightInv, InFlight
<1>2. Container(s) \in Task /\ IsSubgraph(Container(s)) /\ Container(s) # s
  BY <1>1, ContainerShape
<1>3. state[Container(s)] \in {"started", "succeeded", "failed"}
  BY <1>0, <1>1, <1>2 DEF EngineInv, FlightInv, SubgraphStates, BooksInv, StartsFirst
<1>4. CASE /\ state[Container(s)] \notin TERMINATED_STATES
           /\ state' = [state EXCEPT ![Container(s)] = "failed"]
           /\ finished_tasks' = (finished_tasks \ {s}) \cup {Container(s)}
           /\ subtasks' = [subtasks EXCEPT ![Container(s)] = @ \ {s}]
           /\ graph' = RemoveTasks(graph, Under(s))
           /\ UNCHANGED <<error, pc>>
  <2>1. state[Container(s)] = "started"
    BY <1>3, <1>4 DEF TERMINATED_STATES
  <2>2. \A u \in Task : /\ u # Container(s) => state'[u] = state[u]
                        /\ u # Container(s) => subtasks'[u] = subtasks[u]
    BY <1>0, <1>4 DEF TypeOK
  <2>3. state'[Container(s)] = "failed" /\ subtasks'[Container(s)] = subtasks[Container(s)] \ {s}
    BY <1>0, <1>2, <1>4 DEF TypeOK
  <2>4. \A u \in Task : u \in finished_tasks' <=>
            (u \in finished_tasks /\ u # s) \/ state'[u] # state[u]
    BY <1>2, <1>4, <2>1, <2>2, <2>3
  <2>5. Leaves(s, Under(s))
    BY <1>1, <1>4, <2>1, <2>2, <2>3, <2>4 DEF Leaves
  <2> QED
    BY <1>1, <1>4, <2>3, <2>5 DEF HandlePropagate
<1>5. CASE /\ state[Container(s)] \in TERMINATED_STATES
           /\ graph' = RemoveTasks(graph, Under(s) \ {s})
           /\ error' = "crashed"
           /\ pc' = "returned"
           /\ finished_tasks' = finished_tasks \ {s}
           /\ UNCHANGED <<state, subtasks>>
  BY <1>1, <1>5 DEF Leaves, HandlePropagate
<1> QED
  BY <1>4, <1>5 DEF HandlePropagate

LEMMA HandleRetryKeeps ==
    ASSUME ConsistencyInv, EngineInv, ConsistencyInv', NEW t \in Task, HandleRetry(t)
    PROVE  EngineInv'
<1> DEFINE new == Duplicate(t)
<1>0. /\ TypeOK /\ Consistent(graph)
      /\ graph.ready \subseteq Task /\ waiting_for \subseteq Task /\ graph.tasks \subseteq Task
      /\ timers \subseteq waiting_for /\ finished_tasks \subseteq waiting_for
      /\ graph'.tasks \subseteq Task /\ graph'.ready \subseteq Task /\ finished_tasks' \subseteq Task
      /\ \A u \in Task : subtasks[u] \subseteq Task /\ graph'.dependencies[u] \subseteq Task
      /\ \A u \in Task : u \notin graph.tasks => graph.dependencies[u] = {}
  BY DEF ConsistencyInv, EngineInv, FlightInv, InFlight, TypeOK, GraphType, Consistent, EdgesInside
<1>1. /\ t \in finished_tasks /\ t \in waiting_for /\ t \in Alive
      /\ t \notin timers /\ ~IsSubgraph(t)
      /\ waiting_for' = waiting_for \ {t}
      /\ error # "crashed" /\ error' = error /\ pc' = pc
      /\ UNCHANGED <<result, timers>>
      /\ graph.dependencies[t] = {}
      /\ Contained(t) => state[Container(t)] # "pending"
      /\ state[t] # "pending"
      /\ graph' = RemoveTasks(TakeOver(graph, t, new), {t})
      /\ TellContainer(t, FALSE, {new})
  BY <1>0 DEF HandleRetry, Popped, EngineInv, FlightInv, InFlight, AppliedFree, BooksInv,
              StartsFirst, FinishedFits, Fits, Alive
<1>2. /\ new \in Task /\ new.op = t.op /\ new.gen = t.gen /\ new.try = t.try + 1
      /\ new.try > t.try /\ t.try \in Nat /\ new # t
      /\ Contained(new) <=> Contained(t)
      /\ Container(new) = Container(t)
      /\ ~IsSubgraph(new)
  BY <1>1, DuplicateIsTask, TaskFields, BoundAssumption
  DEF HandleRetry, Contained, Container, IsSubgraph
<1>3. Fresh(new) /\ new \notin graph.tasks /\ new \notin waiting_for /\ graph.dependencies[new] = {}
  BY <1>0, <1>1, <1>2 DEF EngineInv, FreshInv, FreshTries, Fresh, Alive
<1> HIDE DEF new
<1>4. Tight(graph, waiting_for) /\ waiting_for \in SUBSET Task
  BY <1>0, <1>1 DEF EngineInv, FlightInv, ReadyFree, AppliedFree, NoneForgotten, Tight
<1>6. /\ Tight(graph', waiting_for')
      /\ graph'.tasks = (graph.tasks \cup {new}) \ {t}
      /\ \A u, d \in Task : u # t /\ d # t /\ d \in graph.dependencies[u] =>
             d \in graph'.dependencies[u]
  <2>1. /\ Consistent(graph) /\ Tight(graph, waiting_for) /\ waiting_for \in SUBSET Task
        /\ new \in Task /\ t # new /\ new \notin waiting_for
        /\ graph.dependencies[new] = {} /\ graph.dependencies[t] = {}
        /\ graph' = RemoveTasks(TakeOver(graph, t, new), {t})
    BY <1>0, <1>1, <1>2, <1>3, <1>4
  <2> DEFINE R == {t}
  <2>2. (\A x : x \in R <=> x = t) /\ graph' = RemoveTasks(TakeOver(graph, t, new), R)
    BY <2>1
  <2> HIDE DEF R
  <2>3. \A x : x \in waiting_for' <=> x \in waiting_for /\ x # t
    BY <1>1
  <2>4. /\ Tight(graph', waiting_for') /\ Consistent(graph')
        /\ Replaced(graph, graph', t, new)
    BY <2>1, <2>2, <2>3, RetryTight
  <2> QED
    BY <2>4 DEF Replaced
<1>7. /\ \A u \in Task : state'[u] # state[u] =>
             /\ Contained(t) /\ u = Container(t) /\ IsSubgraph(u) /\ u # t
             /\ state[u] = "started" /\ state'[u] \in {"succeeded", "failed"}
             /\ u \in waiting_for \ finished_tasks
      /\ \A u \in Task : u \in finished_tasks' <=>
             (u \in finished_tasks /\ u # t) \/ state'[u] # state[u]
      /\ \A u \in Task : subtasks'[u] =
             IF Contained(t) /\ u = Container(t) THEN (subtasks[u] \ {t}) \cup {new}
                                                 ELSE subtasks[u]
      /\ \A u \in Task : u \in failed_task' <=> u \in failed_task
  <2>1. FALSE \in BOOLEAN /\ {new} \in SUBSET Task
    BY <1>2
  <2> QED
    <3>1. /\ \A u \in Task :
                \/ state'[u] = state[u]
                \/ /\ Contained(t) /\ u = Container(t)
                   /\ state[u] = "started" /\ state'[u] \in {"succeeded", "failed"}
          /\ \A u \in Task : u \in finished_tasks' <=>
                 (u \in finished_tasks /\ u # t) \/ state'[u] # state[u]
          /\ \A u \in Task : u \in failed_task' <=> u \in failed_task
      BY <1>1, <2>1, TellContainerEffect
    <3>2. \A u \in Task : subtasks'[u] =
             IF Contained(t) /\ u = Container(t) THEN (subtasks[u] \ {t}) \cup {new}
                                                 ELSE subtasks[u]
      BY <1>1, <2>1, TellContainerEffect
    <3> QED
      BY <3>1, <3>2, ContainerShape DEF EngineInv, FlightInv, SentInFlight
<1>8. /\ Alive' = (Alive \cup {new}) \ {t}
      /\ Alive \subseteq Task
      /\ \A u \in Task : state'[u] = "pending" <=> state[u] = "pending"
      /\ state'[new] = "pending"
  BY <1>0, <1>1, <1>2, <1>3, <1>6, <1>7 DEF Alive, Fresh
<1>9. FlightInv'
  <2>1. ReadyFree' /\ AppliedFree' /\ NoneForgotten'
    BY <1>6 DEF ReadyFree, AppliedFree, NoneForgotten, Tight, ReadyIsFree, Free
  <2>2. InFlight'
    BY <1>0, <1>1, <1>6, <1>7, ZenonT(60) DEF EngineInv, FlightInv, InFlight, PendingFirst
  <2>3. PendingFirst'
    <3>1. \A u \in graph'.ready : u \in graph'.tasks \ waiting_for'
      BY <1>6 DEF Tight, ReadyIsFree
    <3>2. \A u \in graph'.tasks \ waiting_for' : state'[u] = "pending"
      BY <1>0, <1>1, <1>6, <1>8 DEF EngineInv, FlightInv, PendingFirst
    <3>3. \A u \in timers' : state'[u] = "pending" /\ ~IsSubgraph(u)
      BY <1>0, <1>1, <1>8 DEF EngineInv, FlightInv, PendingFirst
    <3> QED
      BY <3>1, <3>2, <3>3 DEF PendingFirst
  <2>4. SentInFlight'
    BY <1>1, <1>7 DEF EngineInv, FlightInv, SentInFlight, FinishedFits, Fits
  <2>5. SubgraphStates'
    BY <1>1, <1>2, <1>7, <1>8 DEF EngineInv, FlightInv, SubgraphStates
  <2>6. FinishedFits'
    BY <1>0, <1>1, <1>7 DEF EngineInv, FlightInv, FinishedFits, Fits
  <2> QED
    BY <2>1, <2>2, <2>3, <2>4, <2>5, <2>6 DEF FlightInv
<1>10. BooksInv'
  <2>1. ListedAll'
    <3>1. ASSUME NEW u \in Alive', Contained(u) PROVE u \in subtasks'[Container(u)]
      <4>1. CASE u = new
        BY <1>2, <1>7, <3>1, <4>1, ContainerShape
      <4>2. CASE u \in Alive /\ u # t
        <5>1. u \in subtasks[Container(u)] /\ u \in Task /\ Container(u) \in Task
          BY <1>8, <3>1, <4>2, ContainerShape DEF EngineInv, BooksInv, ListedAll
        <5> QED
          BY <1>7, <4>2, <5>1
      <4> QED
        BY <1>8, <3>1, <4>1, <4>2
    <3> QED
      BY <3>1 DEF ListedAll
  <2>2. ListsOwn'
    BY <1>2, <1>7, ZenonT(60) DEF EngineInv, BooksInv, ListsOwn
  <2>3. PendingLists'
    BY <1>1, <1>7, <1>8 DEF EngineInv, BooksInv, PendingLists
  <2>4. StartsFirst'
    BY <1>1, <1>8, ContainerShape DEF EngineInv, BooksInv, StartsFirst
  <2>5. Held'
    <3>1. ASSUME NEW u \in graph'.tasks, Contained(u), state'[Container(u)] = "pending"
          PROVE  Container(u) \in graph'.dependencies[u]
      <4>1. /\ u \in Task /\ Container(u) \in Task /\ state[Container(u)] = "pending"
            /\ Container(u) # t
        BY <1>0, <1>1, <1>8, <3>1, ContainerShape
      <4>2. u # new /\ u # t
        BY <1>1, <1>2, <4>1, <3>1
      <4>3. Container(u) \in graph.dependencies[u]
        BY <1>6, <3>1, <4>1, <4>2 DEF EngineInv, BooksInv, Held
      <4> QED
        BY <1>6, <4>1, <4>2, <4>3
    <3> QED
      BY <3>1 DEF Held
  <2>6. AllThere'
    <3>1. ASSUME NEW s \in graph'.tasks, state'[s] = "pending", NEW u \in subtasks'[s]
          PROVE  u \in graph'.tasks
      <4>1. s \in Task /\ state[s] = "pending" /\ u \in subtasks[s]
        BY <1>0, <1>1, <1>7, <1>8, <3>1
      <4>2. Contained(u) /\ Container(u) = s /\ IsSubgraph(s)
        BY <1>0, <4>1, ContainerShape DEF EngineInv, BooksInv, ListsOwn
      <4>3. s # new /\ u # t
        BY <1>1, <1>2, <4>1, <4>2
      <4>4. s \in graph.tasks
        BY <1>6, <3>1, <4>3
      <4> QED
        BY <1>6, <4>1, <4>3, <4>4 DEF EngineInv, BooksInv, AllThere
    <3> QED
      BY <3>1 DEF AllThere
  <2> QED
    BY <2>1, <2>2, <2>3, <2>4, <2>5, <2>6 DEF BooksInv
<1>11. FreshInv'
  <2>1. \A u \in Task : Fresh(u) /\ u # new => Fresh(u)'
    BY <1>1, <1>8 DEF Fresh
  <2>2. \A v \in Alive' : v \in Task /\ v.op = new.op /\ v.gen = new.gen => v = new
    BY <1>1, <1>2, <1>8 DEF EngineInv, FreshInv, OneAttempt
  <2>3. OneAttempt'
    BY <1>8, <2>2 DEF EngineInv, FreshInv, OneAttempt
  <2>4. FreshTries'
    <3>1. ASSUME NEW v \in Alive', NEW u \in Task, u.op = v.op, u.gen = v.gen, u.try > v.try
          PROVE  Fresh(u)'
      <4>0. v \in Task /\ u.try \in Nat /\ v.try \in Nat /\ new.try \in Nat
        BY <1>2, <1>8, TaskFields, BoundAssumption
      <4>1. u # new
        BY <2>2, <3>1, <4>0
      <4>2. CASE v = new
        BY <1>1, <1>2, <2>1, <3>1, <4>0, <4>1, <4>2 DEF EngineInv, FreshInv, FreshTries
      <4>3. CASE v # new
        BY <1>8, <2>1, <3>1, <4>1, <4>3 DEF EngineInv, FreshInv, FreshTries
      <4> QED
        BY <4>2, <4>3
    <3> QED
      BY <3>1 DEF FreshTries
  <2>5. FreshBuilds'
    <3>1. ASSUME NEW s \in graph'.tasks, NEW u \in Task,
                 IsSubgraph(s), Root(u.op) = s.op, u.gen > s.gen
          PROVE  Fresh(u)'
      <4>1. s \in graph.tasks
        BY <1>2, <1>6, <3>1
      <4>2. Fresh(u)
        BY <3>1, <4>1 DEF EngineInv, FreshInv, FreshBuilds
      <4>3. u # new
        <5>1. u = new => Fresh(t)
          BY <1>2, <3>1, <4>1 DEF EngineInv, FreshInv, FreshBuilds
        <5> QED
          BY <1>1, <5>1 DEF Fresh
      <4> QED
        BY <2>1, <4>2, <4>3
    <3> QED
      BY <3>1 DEF FreshBuilds
  <2>6. SelfNeed'
    <3>1. ASSUME NEW s \in graph'.tasks, NEW e \in Needs, IsSubgraph(s), ~Contained(s),
                 e[1] = s.op, e[2] \in Inside(s.op) \ {s.op}
          PROVE  s \notin waiting_for' /\ FirstTask(e[2], s.gen) \in graph'.dependencies[s]
      <4>1. s \in graph.tasks /\ s \in Task /\ s # t
        BY <1>0, <1>1, <1>2, <1>6, <3>1
      <4>2. /\ s \notin waiting_for /\ FirstTask(e[2], s.gen) \in graph.dependencies[s]
            /\ FirstTask(e[2], s.gen) \in Task /\ FirstTask(e[2], s.gen) \notin waiting_for
        BY <1>0, <1>1, <3>1, <4>1, NeededInside
      <4> QED
        BY <1>1, <1>6, <4>1, <4>2
    <3> QED
      BY <3>1 DEF SelfNeed
  <2> QED
    BY <2>3, <2>4, <2>5, <2>6 DEF FreshInv
<1> QED
  BY <1>9, <1>10, <1>11 DEF EngineInv

(* What a rebuild makes is nested as what it replaces is. *)
LEMMA InsideMembers ==
    ASSUME NEW s \in Op, Parent[s] = NoOp, NEW v \in Inside(s), v \in Subgraph,
           NEW o \in Members(v)
    PROVE  o \in Inside(s)
<1>1. o \in Op /\ Parent[o] = v /\ v \in Op
  BY DEF Members, Inside
<1>2. s # NoOp
  BY WorkflowAssumption
<1>3. v \in Subgraph /\ v # NoOp /\ (Parent[v] # NoOp => Parent[Parent[v]] = NoOp)
  BY <1>1, NestingAssumption, WorkflowAssumption
<1>4. CASE v = s
  BY <1>1, <1>4 DEF Inside
<1>5. CASE Parent[v] = s
  BY <1>1, <1>3, <1>5 DEF Inside
<1>6. v = s \/ Parent[v] = s
  BY <1>2, <1>3, WorkflowAssumption DEF Inside
<1> QED
  BY <1>4, <1>5, <1>6

(* The tasks a rebuild makes were never made before. *)
LEMMA RebuiltFresh ==
    ASSUME TypeOK, EngineInv, NEW s \in graph.tasks, IsSubgraph(s), ~Contained(s),
           s.gen < MaxGen
    PROVE  /\ s.op \in Op /\ s.gen + 1 \in 0..MaxGen /\ Inside(s.op) \in SUBSET Op
           /\ s.op \in Inside(s.op) /\ s.gen \in Nat
           /\ \A t \in TasksFor(Inside(s.op), s.gen + 1) :
                 /\ t \in Task /\ t.op \in Inside(s.op) /\ t.gen = s.gen + 1 /\ t.try = 0
                 /\ t = FirstTask(t.op, s.gen + 1) /\ Root(t.op) = s.op
                 /\ Fresh(t)
           /\ \A t \in Task : Root(t.op) = s.op /\ t.gen > s.gen => Fresh(t)
           /\ Root(s.op) = s.op /\ Parent[s.op] = NoOp
<1>1. /\ s \in Task /\ s.op \in Op /\ s.gen \in Nat /\ s.gen + 1 \in 0..MaxGen
      /\ Inside(s.op) \in SUBSET Op /\ s.op \in Inside(s.op) /\ Parent[s.op] = NoOp
  BY TaskFields, BoundAssumption DEF TypeOK, GraphType, Inside, Contained
<1>2. ASSUME NEW t \in Task, Root(t.op) = s.op, t.gen > s.gen PROVE Fresh(t)
  BY <1>2 DEF EngineInv, FreshInv, FreshBuilds
<1>3. ASSUME NEW o \in Inside(s.op)
      PROVE  LET t == FirstTask(o, s.gen + 1)
             IN  /\ t \in Task /\ t.op = o /\ t.gen = s.gen + 1 /\ t.try = 0
                 /\ Root(t.op) = s.op
  BY <1>1, FirstTaskIsTask, RootShape
<1>4. Root(s.op) = s.op
  BY <1>1 DEF Root
<1>5. s.gen + 1 > s.gen
  BY <1>1
<1> QED
  BY <1>1, <1>2, <1>3, <1>4, <1>5 DEF TasksFor

(* The graph after a rebuild: everything under the failed subgraph is out  *)
(* of it, the new build is in it, and what waited for the failed subgraph  *)
(* waits for the new one, unless the execution has failed.                 *)
LEMMA RebuildEffect ==
    ASSUME ConsistencyInv, EngineInv, NEW s \in Task, HandleRebuild(s)
    PROVE  LET O   == Inside(s.op)
               n   == s.gen + 1
               new == FirstTask(s.op, n)
           IN  /\ Tight(graph', waiting_for')
               /\ graph'.tasks = (graph.tasks \ Under(s)) \cup TasksFor(O, n)
               /\ \A o, p \in O : o # p /\ Linked(o, p) =>
                     FirstTask(p, n) \in graph'.dependencies[FirstTask(o, n)]
               /\ \A t, d \in Task :
                     t \notin Under(s) /\ d \notin Under(s) /\ d \in graph.dependencies[t]
                     => d \in graph'.dependencies[t]
               /\ error' = "none" =>
                     \A t \in Task : t \notin Under(s) /\ s \in graph.dependencies[t]
                                     => new \in graph'.dependencies[t]
               /\ \A t, d \in Task : d \in graph'.dependencies[t] =>
                     \/ d \in graph.dependencies[t]
                     \/ d = new /\ s \in graph.dependencies[t]
                     \/ \E o, p \in O : /\ t = FirstTask(o, n) /\ d = FirstTask(p, n)
                                        /\ Linked(o, p)
<1> DEFINE O     == Inside(s.op)
           n     == s.gen + 1
           new   == FirstTask(s.op, n)
           fresh == TasksFor(O, n)
           U     == Under(s)
           kept  == RemoveTasks(graph, U \ {s})
           built == Build(kept, O, n)
           taken == TakeOver(built, s, new)
<1>0. /\ TypeOK /\ Consistent(graph)
      /\ waiting_for \in SUBSET Task /\ graph.tasks \subseteq Task
  BY DEF ConsistencyInv, TypeOK, GraphType
<1>1. /\ s \in finished_tasks /\ s \in waiting_for /\ s \in graph.tasks /\ s \in Alive
      /\ IsSubgraph(s) /\ ~Contained(s) /\ state[s] = "failed" /\ s.gen < MaxGen
      /\ error # "crashed" /\ graph.dependencies[s] = {}
      /\ waiting_for' = waiting_for \ {s}
      /\ \/ graph' = RemoveTasks(taken, U)
         \/ graph' = RemoveTasks(built, U) /\ error' # "none"
  BY DEF HandleRebuild, Popped, Rebuilds, FailOnce, EngineInv, FlightInv, InFlight, AppliedFree, Alive
<1>2. /\ s.op \in Op /\ n \in 0..MaxGen /\ O \in SUBSET Op /\ s.op \in O
      /\ \A t \in fresh : /\ t \in Task /\ t.op \in O /\ t.gen = n /\ t.try = 0
                          /\ t = FirstTask(t.op, n) /\ Fresh(t)
      /\ Parent[s.op] = NoOp
      /\ n # s.gen
  BY <1>0, <1>1, RebuiltFresh
<1>3. /\ U \in SUBSET Task /\ s \in U
      /\ \A u \in U : u \in Task /\ u.gen = s.gen
  BY <1>0, UnderIsTasks, UnderShape DEF EngineInv, BooksInv
<1>4. new \in fresh /\ new \in Task
  BY <1>2 DEF TasksFor
<1>5. /\ \A t \in fresh : t \notin U /\ t \notin waiting_for /\ t \notin graph.tasks
      /\ fresh \subseteq Task
  BY <1>2, <1>3 DEF Fresh, Alive
<1>6. ASSUME NEW p \in O, p # s.op, Linked(s.op, p) PROVE FALSE
  <2>1. p # Parent[s.op]
    BY <1>2, <1>6, WorkflowAssumption
  <2>2. <<s.op, p>> \in Needs
    BY <1>6, <2>1 DEF Linked
  <2> QED
    BY <1>1, <1>6, <2>2 DEF EngineInv, FreshInv, SelfNeed
<1> HIDE DEF O, n, new, fresh, U, kept, built, taken
<1>7. Tight(graph, waiting_for)
  BY <1>1 DEF EngineInv, FlightInv, ReadyFree, AppliedFree, NoneForgotten, Tight
<1>8. /\ Consistent(kept) /\ Tight(kept, waiting_for)
      /\ kept.tasks = graph.tasks \ (U \ {s})
      /\ \A t, d \in Task : d \in kept.dependencies[t] <=>
             t \notin U \ {s} /\ d \in graph.dependencies[t] /\ d \notin U \ {s}
  <2> DEFINE R == U \ {s}
  <2>1. R \in SUBSET Task /\ waiting_for \in SUBSET waiting_for /\ waiting_for \subseteq waiting_for \cup R
    BY <1>3
  <2>2. kept = RemoveTasks(graph, R)
    BY DEF kept
  <2> HIDE DEF R
  <2>3. Consistent(kept) /\ kept.tasks = graph.tasks \ R
    BY <1>0, <2>1, <2>2, RemoveTasksConsistent
  <2>4. /\ Tight(RemoveTasks(graph, R), waiting_for)
        /\ \A t \in Task : RemoveTasks(graph, R).dependencies[t] =
               IF t \in R THEN {} ELSE graph.dependencies[t] \ R
    BY <1>0, <1>7, <2>1, RemoveTasksTight
  <2>5. \A t, d \in Task : d \in kept.dependencies[t] <=>
             t \notin R /\ d \in graph.dependencies[t] /\ d \notin R
    BY <2>2, <2>4
  <2> QED
    BY <2>2, <2>3, <2>4, <2>5 DEF R
<1>9. /\ Consistent(built) /\ built.tasks = kept.tasks \cup fresh
      /\ Tight(built, waiting_for)
      /\ \A t \in Task \ fresh : built.dependencies[t] = kept.dependencies[t]
      /\ \A o, p \in O : o # p /\ Linked(o, p) =>
             FirstTask(p, n) \in built.dependencies[FirstTask(o, n)]
      /\ \A o \in O : built.dependencies[FirstTask(o, n)] \subseteq Wanted(o, O, n)
  <2>1. built = Build(kept, O, n) /\ fresh = TasksFor(O, n)
    BY DEF built, fresh
  <2>2. \A t \in TasksFor(O, n) : t \notin waiting_for /\ t \notin kept.tasks
    BY <1>5, <1>8, <2>1
  <2>3. Consistent(built) /\ built.tasks = kept.tasks \cup fresh
    BY <1>2, <1>8, <2>1, BuildConsistent
  <2>4. /\ Tight(Build(kept, O, n), waiting_for)
        /\ \A t \in Task \ TasksFor(O, n) :
               Build(kept, O, n).dependencies[t] = kept.dependencies[t]
        /\ \A o, p \in O : o # p /\ Linked(o, p) =>
               FirstTask(p, n) \in Build(kept, O, n).dependencies[FirstTask(o, n)]
        /\ \A o \in O : Build(kept, O, n).dependencies[FirstTask(o, n)] \subseteq Wanted(o, O, n)
    <3>1. Consistent(kept) /\ Tight(kept, waiting_for) /\ waiting_for \in SUBSET Task
      BY <1>0, <1>8
    <3>2. O \in SUBSET Op /\ n \in 0..MaxGen
      BY <1>2
    <3> QED
      BY <2>2, <3>1, <3>2, BuildTight
  <2> QED
    BY <2>1, <2>3, <2>4
<1>10. built.dependencies[new] = {}
  <2>1. ASSUME NEW d \in built.dependencies[new] PROVE FALSE
    <3>1. PICK p \in O : d = FirstTask(p, n) /\ Linked(s.op, p)
      BY <1>2, <1>9, <2>1 DEF Wanted, new
    <3>2. d # new
      BY <1>4, <1>9, <2>1 DEF Consistent, EdgesInside
    <3> QED
      BY <1>6, <3>1, <3>2 DEF new
  <2> QED
    BY <2>1
<1>11. built.dependencies[s] = {}
  <2>1. s \in Task \ fresh
    BY <1>3, <1>5
  <2>2. kept.dependencies[s] \subseteq Task
    BY <1>8 DEF Consistent, GraphType
  <2>3. kept.dependencies[s] = {}
    BY <1>1, <1>8, <2>2
  <2> QED
    BY <1>9, <2>1, <2>3
<1>12. /\ Consistent(taken) /\ taken.tasks = built.tasks
       /\ Tight(taken, waiting_for)
       /\ \A t, d \in Task : d \in taken.dependencies[t] <=>
             \/ d \in built.dependencies[t]
             \/ d = new /\ t # new /\ s \in built.dependencies[t]
  <2>1. s # new /\ new \notin waiting_for
    BY <1>3, <1>4, <1>5
  <2>2. Consistent(taken) /\ taken.tasks = built.tasks \cup {new}
    BY <1>4, <1>9, TakeOverConsistent DEF taken
  <2>3. /\ Tight(taken, waiting_for)
        /\ \A t, d \in Task : d \in taken.dependencies[t] <=>
             \/ d \in built.dependencies[t]
             \/ t = new /\ d # new /\ d \in built.dependencies[s]
             \/ d = new /\ t # new /\ s \in built.dependencies[t]
    <3>1. Consistent(built) /\ Tight(built, waiting_for)
      BY <1>9
    <3> QED
      BY <1>0, <1>4, <1>10, <2>1, <3>1, TakeOverTight DEF taken
  <2> QED
    BY <1>4, <1>9, <1>11, <2>2, <2>3
<1>13. ASSUME NEW g, Consistent(g), Tight(g, waiting_for), graph' = RemoveTasks(g, U)
       PROVE  /\ Tight(graph', waiting_for')
              /\ graph'.tasks = g.tasks \ U
              /\ \A t, d \in Task : d \in graph'.dependencies[t] <=>
                    t \notin U /\ d \in g.dependencies[t] /\ d \notin U
  <2> DEFINE V == waiting_for \ {s}
  <2>1. V \in SUBSET waiting_for /\ waiting_for \subseteq V \cup U
    BY <1>3
  <2> HIDE DEF V
  <2>2. graph'.tasks = g.tasks \ U
    BY <1>3, <1>13, RemoveTasksConsistent
  <2>3. /\ Tight(RemoveTasks(g, U), V)
        /\ \A t \in Task : RemoveTasks(g, U).dependencies[t] =
               IF t \in U THEN {} ELSE g.dependencies[t] \ U
    BY <1>0, <1>3, <1>13, <2>1, RemoveTasksTight
  <2> QED
    BY <1>1, <1>13, <2>2, <2>3 DEF V
<1>14. /\ Tight(graph', waiting_for')
       /\ graph'.tasks = built.tasks \ U
       /\ \A t, d \in Task : t \notin U /\ d \notin U /\ d \in built.dependencies[t]
              => d \in graph'.dependencies[t]
       /\ \A t, d \in Task : d \in graph'.dependencies[t] =>
              \/ d \in built.dependencies[t]
              \/ d = new /\ s \in built.dependencies[t]
       /\ error' = "none" => \A t \in Task : t \notin U /\ t # new /\ s \in built.dependencies[t]
                                 => new \in graph'.dependencies[t]
  <2>1. CASE graph' = RemoveTasks(taken, U)
    <3>1. /\ Tight(graph', waiting_for')
          /\ graph'.tasks = taken.tasks \ U
          /\ \A t, d \in Task : d \in graph'.dependencies[t] <=>
                 t \notin U /\ d \in taken.dependencies[t] /\ d \notin U
      BY <1>12, <1>13, <2>1
    <3>2. new \notin U
      BY <1>4, <1>5
    <3> QED
      BY <1>4, <1>12, <3>1, <3>2
  <2>2. CASE graph' = RemoveTasks(built, U) /\ error' # "none"
    BY <1>9, <1>13, <2>2
  <2> QED
    BY <1>1, <2>1, <2>2
<1>15. graph'.tasks = (graph.tasks \ U) \cup fresh
  BY <1>3, <1>5, <1>8, <1>9, <1>14
<1>16. \A t, d \in Task : d \in graph.dependencies[t] => t \notin fresh /\ d \notin fresh
  BY <1>0, <1>5 DEF Consistent, EdgesInside
<1>17. \A o \in O : FirstTask(o, n) \in fresh
  BY DEF fresh, TasksFor
<1>18. \A t, d \in Task : t \notin fresh =>
          (d \in built.dependencies[t] <=>
             t \notin U \ {s} /\ d \in graph.dependencies[t] /\ d \notin U \ {s})
  BY <1>8, <1>9
<1>19. \A o, p \in O : o # p /\ Linked(o, p) =>
          FirstTask(p, n) \in graph'.dependencies[FirstTask(o, n)]
  BY <1>5, <1>9, <1>14, <1>17
<1>20. \A t, d \in Task : t \notin U /\ d \notin U /\ d \in graph.dependencies[t]
          => d \in graph'.dependencies[t]
  BY <1>14, <1>16, <1>18
<1>21. error' = "none" => \A t \in Task : t \notin U /\ s \in graph.dependencies[t]
                              => new \in graph'.dependencies[t]
  BY <1>4, <1>14, <1>16, <1>18
<1>22. ASSUME NEW t \in Task, NEW d \in Task, d \in graph'.dependencies[t]
       PROVE  \/ d \in graph.dependencies[t]
              \/ d = new /\ s \in graph.dependencies[t]
              \/ \E o, p \in O : /\ t = FirstTask(o, n) /\ d = FirstTask(p, n)
                                 /\ Linked(o, p)
  <2>1. CASE t \notin fresh
    BY <1>14, <1>18, <1>22, <2>1
  <2>2. CASE t \in fresh
    <3>1. t.op \in O /\ t = FirstTask(t.op, n)
      BY <1>2, <2>2
    <3>2. built.dependencies[t] \subseteq Wanted(t.op, O, n)
      BY <1>9, <3>1
    <3>3. s \notin built.dependencies[t]
      <4>1. s # FirstTask(s.op, n) /\ \A p \in O : s # FirstTask(p, n)
        BY <1>3, <1>5, <1>17, <1>2
      <4> QED
        BY <3>2, <4>1 DEF Wanted
    <3>4. d \in built.dependencies[t]
      BY <1>14, <1>22, <3>3
    <3> QED
      BY <3>1, <3>2, <3>4 DEF Wanted
  <2> QED
    BY <2>1, <2>2
<1> QED
  BY <1>14, <1>15, <1>19, <1>20, <1>21, <1>22 DEF O, n, new, fresh, U

(* What stays in the graph and what is built are nested apart, so every    *)
(* clause follows for one or for the other.                                *)
LEMMA RebuildKeeps ==
    ASSUME ConsistencyInv, EngineInv, ConsistencyInv', NEW s \in Task, HandleRebuild(s)
    PROVE  EngineInv'
<1> DEFINE O     == Inside(s.op)
           n     == s.gen + 1
           new   == FirstTask(s.op, n)
           fresh == TasksFor(O, n)
           U     == Under(s)
<1>0. /\ TypeOK /\ waiting_for \subseteq Task /\ graph.tasks \subseteq Task
      /\ finished_tasks \subseteq waiting_for /\ timers \subseteq waiting_for \ finished_tasks
      /\ \A u \in Task : subtasks[u] \subseteq Task
      /\ graph'.tasks \subseteq Task /\ graph'.ready \subseteq Task
  BY DEF ConsistencyInv, TypeOK, GraphType, EngineInv, FlightInv, InFlight
<1>1. /\ s \in finished_tasks /\ s \in waiting_for /\ s \in graph.tasks /\ s \in Alive
      /\ IsSubgraph(s) /\ ~Contained(s) /\ state[s] = "failed" /\ s.gen < MaxGen
      /\ error # "crashed" /\ error' # "crashed"
      /\ waiting_for' = waiting_for \ {s} /\ finished_tasks' = finished_tasks \ {s}
      /\ UNCHANGED <<pc, state, result, subtasks, failed_task, timers>>
  BY DEF HandleRebuild, Popped, Rebuilds, FailOnce, EngineInv, FlightInv, InFlight, Alive
<1>2. /\ s.op \in O /\ O \in SUBSET Op /\ s.op \in Op /\ s.gen \in Nat
      /\ \A t \in fresh : /\ t \in Task /\ t.op \in O /\ t.gen = n /\ t.try = 0
                          /\ t = FirstTask(t.op, n) /\ Root(t.op) = s.op /\ Fresh(t)
      /\ \A t \in Task : Root(t.op) = s.op /\ t.gen > s.gen => Fresh(t)
      /\ Parent[s.op] = NoOp /\ Root(s.op) = s.op
      /\ n > s.gen /\ n \in 0..MaxGen
      /\ \A o \in O : FirstTask(o, n) \in fresh
  BY <1>0, <1>1, RebuiltFresh DEF TasksFor
<1>3. /\ \A u \in U : /\ u \in Task /\ u.gen = s.gen
                      /\ u # s => /\ Contained(u) /\ Container(u) \in U
                                  /\ \/ Container(u) = s
                                     \/ /\ Contained(Container(u))
                                        /\ Container(Container(u)) = s
      /\ s \in U
      /\ \A u \in Alive : Contained(u) /\ Container(u) \in U => u \in U
      /\ \A x \in Task : \A u \in subtasks[x] : u \in U /\ u # s => x \in U
  BY <1>0, UnderShape, UnderIsTasks DEF EngineInv, BooksInv
<1>4. /\ Tight(graph', waiting_for')
      /\ graph'.tasks = (graph.tasks \ U) \cup fresh
      /\ \A o, p \in O : o # p /\ Linked(o, p) =>
            FirstTask(p, n) \in graph'.dependencies[FirstTask(o, n)]
      /\ \A t, d \in Task :
            t \notin U /\ d \notin U /\ d \in graph.dependencies[t]
            => d \in graph'.dependencies[t]
  BY RebuildEffect
<1>5. s \notin fresh
  BY <1>1, <1>2 DEF Fresh
<1>6. /\ \A t \in Task : t.try \in Nat /\ t.gen \in Nat /\ t.op \in Op
      /\ Alive' \subseteq Task /\ Alive \subseteq Task
      /\ \A t \in Alive' : t \in Alive \/ t \in fresh
      /\ \A t \in graph'.tasks : (t \in graph.tasks /\ t \notin U) \/ t \in fresh
      /\ \A t \in fresh : t \notin Alive /\ state[t] = "pending"
      /\ \A t \in Task : Fresh(t) /\ t \notin fresh => Fresh(t)'
  BY <1>0, <1>1, <1>2, <1>4, TaskFields DEF Alive, Fresh
<1>7. ASSUME NEW t \in fresh, Contained(t)
      PROVE  /\ Container(t) \in fresh /\ Container(t) # t
             /\ Parent[t.op] \in O /\ t.op # Parent[t.op]
             /\ Container(t) = FirstTask(Parent[t.op], n)
  <2>1. t \in Task /\ t.op \in O /\ t.op \in Op /\ t.op # s.op /\ t.gen = n /\ t = FirstTask(t.op, n)
    BY <1>1, <1>2, <1>7 DEF Contained
  <2>2. Parent[t.op] \in O
    BY <1>2, <2>1, RootShape
  <2>3. Container(t) = FirstTask(Parent[t.op], n)
    BY <2>1 DEF Container
  <2>4. Container(t) # t
    BY <2>1, <1>7, ContainerShape
  <2> QED
    BY <1>2, <2>1, <2>2, <2>3, <2>4
<1>8. ASSUME NEW x \in fresh PROVE subtasks[x] \subseteq fresh
  <2>1. x \in Task /\ x.op \in O /\ x.gen = n /\ x.try = 0 /\ state[x] = "pending"
    BY <1>2, <1>6
  <2>2. CASE IsSubgraph(x)
    <3>1. subtasks[x] = TasksFor(Members(x.op), n)
      BY <2>1, <2>2 DEF EngineInv, BooksInv, PendingLists
    <3>2. Members(x.op) \subseteq O
      BY <1>2, <2>1, <2>2, InsideMembers DEF IsSubgraph
    <3> QED
      BY <3>1, <3>2 DEF TasksFor
  <2>3. CASE ~IsSubgraph(x)
    BY <1>0, <2>1, <2>3, ContainerShape DEF EngineInv, BooksInv, ListsOwn
  <2> QED
    BY <2>2, <2>3
<1>9. ASSUME NEW x \in Task, x \notin U PROVE subtasks[x] \cap U = {}
  <2>1. ASSUME NEW u \in subtasks[x], u \in U PROVE FALSE
    <3>1. Contained(u) /\ u # s
      BY <1>1, <2>1 DEF EngineInv, BooksInv, ListsOwn
    <3> QED
      BY <1>3, <1>9, <2>1, <3>1
  <2> QED
    BY <2>1
<1> HIDE DEF O, n, fresh, U
<1>10. FlightInv'
  <2>1. ReadyFree' /\ AppliedFree' /\ NoneForgotten'
    BY <1>4 DEF Tight, ReadyFree, AppliedFree, NoneForgotten
  <2>2. InFlight'
    <3>1. \A t \in waiting_for' : Contained(t) \/ t \in graph'.tasks
      BY <1>1, <1>3, <1>4 DEF EngineInv, FlightInv, InFlight
    <3> QED
      BY <1>0, <1>1, <3>1 DEF InFlight, Contained
  <2>3. PendingFirst'
    <3>1. \A t \in graph'.tasks \ waiting_for' : state[t] = "pending"
      BY <1>0, <1>1, <1>3, <1>6 DEF EngineInv, FlightInv, PendingFirst
    <3>2. \A t \in graph'.ready : t \in graph'.tasks \ waiting_for'
      BY <2>1 DEF ReadyFree, ReadyIsFree, AppliedFree
    <3> QED
      BY <1>1, <3>1, <3>2 DEF EngineInv, FlightInv, PendingFirst, IsSubgraph
  <2>4. SentInFlight'
    BY <1>1 DEF EngineInv, FlightInv, SentInFlight, IsSubgraph
  <2>5. SubgraphStates'
    BY <1>1, <1>2, <1>6 DEF EngineInv, FlightInv, SubgraphStates, IsSubgraph
  <2>6. FinishedFits'
    BY <1>1 DEF EngineInv, FlightInv, FinishedFits, Fits, IsSubgraph
  <2> QED
    BY <2>1, <2>2, <2>3, <2>4, <2>5, <2>6 DEF FlightInv
<1>11. BooksInv'
  <2>1. ListedAll'
    <3>1. ASSUME NEW t \in fresh, Contained(t) PROVE t \in subtasks[Container(t)]
      <4>1. Container(t) \in fresh /\ Container(t) = FirstTask(Parent[t.op], n)
        BY <1>7, <3>1
      <4>2. /\ t \in Task /\ t.op \in Op /\ t = FirstTask(t.op, n)
            /\ Container(t) \in Task /\ Container(t).gen = n /\ Container(t).try = 0
            /\ state[Container(t)] = "pending"
        BY <1>2, <1>6, <4>1
      <4>3. IsSubgraph(Container(t)) /\ Container(t).op = Parent[t.op]
        BY <3>1, <4>2, ContainerShape
      <4>4. subtasks[Container(t)] = TasksFor(Members(Parent[t.op]), n)
        BY <4>2, <4>3 DEF EngineInv, BooksInv, PendingLists
      <4>5. t.op \in Members(Parent[t.op])
        BY <4>2 DEF Members
      <4> QED
        BY <4>2, <4>4, <4>5 DEF TasksFor
    <3> QED
      BY <1>1, <1>6, <3>1 DEF EngineInv, BooksInv, ListedAll, Contained, Container, FirstTask
  <2>2. ListsOwn'
    BY <1>1 DEF EngineInv, BooksInv, ListsOwn, Contained, Container, FirstTask
  <2>3. PendingLists'
    BY <1>1 DEF EngineInv, BooksInv, PendingLists, IsSubgraph, TasksFor, Members, FirstTask
  <2>4. StartsFirst'
    BY <1>1 DEF EngineInv, BooksInv, StartsFirst, Contained, Container, FirstTask
  <2>5. ASSUME NEW t \in graph'.tasks, Contained(t), state[Container(t)] = "pending"
        PROVE  Container(t) \in graph'.dependencies[t]
    <3>1. CASE t \in graph.tasks /\ t \notin U
      <4>1. Container(t) \in graph.dependencies[t] /\ Container(t) \in Task /\ t \in Task
        BY <1>0, <2>5, <3>1, ContainerIsTask DEF EngineInv, BooksInv, Held
      <4>2. Container(t) \notin U
        BY <1>3, <2>5, <3>1 DEF Alive
      <4> QED
        BY <1>4, <3>1, <4>1, <4>2
    <3>2. CASE t \in fresh
      <4>1. /\ Parent[t.op] \in O /\ t.op # Parent[t.op] /\ t.op \in O
            /\ Container(t) = FirstTask(Parent[t.op], n) /\ t = FirstTask(t.op, n)
        BY <1>2, <1>7, <2>5, <3>2
      <4>2. Linked(t.op, Parent[t.op])
        BY DEF Linked
      <4> QED
        BY <1>4, <4>1, <4>2
    <3> QED
      BY <1>6, <3>1, <3>2
  <2>6. Held'
    BY <1>1, <2>5 DEF Held, Contained, Container, FirstTask
  <2>7. ASSUME NEW x \in graph'.tasks, state[x] = "pending"
        PROVE  subtasks[x] \subseteq graph'.tasks
    <3>1. CASE x \in graph.tasks /\ x \notin U
      <4>1. subtasks[x] \subseteq graph.tasks
        BY <2>7, <3>1 DEF EngineInv, BooksInv, AllThere
      <4>2. subtasks[x] \cap U = {}
        BY <1>0, <1>9, <3>1
      <4> QED
        BY <1>4, <4>1, <4>2
    <3>2. CASE x \in fresh
      BY <1>4, <1>8, <3>2
    <3> QED
      BY <1>6, <3>1, <3>2
  <2>8. AllThere'
    BY <1>1, <2>7 DEF AllThere
  <2> QED
    BY <2>1, <2>2, <2>3, <2>4, <2>6, <2>8 DEF BooksInv
<1>12. FreshInv'
  <2>1. OneAttempt'
    <3>1. ASSUME NEW t \in Alive', NEW u \in Alive', t.op = u.op, t.gen = u.gen PROVE t = u
      <4>1. ASSUME NEW x \in Alive, NEW y \in fresh, x.op = y.op, x.gen = y.gen PROVE FALSE
        <5>1. x \in Task /\ Root(x.op) = s.op /\ x.gen > s.gen
          BY <1>2, <1>6, <4>1
        <5> QED
          BY <1>2, <4>1, <5>1 DEF Fresh
      <4>2. CASE t \in Alive /\ u \in Alive
        BY <3>1, <4>2 DEF EngineInv, FreshInv, OneAttempt
      <4>3. CASE t \in fresh /\ u \in fresh
        BY <1>2, <3>1, <4>3
      <4> QED
        BY <1>6, <3>1, <4>1, <4>2, <4>3
    <3> QED
      BY <3>1 DEF OneAttempt
  <2>2. ASSUME NEW t \in Alive', NEW u \in Task, u.op = t.op, u.gen = t.gen, u.try > t.try
        PROVE  Fresh(u)'
    <3>1. t \in Task /\ u.try # 0
      BY <1>6, <2>2
    <3>2. u \notin fresh
      BY <1>2, <3>1
    <3>3. CASE t \in Alive
      BY <1>6, <2>2, <3>2, <3>3 DEF EngineInv, FreshInv, FreshTries
    <3>4. CASE t \in fresh
      <4>1. Root(u.op) = s.op /\ u.gen > s.gen
        BY <1>2, <2>2, <3>4
      <4> QED
        BY <1>2, <1>6, <3>2, <4>1
    <3> QED
      BY <1>6, <3>3, <3>4
  <2>3. FreshTries'
    BY <2>2 DEF FreshTries
  <2>4. ASSUME NEW v \in graph'.tasks, NEW u \in Task, IsSubgraph(v), Root(u.op) = v.op,
               u.gen > v.gen
        PROVE  Fresh(u)'
    <3>1. CASE v \in fresh
      <4>1. v.op \in Op /\ Parent[v.op] = NoOp /\ v.gen = n /\ Root(v.op) = s.op
        BY <1>0, <1>2, <1>6, <2>4, <3>1, RootShape
      <4>2. v.op = s.op
        BY <4>1 DEF Root
      <4>3. u.gen > s.gen /\ u.gen # n
        BY <1>2, <1>6, <2>4, <4>1
      <4> QED
        BY <1>2, <1>6, <2>4, <4>2, <4>3
    <3>2. CASE v \in graph.tasks /\ v \notin U
      <4>1. v \in Task /\ Fresh(u)
        BY <1>0, <2>4, <3>2 DEF EngineInv, FreshInv, FreshBuilds
      <4>2. ASSUME u \in fresh PROVE FALSE
        <5>1. v.op = s.op /\ u.gen = n
          BY <1>2, <2>4, <4>2
        <5>2. v.gen # s.gen
          BY <1>1, <1>3, <3>2, <5>1 DEF EngineInv, FreshInv, OneAttempt, Alive
        <5>3. v.gen < s.gen
          BY <1>6, <2>4, <4>1, <5>1, <5>2 DEF n
        <5>4. Fresh(s)
          BY <1>2, <2>4, <3>2, <5>1, <5>3 DEF EngineInv, FreshInv, FreshBuilds
        <5> QED
          BY <1>1, <5>4 DEF Fresh
      <4> QED
        BY <1>6, <4>1, <4>2
    <3> QED
      BY <1>6, <3>1, <3>2
  <2>5. FreshBuilds'
    BY <2>4 DEF FreshBuilds, IsSubgraph, Root
  <2>6. ASSUME NEW v \in graph'.tasks, NEW e \in Needs, IsSubgraph(v), ~Contained(v),
               e[1] = v.op, e[2] \in Inside(v.op) \ {v.op}
        PROVE  v \notin waiting_for' /\ FirstTask(e[2], v.gen) \in graph'.dependencies[v]
    <3>1. CASE v \in fresh
      <4>1. v.op = s.op
        BY <1>2, <2>6, <3>1 DEF Root, Contained
      <4> QED
        BY <1>1, <2>6, <4>1 DEF EngineInv, FreshInv, SelfNeed
    <3>2. CASE v \in graph.tasks /\ v \notin U
      <4> DEFINE x == FirstTask(e[2], v.gen)
      <4>1. /\ v \notin waiting_for /\ x \in graph.dependencies[v]
            /\ x \in Task /\ Contained(x)
            /\ Container(x) = v \/ Container(Container(x)) = v
        BY <1>0, <1>1, <2>6, <3>2, NeededInside
      <4> HIDE DEF x
      <4>2. ASSUME x \in U PROVE FALSE
        <5>1. /\ Container(x) \in U
              /\ Container(x) = s \/ Container(Container(x)) = s
          BY <1>1, <1>3, <4>1, <4>2
        <5>2. Container(Container(x)) = v /\ Container(x) = s
          BY <1>3, <3>2, <4>1, <5>1
        <5>3. v.op = NoOp
          BY <1>2, <5>2 DEF Container, FirstTask
        <5> QED
          BY <1>0, <1>6, <3>2, <5>3, WorkflowAssumption
      <4>3. x \in graph'.dependencies[v]
        BY <1>0, <1>4, <3>2, <4>1, <4>2
      <4> QED
        BY <1>1, <4>1, <4>3 DEF x
    <3> QED
      BY <1>6, <3>1, <3>2
  <2>7. SelfNeed'
    BY <2>6 DEF SelfNeed, IsSubgraph, Contained, Inside, FirstTask
  <2> QED
    BY <2>1, <2>3, <2>5, <2>7 DEF FreshInv
<1> QED
  BY <1>10, <1>11, <1>12 DEF EngineInv

-----------------------------------------------------------------------------
(* Results that are delivered twice.  What was handled twice stays out of  *)
(* the graph, and only that starts another line of retries at top level.   *)

(* The tasks whose result is, or was, delivered a second time. *)
Twice == redelivery.due \cup redelivery.again \cup redelivery.handled

(* Such a task has its answer; it is handled once, or yet to be. *)
TwiceAnswered ==
    \A t \in Twice :
        /\ ~IsSubgraph(t)
        /\ state[t] \notin {"pending", "sent"}
        /\ t \in redelivery.due \cap waiting_for \cap finished_tasks \/ t \notin Alive

TwiceOnce ==
    /\ redelivery.due \cap (redelivery.again \cup redelivery.handled) = {}
    /\ redelivery.again \cap redelivery.handled = {}
    /\ \A t, v \in Twice : ~Contained(t) /\ t.op = v.op /\ t.gen = v.gen => t = v

AtTop(t) == ~IsSubgraph(t) /\ ~Contained(t)

(* An operation at top level with an earlier result handled twice for each *)
(* line of retries before this one.                                        *)
LinesTold(u) ==
    \A g \in 0..MaxGen : g < u.gen =>
        \E v \in redelivery.handled : v.op = u.op /\ v.gen = g

Lines == \A u \in Task : AtTop(u) /\ ~Fresh(u) => LinesTold(u)

TwiceInv == TwiceAnswered /\ TwiceOnce /\ Lines

(* What a step may not do to what has been delivered. *)
EndsStay ==
    \A t \in Task : state[t] \in {"succeeded", "failed"} =>
        state'[t] = state[t] /\ result'[t] = result[t]

(* What joins the graph or flies was alive or was never made before. *)
OnlyFreshJoin == \A t \in Task : t \in Alive' => t \in Alive \/ Fresh(t)

(* What every step but a second handling does to the operations: answers   *)
(* stay, a delivered result waits until its task leaves, and an operation  *)
(* at top level has a new task only in a line of retries it has already.   *)
OperationsGoOn ==
    /\ EndsStay /\ OnlyFreshJoin
    /\ \A t \in Task : ~IsSubgraph(t) =>
          /\ state[t] \notin {"pending", "sent"} => state'[t] = state[t]
          /\ t \in finished_tasks \cap waiting_for =>
                 t \in finished_tasks' \cap waiting_for' \/ t \notin Alive'
    /\ \A u \in Task : AtTop(u) /\ Fresh(u) =>
          Fresh(u)' \/ \E w \in Alive : w.op = u.op /\ w.gen = u.gen

LEMMA InitTwice == Init => TwiceInv
<1> SUFFICES ASSUME Init PROVE TwiceInv
  OBVIOUS
<1>1. Twice = {}
  BY DEF Init, Twice
<1>2. ConsistencyInv /\ 0 \in 0..MaxGen /\ Op \in SUBSET Op
  BY InitConsistency, BoundAssumption
<1>3. graph.tasks = TasksFor(Op, 0) /\ waiting_for = {}
  <2>1. Build(EmptyGraph, Op, 0).tasks = EmptyGraph.tasks \cup TasksFor(Op, 0)
    BY <1>2, EmptyGraphConsistent, BuildConsistent
  <2> QED
    BY <2>1 DEF Init, EmptyGraph
<1>4. ASSUME NEW u \in Task, ~Fresh(u) PROVE u.gen = 0
  <2>1. u \in TasksFor(Op, 0)
    BY <1>3, <1>4 DEF Init, Fresh, Alive
  <2> QED
    BY <1>2, <2>1, FirstTaskIsTask DEF TasksFor
<1>5. Lines
  BY <1>4, BoundAssumption DEF Lines, LinesTold
<1> QED
  BY <1>1, <1>5 DEF Init, TwiceInv, TwiceAnswered, TwiceOnce, Twice

LEMMA TwiceKept ==
    ASSUME ConsistencyInv, TwiceInv, OperationsGoOn, redelivery' = redelivery
    PROVE  TwiceInv'
<1>0. /\ Twice' = Twice /\ Twice \subseteq Task
      /\ Alive \subseteq Task
  BY DEF Twice, Alive, ConsistencyInv, TypeOK, GraphType
<1>1. TwiceAnswered'
  <2>1. ASSUME NEW t \in Twice
        PROVE  /\ ~IsSubgraph(t)
               /\ state'[t] \notin {"pending", "sent"}
               /\ t \in redelivery.due \cap waiting_for' \cap finished_tasks' \/ t \notin Alive'
    <3>1. /\ t \in Task /\ ~IsSubgraph(t) /\ state[t] \notin {"pending", "sent"}
          /\ t \in redelivery.due \cap waiting_for \cap finished_tasks \/ t \notin Alive
      BY <1>0, <2>1 DEF TwiceInv, TwiceAnswered
    <3>2. state'[t] = state[t] /\ ~Fresh(t)
      BY <3>1 DEF OperationsGoOn, Fresh
    <3> QED
      BY <3>1, <3>2 DEF OperationsGoOn, OnlyFreshJoin
  <2> QED
    BY <1>0, <2>1 DEF TwiceAnswered, IsSubgraph
<1>2. TwiceOnce'
  BY <1>0 DEF TwiceInv, TwiceOnce, Contained
<1>3. Lines'
  <2>1. ASSUME NEW u \in Task, AtTop(u), ~Fresh(u)' PROVE LinesTold(u)
    <3>1. CASE ~Fresh(u)
      BY <2>1, <3>1 DEF TwiceInv, Lines
    <3>2. CASE Fresh(u)
      <4>1. PICK w \in Alive : w.op = u.op /\ w.gen = u.gen
        BY <2>1, <3>2 DEF OperationsGoOn
      <4>2. w \in Task /\ ~Fresh(w) /\ AtTop(w)
        BY <1>0, <2>1, <4>1 DEF Fresh, AtTop, IsSubgraph, Contained
      <4>3. LinesTold(w)
        BY <4>2 DEF TwiceInv, Lines
      <4> QED
        BY <4>1, <4>3 DEF LinesTold
    <3> QED
      BY <3>1, <3>2
  <2> QED
    BY <2>1 DEF Lines, LinesTold, AtTop, IsSubgraph, Contained
<1> QED
  BY <1>1, <1>2, <1>3 DEF TwiceInv

(* The steps that take nothing out of the graph. *)
LEMMA GoOnApplied ==
    ASSUME ConsistencyInv, EngineInv, NEW t \in Task, t \in Alive,
           graph'.tasks = graph.tasks,
           waiting_for \subseteq waiting_for', waiting_for' \subseteq waiting_for \cup {t},
           finished_tasks \subseteq finished_tasks',
           state[t] \in {"pending", "sent"},
           \A u \in Task : u # t => state'[u] = state[u] /\ result'[u] = result[u]
    PROVE  OperationsGoOn
<1>1. Alive' = Alive
  BY DEF Alive
<1>2. \A u \in Task : Fresh(u) => Fresh(u)'
  BY <1>1 DEF Fresh
<1>3. EndsStay /\ OnlyFreshJoin
  BY <1>1 DEF EndsStay, OnlyFreshJoin
<1> QED
  BY <1>2, <1>3 DEF OperationsGoOn

LEMMA GoOnQuiet ==
    ASSUME UNCHANGED <<graph, waiting_for, finished_tasks, state, result>>
    PROVE  OperationsGoOn
BY DEF OperationsGoOn, EndsStay, OnlyFreshJoin, Alive, Fresh

LEMMA GoOnRun ==
    ASSUME ConsistencyInv, EngineInv, NEW t \in Task, Run(t)
    PROVE  OperationsGoOn
<1>0. TypeOK /\ Consistent(graph) /\ \A u \in Task : subtasks[u] \subseteq Task
  BY DEF ConsistencyInv, TypeOK
<1>1. /\ t \in graph.ready /\ t \in graph.tasks /\ state[t] = "pending"
      /\ waiting_for' = waiting_for \cup {t}
  BY DEF Run, RunOperation, RunSubgraph, EngineInv, FlightInv, ReadyFree, ReadyIsFree, PendingFirst
<1>2. CASE RunOperation(t)
  <2>1. graph'.tasks = graph.tasks /\ ~IsSubgraph(t)
    BY <1>0, <1>2 DEF RunOperation, Consistent, GraphType
  <2>2. \A u \in Task : u # t => state'[u] = state[u] /\ result'[u] = result[u]
    BY <1>0, <1>2, <2>1, SendEffect DEF RunOperation
  <2>3. finished_tasks \subseteq finished_tasks'
    BY <1>0, <1>2, <2>1, SendEffect DEF RunOperation
  <2> QED
    BY <1>1, <2>1, <2>2, <2>3, GoOnApplied DEF Alive
<1>3. CASE RunSubgraph(t)
  <2> DEFINE popped == [graph EXCEPT !.ready = @ \ {t}]
  <2>1. /\ Consistent(popped) /\ popped.tasks = graph.tasks
        /\ graph' = ReleaseFrom(popped, t, subtasks[t])
    BY <1>0, <1>3, PopConsistent DEF RunSubgraph, Consistent, GraphType
  <2> HIDE DEF popped
  <2>2. graph'.tasks = graph.tasks
    BY <1>0, <2>1, ReleaseFromConsistent
  <2>3. /\ \A u \in Task : u # t => state'[u] = state[u]
        /\ finished_tasks \subseteq finished_tasks'
        /\ result' = result /\ IsSubgraph(t)
    BY <1>0, <1>3 DEF RunSubgraph, TypeOK
  <2> QED
    BY <1>1, <2>2, <2>3, GoOnApplied DEF Alive
<1> QED
  BY <1>2, <1>3 DEF Run

LEMMA GoOnDue ==
    ASSUME ConsistencyInv, EngineInv, NEW t \in Task, Finish(t) \/ TimerFires(t)
    PROVE  OperationsGoOn
<1>0. TypeOK
  BY DEF ConsistencyInv
<1>1. /\ ~IsSubgraph(t) /\ state[t] \in {"pending", "sent"} /\ t \in waiting_for
      /\ UNCHANGED <<graph, waiting_for>>
  BY DEF Finish, TimerFires, EngineInv, FlightInv, SentInFlight, PendingFirst, InFlight
<1>2. \A u \in Task : u # t => state'[u] = state[u] /\ result'[u] = result[u]
  BY <1>0, <1>1, SendEffect DEF Finish, Settle, TimerFires, TypeOK
<1>3. finished_tasks \subseteq finished_tasks'
  BY <1>0, <1>1, SendEffect DEF Finish, Settle, TimerFires
<1> QED
  BY <1>1, <1>2, <1>3, GoOnApplied DEF Alive

LEMMA GoOnLeaves ==
    ASSUME ConsistencyInv, EngineInv, NEW t \in Task, NEW R, Leaves(t, R),
           IsSubgraph(t) \/ R = Under(t)
    PROVE  OperationsGoOn
<1>0. /\ TypeOK /\ Consistent(graph) /\ t \in finished_tasks
      /\ graph' = RemoveTasks(graph, R) /\ R \in {Under(t), Under(t) \ {t}}
      /\ waiting_for' = waiting_for \ {t} /\ result' = result
  BY DEF ConsistencyInv, Leaves
<1>1. R \in SUBSET Task /\ (IsSubgraph(t) \/ t \in R)
  BY <1>0, UnderIsTasks
<1>2. graph'.tasks = graph.tasks \ R
  BY <1>0, <1>1, RemoveTasksConsistent
<1>3. Alive' \subseteq Alive
  BY <1>0, <1>2 DEF Alive
<1>4. \A u \in Task : ~IsSubgraph(u) => state'[u] = state[u]
  BY ContainerShape DEF Leaves
<1>5. ASSUME NEW u \in Task, ~IsSubgraph(u), u \in finished_tasks \cap waiting_for
      PROVE  u \in finished_tasks' \cap waiting_for' \/ u \notin Alive'
  <2>1. CASE u = t
    BY <1>0, <1>1, <1>2, <1>5, <2>1 DEF Alive
  <2>2. CASE u # t
    BY <1>0, <1>5, <2>2 DEF Leaves
  <2> QED
    BY <2>1, <2>2
<1>6. \A u \in Task : ~IsSubgraph(u) /\ Fresh(u) => Fresh(u)'
  BY <1>0, <1>3, <1>4 DEF Fresh
<1>7. EndsStay /\ OnlyFreshJoin
  BY <1>0, <1>3 DEF Leaves, EndsStay, OnlyFreshJoin
<1> QED
  BY <1>4, <1>5, <1>6, <1>7 DEF OperationsGoOn, AtTop

LEMMA GoOnRetry ==
    ASSUME ConsistencyInv, EngineInv, NEW t \in Task, HandleRetry(t)
    PROVE  OperationsGoOn
<1> DEFINE new == Duplicate(t)
<1>0. TypeOK /\ Consistent(graph)
  BY DEF ConsistencyInv
<1>1. /\ t \in finished_tasks /\ t \in waiting_for /\ t \in Alive
      /\ waiting_for' = waiting_for \ {t} /\ result' = result
      /\ graph' = RemoveTasks(TakeOver(graph, t, new), {t})
      /\ TellContainer(t, FALSE, {new})
      /\ t.try < MaxTry
  BY DEF HandleRetry, Popped, EngineInv, FlightInv, InFlight, Alive
<1>2. /\ new \in Task /\ new.op = t.op /\ new.gen = t.gen /\ new.try > t.try /\ new # t
  BY <1>1, DuplicateIsTask, TaskFields, BoundAssumption
<1>3. Fresh(new)
  BY <1>1, <1>2 DEF EngineInv, FreshInv, FreshTries
<1> HIDE DEF new
<1>4. graph'.tasks = (graph.tasks \cup {new}) \ {t}
  <2>1. /\ Consistent(TakeOver(graph, t, new))
        /\ TakeOver(graph, t, new).tasks = graph.tasks \cup {new}
    BY <1>0, <1>2, TakeOverConsistent
  <2>2. {t} \in SUBSET Task
    OBVIOUS
  <2> QED
    BY <1>1, <2>1, <2>2, RemoveTasksConsistent
<1>5. /\ \A u \in Task :
            \/ state'[u] = state[u]
            \/ /\ Contained(t) /\ u = Container(t)
               /\ state[u] = "started"
      /\ \A u \in Task : u \in finished_tasks' <=>
            (u \in finished_tasks /\ u # t) \/ state'[u] # state[u]
  <2>1. {new} \in SUBSET Task /\ FALSE \in BOOLEAN
    BY <1>2
  <2> QED
    BY <1>1, <2>1, TellContainerEffect
<1>6. \A u \in Task : ~IsSubgraph(u) => state'[u] = state[u]
  BY <1>5, ContainerShape
<1>7. Alive' = (Alive \cup {new}) \ {t}
  BY <1>1, <1>2, <1>3, <1>4 DEF Alive, Fresh
<1>8. EndsStay /\ OnlyFreshJoin
  BY <1>1, <1>3, <1>5, <1>7 DEF EndsStay, OnlyFreshJoin
<1>9. ASSUME NEW u \in Task, ~IsSubgraph(u), Fresh(u)
      PROVE  Fresh(u)' \/ \E w \in Alive : w.op = u.op /\ w.gen = u.gen
  <2>1. CASE u = new
    BY <1>1, <1>2, <2>1
  <2>2. CASE u # new
    BY <1>1, <1>6, <1>7, <1>9, <2>2 DEF Fresh
  <2> QED
    BY <2>1, <2>2
<1>10. ASSUME NEW u \in Task, u \in finished_tasks \cap waiting_for
       PROVE  u \in finished_tasks' \cap waiting_for' \/ u \notin Alive'
  BY <1>1, <1>5, <1>7, <1>10
<1> QED
  BY <1>6, <1>8, <1>9, <1>10 DEF OperationsGoOn, AtTop

LEMMA GoOnRebuild ==
    ASSUME ConsistencyInv, EngineInv, NEW s \in Task, HandleRebuild(s)
    PROVE  OperationsGoOn
<1> DEFINE fresh == TasksFor(Inside(s.op), s.gen + 1)
<1>0. TypeOK
  BY DEF ConsistencyInv
<1>1. /\ s \in finished_tasks /\ s \in graph.tasks /\ IsSubgraph(s) /\ ~Contained(s)
      /\ s.gen < MaxGen
      /\ waiting_for' = waiting_for \ {s}
      /\ finished_tasks' = finished_tasks \ {s}
      /\ UNCHANGED <<state, result>>
  BY DEF HandleRebuild, Popped, Rebuilds, EngineInv, FlightInv, InFlight
<1>2. graph'.tasks = (graph.tasks \ Under(s)) \cup fresh
  BY RebuildEffect
<1>3. /\ \A t \in fresh : t \in Task /\ Fresh(t) /\ t.op \in Inside(s.op)
      /\ s.op \in Op /\ Parent[s.op] = NoOp /\ Inside(s.op) \in SUBSET Op
  BY <1>0, <1>1, RebuiltFresh
<1> HIDE DEF fresh
<1>4. EndsStay /\ OnlyFreshJoin
  BY <1>1, <1>2, <1>3 DEF EndsStay, OnlyFreshJoin, Alive
<1>5. ASSUME NEW u \in Task, AtTop(u), Fresh(u) PROVE Fresh(u)'
  <2>1. u \notin fresh
    <3> SUFFICES ASSUME u \in fresh PROVE FALSE
      OBVIOUS
    <3>1. u.op \in Op /\ u.op \in Inside(s.op) /\ u.op # s.op
      BY <1>1, <1>3, <1>5 DEF AtTop, IsSubgraph
    <3>2. Parent[u.op] \in Inside(s.op)
      BY <1>3, <3>1, RootShape
    <3> QED
      BY <1>3, <1>5, <3>2, WorkflowAssumption DEF AtTop, Contained
  <2> QED
    BY <1>1, <1>2, <1>5, <2>1 DEF Fresh, Alive
<1>6. ASSUME NEW u \in Task, ~IsSubgraph(u), u \in finished_tasks \cap waiting_for
      PROVE  u \in finished_tasks' \cap waiting_for'
  BY <1>1, <1>6
<1> QED
  BY <1>1, <1>4, <1>5, <1>6 DEF OperationsGoOn

(* A second retry joins the graph beside all that is in it. *)
LEMMA SecondRetryKeeps ==
    ASSUME ConsistencyInv, EngineInv, NEW new \in Task, AtTop(new), error # "crashed",
           graph' = AddTasks(graph, {new}),
           UNCHANGED <<waiting_for, finished_tasks, error, pc, state, result, subtasks,
                       failed_task, timers>>,
           \A u \in Task : u.op = new.op /\ u.gen = new.gen => Fresh(u)
    PROVE  EngineInv'
<1>0. /\ TypeOK /\ Consistent(graph) /\ {new} \in SUBSET Task
      /\ graph.ready \subseteq Task /\ waiting_for \subseteq Task /\ graph.tasks \subseteq Task
      /\ ~IsSubgraph(new) /\ ~Contained(new)
      /\ \A u \in Task : u \notin graph.tasks => graph.dependencies[u] = {}
  BY DEF ConsistencyInv, TypeOK, GraphType, Consistent, EdgesInside, AtTop
<1>1. /\ Fresh(new) /\ new \notin Alive /\ state[new] = "pending"
      /\ new \notin waiting_for /\ graph.dependencies[new] = {}
  BY <1>0 DEF Fresh, Alive
<1>2. /\ graph'.tasks = graph.tasks \cup {new}
      /\ graph'.ready = graph.ready \cup {new}
      /\ graph'.dependencies = graph.dependencies
  BY <1>0, AddTasksConsistent
<1>3. /\ Alive' = Alive \cup {new} /\ Alive \subseteq Task
      /\ \A u \in Task : u # new /\ Fresh(u) => Fresh(u)'
  BY <1>0, <1>2 DEF Alive, Fresh
<1>4. FlightInv'
  <2>1. Tight(graph, waiting_for)
    BY DEF EngineInv, FlightInv, ReadyFree, AppliedFree, NoneForgotten, Tight
  <2>2. Tight(graph', waiting_for)
    BY <1>0, <1>1, <2>1, AddTasksTight
  <2>3. ReadyFree' /\ AppliedFree' /\ NoneForgotten'
    BY <2>2 DEF ReadyFree, AppliedFree, NoneForgotten, Tight, ReadyIsFree, Free
  <2>4. InFlight' /\ PendingFirst'
    BY <1>1, <1>2 DEF EngineInv, FlightInv, InFlight, PendingFirst, Contained, IsSubgraph
  <2>5. SentInFlight' /\ FinishedFits'
    BY DEF EngineInv, FlightInv, SentInFlight, FinishedFits, Fits, IsSubgraph
  <2>6. SubgraphStates'
    BY <1>0, <1>3 DEF EngineInv, FlightInv, SubgraphStates, IsSubgraph
  <2> QED
    BY <2>3, <2>4, <2>5, <2>6 DEF FlightInv
<1>5. BooksInv'
  <2>1. ListedAll' /\ ListsOwn'
    BY <1>0, <1>3 DEF EngineInv, BooksInv, ListedAll, ListsOwn, Contained, Container
  <2>2. PendingLists' /\ StartsFirst'
    BY DEF EngineInv, BooksInv, PendingLists, StartsFirst
  <2>3. Held'
    BY <1>0, <1>2 DEF EngineInv, BooksInv, Held, Contained, Container
  <2>4. AllThere'
    <3>1. subtasks[new] = {}
      BY <1>0, ContainerShape DEF EngineInv, BooksInv, ListsOwn, TypeOK
    <3> QED
      BY <1>2, <3>1 DEF EngineInv, BooksInv, AllThere
  <2> QED
    BY <2>1, <2>2, <2>3, <2>4 DEF BooksInv
<1>6. FreshInv'
  <2>1. \A u \in Alive : ~(u.op = new.op /\ u.gen = new.gen)
    BY <1>0, <1>3 DEF Fresh
  <2>2. OneAttempt'
    BY <1>3, <2>1 DEF EngineInv, FreshInv, OneAttempt
  <2>3. FreshTries'
    <3>1. ASSUME NEW t \in Alive', NEW u \in Task, u.op = t.op, u.gen = t.gen, u.try > t.try
          PROVE  Fresh(u)'
      <4>1. CASE t \in Alive
        <5>1. u # new /\ Fresh(u)
          BY <2>1, <3>1, <4>1 DEF EngineInv, FreshInv, FreshTries
        <5> QED
          BY <1>3, <5>1
      <4>2. CASE t = new
        <5>1. u # new
          BY <3>1, <4>2, TaskFields, BoundAssumption
        <5>2. Fresh(u)
          BY <3>1, <4>2
        <5> QED
          BY <1>3, <5>1, <5>2
      <4> QED
        BY <1>3, <3>1, <4>1, <4>2
    <3> QED
      BY <3>1 DEF FreshTries
  <2>4. FreshBuilds'
    <3>1. Root(new.op) = new.op /\ new.op \notin Subgraph
      BY <1>0 DEF Root, Contained, IsSubgraph
    <3>2. ASSUME NEW s \in graph'.tasks, NEW u \in Task, IsSubgraph(s),
                 Root(u.op) = s.op, u.gen > s.gen
          PROVE  Fresh(u)'
      <4>1. s \in graph.tasks
        BY <1>0, <1>2, <3>2
      <4>2. Fresh(u) /\ u # new
        BY <3>1, <3>2, <4>1 DEF EngineInv, FreshInv, FreshBuilds, IsSubgraph
      <4> QED
        BY <1>3, <4>2
    <3> QED
      BY <3>2 DEF FreshBuilds, IsSubgraph, Root
  <2>5. SelfNeed'
    BY <1>0, <1>2 DEF EngineInv, FreshInv, SelfNeed, IsSubgraph, Contained, Inside, FirstTask
  <2> QED
    BY <2>2, <2>3, <2>4, <2>5 DEF FreshInv
<1> QED
  BY <1>4, <1>5, <1>6 DEF EngineInv

(* A task that is handled again: nothing of its line's successor exists.   *)
LEMMA HandleAgainEffect ==
    ASSUME ConsistencyInv, EngineInv, TwiceInv, NEW t \in Task, HandleAgain(t)
    PROVE  /\ error # "crashed" /\ ~IsSubgraph(t) /\ ~Fresh(t)
           /\ \/ graph' = graph /\ Contained(t) /\ error' = "crashed" /\ pc' = "returned"
              \/ /\ graph' = graph /\ AtTop(t) /\ pc' = pc
                 /\ error' # "crashed" /\ (error' = "none" => error = "none")
              \/ /\ AtTop(t) /\ Retries(t) /\ t.gen < MaxGen /\ t.try < MaxTry
                 /\ SecondRetry(t) \in Task /\ AtTop(SecondRetry(t))
                 /\ graph' = AddTasks(graph, {SecondRetry(t)})
                 /\ UNCHANGED <<error, pc>>
                 /\ \A u \in Task : u.op = SecondRetry(t).op /\ u.gen = SecondRetry(t).gen
                                    => Fresh(u)
<1>1. /\ t \in redelivery.again /\ error # "crashed" /\ t \in Twice
  BY DEF HandleAgain, EngineInv, FlightInv, InFlight, Twice
<1>2. ~IsSubgraph(t) /\ ~Fresh(t)
  BY <1>1 DEF TwiceInv, TwiceAnswered, Fresh
<1>3. ASSUME ~Contained(t), t.gen < MaxGen, t.try < MaxTry
      PROVE  /\ SecondRetry(t) \in Task /\ AtTop(SecondRetry(t))
             /\ \A u \in Task : u.op = SecondRetry(t).op /\ u.gen = SecondRetry(t).gen
                                => Fresh(u)
  <2>1. /\ SecondRetry(t) \in Task
        /\ SecondRetry(t).op = t.op /\ SecondRetry(t).gen = t.gen + 1
    BY <1>3, SecondRetryIsTask
  <2>2. ASSUME NEW u \in Task, u.op = t.op, u.gen = t.gen + 1 PROVE Fresh(u)
    <3> SUFFICES ASSUME ~Fresh(u) PROVE FALSE
      OBVIOUS
    <3>1. LinesTold(u)
      BY <1>2, <1>3, <2>2 DEF TwiceInv, Lines, AtTop, IsSubgraph, Contained
    <3>2. t.gen \in 0..MaxGen /\ t.gen < u.gen
      BY <2>2, TaskFields, BoundAssumption
    <3>3. PICK v \in redelivery.handled : v.op = t.op /\ v.gen = t.gen
      BY <2>2, <3>1, <3>2 DEF LinesTold
    <3>4. v = t
      BY <1>1, <1>3, <3>3 DEF TwiceInv, TwiceOnce, Twice
    <3> QED
      BY <1>1, <3>3, <3>4 DEF TwiceInv, TwiceOnce
  <2> QED
    BY <1>2, <1>3, <2>1, <2>2 DEF AtTop, IsSubgraph, Contained
<1> QED
  BY <1>1, <1>2, <1>3 DEF HandleAgain, AtTop, FailOnce

LEMMA HandleAgainKeeps ==
    ASSUME ConsistencyInv, EngineInv, TwiceInv, NEW t \in Task, HandleAgain(t)
    PROVE  EngineInv'
<1>1. UNCHANGED <<waiting_for, finished_tasks, state, result, subtasks, failed_task, timers>>
  BY DEF HandleAgain
<1>2. error # "crashed"
  BY HandleAgainEffect
<1>3. CASE graph' = graph /\ (error' = "crashed" => pc' = "returned")
  BY <1>1, <1>2, <1>3, QuietKeeps
<1>4. CASE /\ SecondRetry(t) \in Task /\ AtTop(SecondRetry(t))
           /\ graph' = AddTasks(graph, {SecondRetry(t)})
           /\ UNCHANGED <<error, pc>>
           /\ \A u \in Task : u.op = SecondRetry(t).op /\ u.gen = SecondRetry(t).gen
                              => Fresh(u)
  BY <1>1, <1>2, <1>4, SecondRetryKeeps
<1> QED
  BY <1>3, <1>4, HandleAgainEffect

-----------------------------------------------------------------------------
(* The theorems that rest on it *)

LEMMA NextEngine ==
    ConsistencyInv /\ EngineInv /\ TwiceInv /\ [Next]_vars => EngineInv'
<1> SUFFICES ASSUME ConsistencyInv, EngineInv, TwiceInv, [Next]_vars PROVE EngineInv'
  OBVIOUS
<1>a. ConsistencyInv'
  BY NextConsistency
<1>b. error = "crashed" => pc = "returned"
  BY DEF EngineInv, FlightInv, InFlight
<1>1. CASE Check \/ RunDone \/ HandleDone
  BY <1>1, <1>b, QuietKeeps DEF Check, RunDone, HandleDone
<1>2. CASE Cancel \/ DeadlinePasses
  BY <1>2, <1>b, QuietKeeps DEF Cancel, DeadlinePasses
<1>3. CASE UNCHANGED vars
  BY <1>3, <1>b, QuietKeeps DEF vars
<1>4. ASSUME NEW t \in Task, Run(t) PROVE EngineInv'
  BY <1>4, RunOperationKeeps, RunSubgraphKeeps DEF Run
<1>5. ASSUME NEW t \in Task, HandleEnd(t) PROVE EngineInv'
  BY <1>5, <1>a, HandleEndLeaves, LeavesKeeps
<1>6. ASSUME NEW t \in Task, HandleFail(t) PROVE EngineInv'
  BY <1>6, <1>a, HandleFailLeaves, LeavesKeeps
<1>7. ASSUME NEW t \in Task, HandleRetry(t) PROVE EngineInv'
  BY <1>7, <1>a, HandleRetryKeeps
<1>8. ASSUME NEW t \in Task, HandleRebuild(t) PROVE EngineInv'
  BY <1>8, <1>a, RebuildKeeps
<1>9. ASSUME NEW t \in Task, HandlePropagate(t) PROVE EngineInv'
  <2>1. \/ Leaves(t, Under(t))
        \/ Leaves(t, Under(t) \ {t})
    BY <1>9, HandlePropagateLeaves
  <2> QED
    BY <1>a, <2>1, LeavesKeeps
<1>10. ASSUME NEW t \in Task, Finish(t) \/ TimerFires(t) PROVE EngineInv'
  BY <1>10, FinishKeeps, TimerFiresKeeps
<1>11. ASSUME NEW t \in Task, AnswerAtOnce(t) PROVE EngineInv'
  BY <1>11, AnswerAtOnceKeeps
<1>12. ASSUME NEW t \in Task, CallBackAgain(t) PROVE EngineInv'
  BY <1>12, <1>b, QuietKeeps DEF CallBackAgain
<1>13. ASSUME NEW t \in Task, HandleAgain(t) PROVE EngineInv'
  BY <1>13, HandleAgainKeeps
<1>14. /\ graph.ready \cup finished_tasks \cup waiting_for \cup timers \subseteq Task
       /\ redelivery.due \cup redelivery.again \subseteq Task
  BY DEF TypeOK, GraphType, ConsistencyInv
<1> QED
  BY <1>1, <1>2, <1>3, <1>4, <1>5, <1>6, <1>7, <1>8, <1>9, <1>10, <1>11, <1>12, <1>13, <1>14
     DEF Next, MainLoop, Due, Handle

LEMMA GoOnAtOnce ==
    ASSUME ConsistencyInv, EngineInv, NEW t \in Task, AnswerAtOnce(t)
    PROVE  OperationsGoOn
<1>0. TypeOK /\ Consistent(graph)
  BY DEF ConsistencyInv
<1>1. /\ t \in graph.tasks /\ t \in Alive /\ state[t] = "pending"
      /\ waiting_for' = waiting_for \cup {t}
      /\ graph'.tasks = graph.tasks
  BY <1>0 DEF AnswerAtOnce, EngineInv, FlightInv, ReadyFree, ReadyIsFree, PendingFirst, Alive,
              Consistent, GraphType
<1> QED
  BY <1>0, <1>1, AnswerAtOnceEffect, GoOnApplied

(* A task that answers at once joins those with a second delivery. *)
LEMMA AnswerAtOnceTwice ==
    ASSUME ConsistencyInv, EngineInv, TwiceInv, NEW t \in Task, AnswerAtOnce(t)
    PROVE  TwiceInv'
<1>0. /\ TypeOK /\ Consistent(graph)
      /\ redelivery \in [due : SUBSET Task, again : SUBSET Task, handled : SUBSET Task]
  BY DEF ConsistencyInv, TypeOK
<1>1. /\ t \in graph.ready /\ t \in graph.tasks /\ t \in Alive /\ state[t] = "pending"
      /\ waiting_for' = waiting_for \cup {t}
      /\ graph'.tasks = graph.tasks /\ MayDouble(t)
      /\ redelivery' = [redelivery EXCEPT !.due = @ \cup {t}]
  BY <1>0 DEF AnswerAtOnce, EngineInv, FlightInv, ReadyFree, ReadyIsFree, PendingFirst, Alive,
              Consistent, GraphType
<1>2. /\ redelivery.due = {}
      /\ redelivery'.due = {t} /\ redelivery'.again = redelivery.again
      /\ redelivery'.handled = redelivery.handled
      /\ Twice' = Twice \cup {t} /\ Twice \subseteq Task
      /\ Twice = redelivery.again \cup redelivery.handled
  BY <1>0, <1>1 DEF MayDouble, Twice
<1>3. /\ ~IsSubgraph(t)
      /\ \A u \in Task : u # t => state'[u] = state[u] /\ result'[u] = result[u]
      /\ state'[t] \in {"failed", "succeeded", "rescheduled"}
      /\ finished_tasks' = finished_tasks \cup {t}
  BY <1>0, AnswerAtOnceEffect
<1>4. OperationsGoOn
  BY GoOnAtOnce
<1>5. t \notin Twice
  BY <1>1, <1>2 DEF TwiceInv, TwiceAnswered
<1>6. TwiceAnswered'
  <2>1. ASSUME NEW u \in Twice
        PROVE  ~IsSubgraph(u) /\ state'[u] \notin {"pending", "sent"} /\ u \notin Alive'
    <3>1. /\ u \in Task /\ u # t /\ ~IsSubgraph(u) /\ u \notin Alive
          /\ state[u] \notin {"pending", "sent"}
      BY <1>2, <1>5, <2>1 DEF TwiceInv, TwiceAnswered
    <3> QED
      BY <1>1, <1>3, <3>1 DEF Alive
  <2>2. /\ ~IsSubgraph(t) /\ state'[t] \notin {"pending", "sent"}
        /\ t \in redelivery'.due \cap waiting_for' \cap finished_tasks'
    BY <1>1, <1>2, <1>3
  <2> QED
    BY <1>2, <2>1, <2>2 DEF TwiceAnswered, IsSubgraph
<1>7. TwiceOnce'
  <2>1. ASSUME NEW v \in Twice, v.op = t.op, v.gen = t.gen,
               ~Contained(t) \/ ~Contained(v)
        PROVE  FALSE
    <3>1. ~Contained(t)
      BY <2>1 DEF Contained
    <3> QED
      BY <1>1, <1>2, <2>1, <3>1 DEF MayDouble
  <2>2. \A a, b \in Twice' : ~Contained(a) /\ a.op = b.op /\ a.gen = b.gen => a = b
    <3> TAKE a, b \in Twice'
    <3> HAVE ~Contained(a) /\ a.op = b.op /\ a.gen = b.gen
    <3>1. CASE a \in Twice /\ b \in Twice
      BY <3>1 DEF TwiceInv, TwiceOnce
    <3>2. CASE a = t /\ b = t
      BY <3>2
    <3>3. CASE a = t /\ b \in Twice
      BY <2>1, <3>3
    <3>4. CASE b = t /\ a \in Twice
      BY <2>1, <3>4
    <3> QED
      BY <1>2, <3>1, <3>2, <3>3, <3>4
  <2> QED
    BY <1>2, <1>5, <2>2 DEF TwiceInv, TwiceOnce, Contained
<1>8. Lines'
  <2>1. ASSUME NEW u \in Task, AtTop(u), ~Fresh(u)' PROVE LinesTold(u)
    <3>1. CASE ~Fresh(u)
      BY <2>1, <3>1 DEF TwiceInv, Lines
    <3>2. CASE Fresh(u)
      <4>1. PICK w \in Alive : w.op = u.op /\ w.gen = u.gen
        BY <1>4, <2>1, <3>2 DEF OperationsGoOn
      <4>2. w \in Task /\ ~Fresh(w) /\ AtTop(w)
        BY <1>0, <2>1, <4>1 DEF Fresh, AtTop, IsSubgraph, Contained, Alive, TypeOK, GraphType
      <4>3. LinesTold(w)
        BY <4>2 DEF TwiceInv, Lines
      <4> QED
        BY <4>1, <4>3 DEF LinesTold
    <3> QED
      BY <3>1, <3>2
  <2> QED
    BY <1>2, <2>1 DEF Lines, LinesTold, AtTop, IsSubgraph, Contained
<1> QED
  BY <1>6, <1>7, <1>8 DEF TwiceInv

LEMMA CallBackAgainTwice ==
    ASSUME ConsistencyInv, TwiceInv, NEW t \in Task, CallBackAgain(t)
    PROVE  TwiceInv'
<1>0. /\ redelivery \in [due : SUBSET Task, again : SUBSET Task, handled : SUBSET Task]
      /\ t \in redelivery.due /\ t \in Twice
      /\ UNCHANGED <<graph, waiting_for, finished_tasks, state, result>>
  BY DEF ConsistencyInv, TypeOK, CallBackAgain, Twice
<1>1. /\ redelivery'.due = redelivery.due \ {t}
      /\ redelivery'.again = redelivery.again \cup ({t} \ finished_tasks)
      /\ redelivery'.handled = redelivery.handled
  BY <1>0 DEF CallBackAgain
<1>2. Twice' \subseteq Twice
  BY <1>0, <1>1 DEF Twice
<1>3. t \notin finished_tasks => t \notin Alive
  BY <1>0 DEF TwiceInv, TwiceAnswered
<1>4. t \notin redelivery.again \cup redelivery.handled
  BY <1>0 DEF TwiceInv, TwiceOnce
<1>5. TwiceAnswered'
  <2>1. ASSUME NEW u \in Twice'
        PROVE  /\ ~IsSubgraph(u) /\ state[u] \notin {"pending", "sent"}
               /\ u \in redelivery'.due \cap waiting_for \cap finished_tasks \/ u \notin Alive
    <3>1. /\ ~IsSubgraph(u) /\ state[u] \notin {"pending", "sent"}
          /\ u \in redelivery.due \cap waiting_for \cap finished_tasks \/ u \notin Alive
      BY <1>2, <2>1 DEF TwiceInv, TwiceAnswered
    <3>2. CASE u = t
      <4>1. t \notin finished_tasks
        BY <1>1, <1>4, <2>1, <3>2 DEF Twice
      <4> QED
        BY <1>3, <3>1, <3>2, <4>1
    <3>3. CASE u # t
      BY <1>1, <3>1, <3>3
    <3> QED
      BY <3>2, <3>3
  <2> QED
    BY <1>0, <2>1 DEF TwiceAnswered, IsSubgraph, Alive
<1>6. TwiceOnce'
  <2>1. \A a, b \in Twice' : ~Contained(a) /\ a.op = b.op /\ a.gen = b.gen => a = b
    BY <1>2 DEF TwiceInv, TwiceOnce
  <2>2. /\ redelivery'.due \cap (redelivery'.again \cup redelivery'.handled) = {}
        /\ redelivery'.again \cap redelivery'.handled = {}
    BY <1>1, <1>4 DEF TwiceInv, TwiceOnce
  <2> QED
    BY <2>1, <2>2 DEF TwiceOnce, Contained
<1>7. Lines'
  BY <1>0, <1>1 DEF TwiceInv, Lines, LinesTold, Fresh, Alive, AtTop, IsSubgraph, Contained
<1> QED
  BY <1>5, <1>6, <1>7 DEF TwiceInv

LEMMA HandleAgainTwice ==
    ASSUME ConsistencyInv, EngineInv, TwiceInv, NEW t \in Task, HandleAgain(t)
    PROVE  TwiceInv'
<1>0. /\ redelivery \in [due : SUBSET Task, again : SUBSET Task, handled : SUBSET Task]
      /\ t \in redelivery.again /\ t \in Twice
      /\ UNCHANGED <<waiting_for, finished_tasks, state, result>>
      /\ Consistent(graph) /\ TypeOK
  BY DEF ConsistencyInv, TypeOK, HandleAgain, Twice
<1>1. /\ redelivery'.due = redelivery.due
      /\ redelivery'.again = redelivery.again \ {t}
      /\ redelivery'.handled = redelivery.handled \cup {t}
  BY <1>0 DEF HandleAgain
<1>2. Twice' = Twice
  BY <1>0, <1>1 DEF Twice
<1>3. TwiceOnce'
  <2>1. \A a, b \in Twice' : ~Contained(a) /\ a.op = b.op /\ a.gen = b.gen => a = b
    BY <1>2 DEF TwiceInv, TwiceOnce
  <2>2. /\ redelivery'.due \cap (redelivery'.again \cup redelivery'.handled) = {}
        /\ redelivery'.again \cap redelivery'.handled = {}
    BY <1>0, <1>1 DEF TwiceInv, TwiceOnce
  <2> QED
    BY <2>1, <2>2 DEF TwiceOnce, Contained
<1>4. \A u \in Task : LinesTold(u) => LinesTold(u)'
  BY <1>1 DEF LinesTold
<1>5. CASE graph' = graph
  <2>1. Alive' = Alive /\ \A u \in Task : Fresh(u)' <=> Fresh(u)
    BY <1>0, <1>5 DEF Alive, Fresh
  <2>2. TwiceAnswered'
    BY <1>0, <1>1, <1>2, <2>1 DEF TwiceInv, TwiceAnswered, IsSubgraph
  <2>3. Lines'
    BY <1>4, <2>1 DEF TwiceInv, Lines, AtTop, IsSubgraph, Contained
  <2> QED
    BY <1>3, <2>2, <2>3 DEF TwiceInv
<1>6. CASE /\ AtTop(t) /\ t.gen < MaxGen /\ t.try < MaxTry
           /\ SecondRetry(t) \in Task
           /\ graph' = AddTasks(graph, {SecondRetry(t)})
           /\ \A u \in Task : u.op = SecondRetry(t).op /\ u.gen = SecondRetry(t).gen => Fresh(u)
  <2> DEFINE new == SecondRetry(t)
  <2>1. /\ new \in Task /\ new.op = t.op /\ new.gen = t.gen + 1 /\ {new} \in SUBSET Task
    BY <1>6, SecondRetryIsTask
  <2>2. Fresh(new) /\ graph' = AddTasks(graph, {new})
    BY <1>6, <2>1
  <2> HIDE DEF new
  <2>3. Alive' = Alive \cup {new}
    <3>1. graph'.tasks = graph.tasks \cup {new}
      BY <1>0, <2>1, <2>2, AddTasksConsistent
    <3> QED
      BY <1>0, <3>1 DEF Alive
  <2>4. TwiceAnswered'
    <3>1. new \notin Twice
      BY <2>2 DEF TwiceInv, TwiceAnswered, Fresh
    <3> QED
      BY <1>0, <1>1, <1>2, <2>3, <3>1 DEF TwiceInv, TwiceAnswered, IsSubgraph
  <2>5. ~Fresh(t)
    BY <1>0 DEF TwiceInv, TwiceAnswered, Fresh
  <2>6. LinesTold(t)
    BY <1>6, <2>5 DEF TwiceInv, Lines
  <2>7. LinesTold(new)'
    <3>1. ASSUME NEW g \in 0..MaxGen, g < new.gen
          PROVE  \E v \in redelivery'.handled : v.op = new.op /\ v.gen = g
      <4>1. t.gen \in Nat /\ g \in Nat
        BY TaskFields, BoundAssumption
      <4>2. g = t.gen \/ g < t.gen
        BY <2>1, <3>1, <4>1
      <4>3. CASE g = t.gen
        BY <1>1, <2>1, <4>3
      <4>4. CASE g < t.gen
        <5>1. PICK v \in redelivery.handled : v.op = t.op /\ v.gen = g
          BY <2>6, <4>4 DEF LinesTold
        <5> QED
          BY <1>1, <2>1, <5>1
      <4> QED
        BY <4>2, <4>3, <4>4
    <3> QED
      BY <3>1 DEF LinesTold
  <2>8. \A u \in Task : u # new /\ ~Fresh(u)' => ~Fresh(u)
    BY <1>0, <2>3 DEF Fresh
  <2>9. Lines'
    BY <1>4, <2>7, <2>8 DEF TwiceInv, Lines, AtTop, IsSubgraph, Contained
  <2> QED
    BY <1>3, <2>4, <2>9 DEF TwiceInv
<1> QED
  BY <1>5, <1>6, HandleAgainEffect

(* Every step but those of a second delivery lets the operations go on. *)
GoesOn == OperationsGoOn /\ redelivery' = redelivery

LEMMA StepGoesOn ==
    ASSUME ConsistencyInv, EngineInv, [Next]_vars
    PROVE  \/ GoesOn
           \/ \E t \in Task : AnswerAtOnce(t) \/ CallBackAgain(t) \/ HandleAgain(t)
<1>1. CASE Check \/ RunDone \/ HandleDone \/ Cancel \/ DeadlinePasses \/ UNCHANGED vars
  <2>1. UNCHANGED <<graph, waiting_for, finished_tasks, state, result, redelivery>>
    BY <1>1 DEF Check, RunDone, HandleDone, Cancel, DeadlinePasses, vars
  <2> QED
    BY <2>1, GoOnQuiet DEF GoesOn
<1>2. ASSUME NEW t \in Task, Run(t) PROVE GoesOn
  <2>1. redelivery' = redelivery
    BY <1>2 DEF Run, RunOperation, RunSubgraph
  <2> QED
    BY <1>2, <2>1, GoOnRun DEF GoesOn
<1>3. ASSUME NEW t \in Task, HandleEnd(t) PROVE GoesOn
  <2>1. redelivery' = redelivery
    BY <1>3 DEF HandleEnd
  <2> QED
    BY <1>3, <2>1, HandleEndLeaves, GoOnLeaves DEF GoesOn
<1>4. ASSUME NEW t \in Task, HandleFail(t) PROVE GoesOn
  <2>1. redelivery' = redelivery
    BY <1>4 DEF HandleFail
  <2> QED
    BY <1>4, <2>1, HandleFailLeaves, GoOnLeaves DEF GoesOn
<1>5. ASSUME NEW t \in Task, HandlePropagate(t) PROVE GoesOn
  <2>1. redelivery' = redelivery /\ IsSubgraph(t)
    BY <1>5 DEF HandlePropagate
  <2>2. Leaves(t, Under(t)) \/ Leaves(t, Under(t) \ {t})
    BY <1>5, HandlePropagateLeaves
  <2> QED
    BY <2>1, <2>2, GoOnLeaves DEF GoesOn
<1>6. ASSUME NEW t \in Task, HandleRetry(t) PROVE GoesOn
  <2>1. redelivery' = redelivery
    BY <1>6 DEF HandleRetry
  <2> QED
    BY <1>6, <2>1, GoOnRetry DEF GoesOn
<1>7. ASSUME NEW t \in Task, HandleRebuild(t) PROVE GoesOn
  <2>1. redelivery' = redelivery
    BY <1>7 DEF HandleRebuild
  <2> QED
    BY <1>7, <2>1, GoOnRebuild DEF GoesOn
<1>8. ASSUME NEW t \in Task, Finish(t) \/ TimerFires(t) PROVE GoesOn
  <2>1. redelivery' = redelivery
    BY <1>8 DEF Finish, TimerFires
  <2> QED
    BY <1>8, <2>1, GoOnDue DEF GoesOn
<1>9. /\ graph.ready \cup finished_tasks \cup waiting_for \cup timers \subseteq Task
      /\ redelivery.due \cup redelivery.again \subseteq Task
  BY DEF TypeOK, GraphType, ConsistencyInv
<1> QED
  BY <1>1, <1>2, <1>3, <1>4, <1>5, <1>6, <1>7, <1>8, <1>9 DEF Next, MainLoop, Due, Handle

LEMMA NextTwice ==
    ConsistencyInv /\ EngineInv /\ TwiceInv /\ [Next]_vars => TwiceInv'
<1> SUFFICES ASSUME ConsistencyInv, EngineInv, TwiceInv, [Next]_vars PROVE TwiceInv'
  OBVIOUS
<1>1. CASE GoesOn
  BY <1>1, TwiceKept DEF GoesOn
<1>2. ASSUME NEW t \in Task, AnswerAtOnce(t) \/ CallBackAgain(t) \/ HandleAgain(t)
      PROVE  TwiceInv'
  BY <1>2, AnswerAtOnceTwice, CallBackAgainTwice, HandleAgainTwice
<1> QED
  BY <1>1, <1>2, StepGoesOn

LEMMA AlwaysEngine == Spec => [](ConsistencyInv /\ EngineInv /\ TwiceInv)
BY InitConsistency, InitEngine, InitTwice, NextConsistency, NextEngine, NextTwice, PTL DEF Spec

(* Whatever the workflow, its handlers and its limits: a task of the graph *)
(* that waits for nothing is ready or was applied, what is ready waits for *)
(* nothing, and nothing is applied twice.  Every way into _ready counts:   *)
(* remove_dependency, remove_task, the retry arm and a rebuild.            *)
THEOREM ReadyIsRunnable == Spec => []ReadyIsWhatCanRun
<1>1. ConsistencyInv /\ EngineInv => ReadyIsWhatCanRun
  BY DEF EngineInv, FlightInv, ReadyFree, AppliedFree, NoneForgotten, InFlight, PendingFirst,
         ReadyIsWhatCanRun
<1> QED
  BY <1>1, AlwaysEngine, PTL

(* Retries, delayed retries and rebuilds never leave two attempts of one   *)
(* operation in a build of its subgraph, in the graph or in flight.  At    *)
(* top level a second attempt is there only after a second handling of an  *)
(* earlier one: for each line of retries before it one such result.        *)
THEOREM AttemptsAreOneAtATime == Spec => []OneAttemptAtATime
<1>1. ConsistencyInv /\ EngineInv /\ TwiceInv => OneAttemptAtATime
  <2> SUFFICES ASSUME ConsistencyInv, EngineInv, TwiceInv,
                      NEW t \in Alive, NEW u \in Alive, t.op = u.op, t # u
               PROVE  /\ t.gen # u.gen
                      /\ Root(t.op) \notin Subgraph => LinesTold(t) /\ LinesTold(u)
    BY DEF OneAttemptAtATime, Alive, LinesTold
  <2>1. t.gen # u.gen
    BY DEF EngineInv, FreshInv, OneAttempt
  <2>2. ASSUME Root(t.op) \notin Subgraph PROVE LinesTold(t) /\ LinesTold(u)
    <3>1. t \in Task /\ u \in Task /\ ~Fresh(t) /\ ~Fresh(u)
      BY DEF ConsistencyInv, TypeOK, GraphType, Alive, Fresh
    <3>2. Parent[t.op] = NoOp /\ t.op \notin Subgraph
      BY <2>2, <3>1, TaskFields, WorkflowAssumption DEF Root
    <3> QED
      BY <3>1, <3>2 DEF TwiceInv, Lines, AtTop, IsSubgraph, Contained
  <2> QED
    BY <2>1, <2>2
<1> QED
  BY <1>1, AlwaysEngine, PTL

(* `del self.tasks[task.id]` and remove_dependency never raise, but for a  *)
(* result delivered a second time: every other task that will be handled   *)
(* is listed in the subgraph it is in, and all that a subgraph lists is in *)
(* the graph when it is about to run.                                      *)
THEOREM SubgraphsKeepTheirBooks == Spec => []SubgraphsKnowTheirTasks
<1>1. ConsistencyInv /\ EngineInv /\ TwiceInv => SubgraphsKnowTheirTasks
  <2> SUFFICES ASSUME ConsistencyInv, EngineInv, TwiceInv PROVE SubgraphsKnowTheirTasks
    OBVIOUS
  <2>1. \A t \in finished_tasks \cup waiting_for \cup graph.ready : t \in Alive
    BY DEF EngineInv, FlightInv, InFlight, ReadyFree, ReadyIsFree, Alive
  <2>2. \A s \in graph.ready : state[s] = "pending" /\ s \in graph.tasks
    BY DEF EngineInv, FlightInv, PendingFirst, ReadyFree, ReadyIsFree
  <2>3. \A t \in redelivery.again : t \notin Alive
    BY DEF TwiceInv, TwiceAnswered, TwiceOnce, Twice
  <2> QED
    BY <2>1, <2>2, <2>3 DEF EngineInv, BooksInv, ListedAll, AllThere, SubgraphsKnowTheirTasks
<1> QED
  BY <1>1, AlwaysEngine, PTL

-----------------------------------------------------------------------------
(* Good ends are whole: nothing gets lost between a subgraph or the graph *)
(* and what has ended.                                                     *)

(* The outcome of a task that lets others go on. *)
EndedWell(t) ==
    \/ state[t] = "succeeded" /\ ~PollsAgain(t)
    \/ state[t] = "failed" /\ Handler[t.op] = "ignore" /\ result[t] # "OperationRetry"

(* A task in flight that left the graph was in a subgraph that failed. *)
Cut ==
    \A t \in waiting_for \ graph.tasks :
        Contained(t) /\ "failed" \in {state[Container(t)], state[FirstTask(Root(t.op), t.gen)]}

(* A subgraph that succeeded has nothing left in it. *)
Closed ==
    \A s \in Task : IsSubgraph(s) /\ state[s] = "succeeded" =>
        subtasks[s] = {} /\ s \notin failed_task

(* Each operation of a subgraph is still listed in it, or came to a good   *)
(* end, or made the subgraph fail.                                         *)
Accounted ==
    \A s \in Task : IsSubgraph(s) /\ s.try = 0 =>
        \A o \in Members(s.op) : \/ \E t \in subtasks[s] : t.op = o
                                 \/ SettledIn(o, {s.gen})
                                 \/ s \in failed_task

(* The same of the operations at top level and the execution. *)
TopAccounted ==
    \A o \in Op : Parent[o] = NoOp =>
        \/ \E t \in graph.tasks : t.op = o
        \/ SettledIn(o, 0..MaxGen)
        \/ error # "none"

(* execute() returns without an error only when the graph is empty. *)
ReturnedEmpty == pc = "returned" /\ error = "none" => graph.tasks = {}

WholeInv == Cut /\ Closed /\ Accounted /\ TopAccounted /\ ReturnedEmpty

(* A good end is for good. *)
LEMMA SettledStays ==
    ASSUME EndsStay, OnlyFreshJoin
    PROVE  /\ \A t \in Task : Settled(t) => Settled(t)'
           /\ \A o, gens : SettledIn(o, gens) => SettledIn(o, gens)'
<1>1. ASSUME NEW t \in Task, Settled(t) PROVE Settled(t)'
  <2>1. t \notin Alive /\ state[t] \in {"succeeded", "failed"} /\ ~Fresh(t)
    BY <1>1 DEF Settled, Alive, Fresh
  <2>2. t \notin Alive' /\ state'[t] = state[t] /\ result'[t] = result[t]
    BY <2>1 DEF EndsStay, OnlyFreshJoin
  <2> QED
    BY <1>1, <2>2 DEF Settled, PollsAgain, Alive
<1>2. ASSUME NEW o, NEW gens, SettledIn(o, gens) PROVE SettledIn(o, gens)'
  BY <1>1, <1>2 DEF SettledIn
<1> QED
  BY <1>1, <1>2

(* The steps that take nothing out of the graph. *)
LEMMA KeptWhole ==
    ASSUME WholeInv, EndsStay,
           graph'.tasks = graph.tasks,
           waiting_for \subseteq waiting_for', waiting_for' \subseteq Task,
           waiting_for' \subseteq waiting_for \cup graph.tasks,
           UNCHANGED <<subtasks, failed_task>>,
           \A s \in Task : IsSubgraph(s) /\ state'[s] = "succeeded" =>
               state[s] = "succeeded" \/ (subtasks[s] = {} /\ s \notin failed_task),
           error' = "none" => error = "none",
           pc' = "returned" /\ error' = "none" => graph.tasks = {}
    PROVE  WholeInv'
<1>1. OnlyFreshJoin
  BY DEF OnlyFreshJoin, Alive
<1>2. \A o, gens : SettledIn(o, gens) => SettledIn(o, gens)'
  BY <1>1, SettledStays
<1>3. Cut'
  <2>1. ASSUME NEW t \in waiting_for', t \notin graph'.tasks
        PROVE  /\ Contained(t)
               /\ "failed" \in {state'[Container(t)], state'[FirstTask(Root(t.op), t.gen)]}
    <3>1. t \in Task /\ t \in waiting_for \ graph.tasks
      BY <2>1
    <3>2. /\ Contained(t) /\ Container(t) \in Task
          /\ FirstTask(Root(t.op), t.gen) \in Task
      BY <3>1, ContainerIsTask, FirstTaskIsTask, RootShape, TaskFields DEF WholeInv, Cut
    <3> QED
      BY <3>1, <3>2 DEF WholeInv, Cut, EndsStay
  <2> QED
    BY <2>1 DEF Cut, Contained, Container, FirstTask, Root
<1>4. Closed'
  BY DEF WholeInv, Closed, IsSubgraph
<1>5. Accounted'
  BY <1>2 DEF WholeInv, Accounted, IsSubgraph, Members
<1>6. TopAccounted'
  BY <1>2 DEF WholeInv, TopAccounted
<1>7. ReturnedEmpty'
  BY DEF ReturnedEmpty
<1> QED
  BY <1>3, <1>4, <1>5, <1>6, <1>7 DEF WholeInv

(* What leaves the graph with a handled task, and is in flight, was in a   *)
(* subgraph that failed.                                                   *)
LEMMA LeftInFailed ==
    ASSUME TypeOK, EngineInv, WholeInv, NEW t \in Task, t \in finished_tasks,
           NEW u \in Under(t), u # t
    PROVE  /\ state[t] = "failed" /\ Contained(u) /\ u \in Task
           /\ t \in {Container(u), FirstTask(Root(u.op), u.gen)}
<1>1. /\ u \in Task /\ u.gen = t.gen /\ Contained(u)
      /\ \/ Container(u) = t
         \/ Contained(Container(u)) /\ Container(Container(u)) = t
      /\ ~IsSubgraph(t) => Under(t) = {t}
      /\ subtasks[t] = {} => Under(t) = {t}
  BY UnderShape DEF EngineInv, BooksInv
<1>2. IsSubgraph(t) /\ subtasks[t] # {}
  BY <1>1
<1>3. state[t] = "failed"
  BY <1>2 DEF EngineInv, FlightInv, FinishedFits, Fits, WholeInv, Closed
<1>4. CASE Contained(Container(u)) /\ Container(Container(u)) = t
  <2>1. Parent[Parent[u.op]] # NoOp /\ t = FirstTask(Parent[Parent[u.op]], u.gen)
    BY <1>4, FirstTaskIsTask DEF Contained, Container, FirstTask
  <2> QED
    BY <1>1, <1>3, <2>1 DEF Contained, Root
<1> QED
  BY <1>1, <1>3, <1>4

(* A task that neither fails nor retries has ended well: the arms of       *)
(* _handle_terminated_task leave no other case.                            *)
LEMMA EndsWell ==
    ASSUME TypeOK, EngineInv, NEW t \in finished_tasks, Ends(t)
    PROVE  EndedWell(t)
<1>1. t \in Task /\ Fits(t, state[t], result[t]) /\ t.op \in Op
  BY TaskFields DEF TypeOK, EngineInv, FlightInv, FinishedFits
<1>2. CASE IsSubgraph(t)
  <2>1. state[t] \in {"succeeded", "failed"} /\ result[t] = "not_set"
    BY <1>1, <1>2 DEF Fits, EngineInv, FlightInv, SubgraphStates
  <2>2. Handler[t.op] # "poll"
    BY <1>2, WorkflowAssumption DEF IsSubgraph, SubgraphHandler
  <2> QED
    BY <1>2, <2>1, <2>2 DEF Ends, EndedWell, PollsAgain
<1>3. CASE ~IsSubgraph(t)
  BY <1>1, <1>3 DEF Fits, Ends, Retries, OperationFails, AsksForRetry, NotSucceeded,
                    EndedWell, PollsAgain
<1> QED
  BY <1>2, <1>3

(* A handled task has ended well, or what it is in is told that it failed. *)
LEMMA LeavesWhole ==
    ASSUME ConsistencyInv, EngineInv, ConsistencyInv', WholeInv,
           NEW t \in Task, NEW R, Leaves(t, R), pc = "handle",
           pc' = "returned" => error' = "crashed",
           error' = "none" => error = "none",
           \A u \in Task : state'[u] = "succeeded" /\ state[u] # "succeeded" =>
               subtasks'[u] = {} /\ u \notin failed_task',
           \/ EndedWell(t) /\ error' # "crashed"
           \/ Contained(t) /\ Container(t) \in failed_task'
           \/ ~Contained(t) /\ error' # "none"
    PROVE  WholeInv'
<1>0. /\ TypeOK /\ Consistent(graph)
      /\ waiting_for \subseteq Task /\ graph.tasks \subseteq Task
      /\ \A u \in Task : subtasks[u] \subseteq Task
  BY DEF ConsistencyInv, TypeOK, GraphType
<1>1. /\ t \in finished_tasks /\ t \in waiting_for /\ t \in Alive
      /\ state[t] \notin {"pending", "started", "sent"}
      /\ Contained(t) => t \in subtasks[Container(t)]
      /\ waiting_for' = waiting_for \ {t}
      /\ result' = result
      /\ \A u \in Task : state'[u] = state[u] \/ state[u] = "started"
      /\ \A u \in Task : subtasks'[u] = subtasks[u] \/ subtasks'[u] = subtasks[u] \ {t}
      /\ \A u \in Task : u \in failed_task' =>
             u \in failed_task \/ (Contained(t) /\ u = Container(t))
      /\ failed_task \subseteq failed_task'
  BY <1>0 DEF Leaves, EngineInv, FlightInv, InFlight, FinishedFits, Fits, BooksInv, ListedAll, Alive
<1>2. /\ R \in SUBSET Task /\ R \subseteq Under(t)
      /\ error' # "crashed" => t \in R
      /\ graph'.tasks = graph.tasks \ R
  <2>1. /\ R \in SUBSET Task /\ R \subseteq Under(t) /\ graph' = RemoveTasks(graph, R)
        /\ error' # "crashed" => t \in R
    BY <1>0, UnderIsTasks DEF Leaves
  <2> QED
    BY <1>0, <2>1, RemoveTasksConsistent
<1>3. EndsStay /\ OnlyFreshJoin
  BY <1>1, <1>2 DEF EndsStay, OnlyFreshJoin, Alive
<1>4. \A o, gens : SettledIn(o, gens) => SettledIn(o, gens)'
  BY <1>3, SettledStays
<1>5. EndedWell(t) /\ error' # "crashed" => Settled(t)'
  BY <1>1, <1>2 DEF EndedWell, Settled, PollsAgain
<1>6. \A u \in Under(t) : u # t =>
          /\ state[t] = "failed" /\ Contained(u) /\ u \in Task
          /\ t \in {Container(u), FirstTask(Root(u.op), u.gen)}
  BY <1>0, <1>1, LeftInFailed
<1>7. Cut'
  <2>1. ASSUME NEW u \in waiting_for', u \notin graph'.tasks
        PROVE  /\ Contained(u)
               /\ "failed" \in {state'[Container(u)], state'[FirstTask(Root(u.op), u.gen)]}
    <3>1. u \in Task /\ u \in waiting_for /\ u # t
      BY <1>0, <1>1, <2>1
    <3>2. /\ Contained(u)
          /\ "failed" \in {state[Container(u)], state[FirstTask(Root(u.op), u.gen)]}
      BY <1>2, <1>6, <2>1, <3>1 DEF WholeInv, Cut
    <3>3. Container(u) \in Task /\ FirstTask(Root(u.op), u.gen) \in Task
      BY <3>1, <3>2, ContainerIsTask, FirstTaskIsTask, RootShape, TaskFields
    <3> QED
      BY <1>3, <3>2, <3>3 DEF EndsStay
  <2> QED
    BY <2>1 DEF Cut, Contained, Container, FirstTask, Root
<1>8. Closed'
  <2>1. ASSUME NEW s \in Task, IsSubgraph(s), state'[s] = "succeeded"
        PROVE  subtasks'[s] = {} /\ s \notin failed_task'
    <3>1. CASE state[s] = "succeeded"
      <4>1. subtasks[s] = {} /\ s \notin failed_task
        BY <2>1, <3>1 DEF WholeInv, Closed
      <4> QED
        BY <1>1, <4>1
    <3>2. CASE state[s] # "succeeded"
      BY <2>1, <3>2
    <3> QED
      BY <3>1, <3>2
  <2> QED
    BY <2>1 DEF Closed, IsSubgraph
<1>9. Accounted'
  <2>1. ASSUME NEW s \in Task, IsSubgraph(s), s.try = 0, NEW o \in Members(s.op)
        PROVE  \/ \E u \in subtasks'[s] : u.op = o
               \/ SettledIn(o, {s.gen})'
               \/ s \in failed_task'
    <3>1. CASE SettledIn(o, {s.gen}) \/ s \in failed_task
      <4>1. s \in failed_task => s \in failed_task'
        BY <1>1
      <4>2. SettledIn(o, {s.gen}) => SettledIn(o, {s.gen})'
        BY <1>4
      <4> QED
        BY <3>1, <4>1, <4>2
    <3>2. ASSUME NEW u \in subtasks[s], u.op = o, u \notin subtasks'[s]
          PROVE  SettledIn(o, {s.gen})' \/ s \in failed_task'
      <4>1. u = t
        BY <1>1, <3>2
      <4>2. Contained(t) /\ Container(t) = s
        BY <3>2, <4>1 DEF EngineInv, BooksInv, ListsOwn
      <4>3. t.gen = s.gen
        BY <4>2, ContainerShape
      <4>4. error' # "crashed"
        BY <3>2 DEF Leaves
      <4>5. CASE EndedWell(t)
        <5>1. Settled(t)'
          BY <1>5, <4>4, <4>5
        <5> QED
          BY <3>2, <4>1, <4>3, <5>1 DEF SettledIn
      <4>6. CASE ~EndedWell(t)
        BY <4>2, <4>6
      <4> QED
        BY <4>5, <4>6
    <3> QED
      BY <2>1, <3>1, <3>2 DEF WholeInv, Accounted
  <2> QED
    BY <2>1 DEF Accounted, IsSubgraph, Members
<1>10. TopAccounted'
  <2>1. ASSUME NEW o \in Op, Parent[o] = NoOp, error' = "none"
        PROVE  (\E u \in graph'.tasks : u.op = o) \/ SettledIn(o, 0..MaxGen)'
    <3>1. CASE SettledIn(o, 0..MaxGen)
      BY <1>4, <3>1
    <3>2. ASSUME NEW u \in graph.tasks, u.op = o, u \notin graph'.tasks
          PROVE  SettledIn(o, 0..MaxGen)'
      <4>1. u \in Under(t) /\ ~Contained(u)
        BY <1>2, <2>1, <3>2 DEF Contained
      <4>2. u = t
        BY <1>6, <4>1
      <4>3. EndedWell(t)
        BY <2>1, <4>1, <4>2
      <4>4. Settled(t)' /\ t.gen \in 0..MaxGen
        BY <1>5, <2>1, <4>3, TaskFields
      <4> QED
        BY <3>2, <4>2, <4>4 DEF SettledIn
    <3> QED
      BY <2>1, <3>1, <3>2 DEF WholeInv, TopAccounted
  <2> QED
    BY <2>1 DEF TopAccounted
<1>11. ReturnedEmpty'
  BY DEF ReturnedEmpty
<1> QED
  BY <1>7, <1>8, <1>9, <1>10, <1>11 DEF WholeInv

LEMMA InitWhole == Init => WholeInv
<1> SUFFICES ASSUME Init PROVE WholeInv
  OBVIOUS
<1>1. graph.tasks = TasksFor(Op, 0)
  <2>1. Consistent(EmptyGraph) /\ EmptyGraph.tasks = {}
    BY EmptyGraphConsistent DEF EmptyGraph
  <2>2. 0 \in 0..MaxGen /\ Op \in SUBSET Op /\ graph = Build(EmptyGraph, Op, 0)
    BY BoundAssumption DEF Init
  <2>3. Build(EmptyGraph, Op, 0).tasks = EmptyGraph.tasks \cup TasksFor(Op, 0)
    BY <2>1, <2>2, BuildConsistent
  <2> QED
    BY <2>1, <2>2, <2>3
<1>2. Cut /\ Closed /\ ReturnedEmpty
  BY DEF Init, Cut, Closed, ReturnedEmpty
<1>3. Accounted
  <2>1. ASSUME NEW s \in Task, IsSubgraph(s), s.try = 0, NEW o \in Members(s.op)
        PROVE  \E t \in subtasks[s] : t.op = o
    <3>1. subtasks[s] = TasksFor(Members(s.op), s.gen)
      BY <2>1 DEF Init
    <3>2. FirstTask(o, s.gen) \in subtasks[s] /\ FirstTask(o, s.gen).op = o
      BY <2>1, <3>1, FirstTaskIsTask, TaskFields DEF TasksFor, Members
    <3> QED
      BY <3>2
  <2> QED
    BY <2>1 DEF Accounted
<1>4. TopAccounted
  <2>1. ASSUME NEW o \in Op PROVE \E t \in graph.tasks : t.op = o
    <3>1. FirstTask(o, 0) \in graph.tasks /\ FirstTask(o, 0).op = o
      BY <1>1, FirstTaskIsTask, BoundAssumption DEF TasksFor
    <3> QED
      BY <3>1
  <2> QED
    BY <2>1 DEF TopAccounted
<1> QED
  BY <1>2, <1>3, <1>4 DEF WholeInv

(* The next attempt stands in for the one that is retried. *)
LEMMA RetryWhole ==
    ASSUME ConsistencyInv, EngineInv, WholeInv, NEW t \in Task, HandleRetry(t)
    PROVE  WholeInv'
<1> DEFINE new == Duplicate(t)
<1>0. /\ TypeOK /\ Consistent(graph)
      /\ waiting_for \subseteq Task /\ graph.tasks \subseteq Task
      /\ \A u \in Task : subtasks[u] \subseteq Task
  BY DEF ConsistencyInv, TypeOK, GraphType
<1>1. /\ t \in finished_tasks /\ t \in waiting_for /\ t \in Alive
      /\ Contained(t) => t \in subtasks[Container(t)]
      /\ waiting_for' = waiting_for \ {t}
      /\ error' = error /\ pc' = pc /\ pc = "handle" /\ result' = result
      /\ graph' = RemoveTasks(TakeOver(graph, t, new), {t})
      /\ TellContainer(t, FALSE, {new})
      /\ t.try < MaxTry
  BY <1>0 DEF HandleRetry, Popped, EngineInv, FlightInv, InFlight, BooksInv, ListedAll, Alive
<1>2. /\ new \in Task /\ new.op = t.op /\ new.gen = t.gen /\ new.try > t.try /\ new # t
  BY <1>1, DuplicateIsTask, TaskFields, BoundAssumption
<1>3. Fresh(new)
  BY <1>1, <1>2 DEF EngineInv, FreshInv, FreshTries
<1> HIDE DEF new
<1>4. graph'.tasks = (graph.tasks \cup {new}) \ {t}
  <2>1. /\ Consistent(TakeOver(graph, t, new))
        /\ TakeOver(graph, t, new).tasks = graph.tasks \cup {new}
    BY <1>0, <1>2, TakeOverConsistent
  <2>2. {t} \in SUBSET Task
    OBVIOUS
  <2> QED
    BY <1>1, <2>1, <2>2, RemoveTasksConsistent
<1>5. /\ \A u \in Task :
            \/ state'[u] = state[u]
            \/ /\ Contained(t) /\ u = Container(t)
               /\ state[u] = "started" /\ state'[u] \in {"succeeded", "failed"}
               /\ state'[u] = "succeeded" => subtasks'[u] = {} /\ u \notin failed_task'
      /\ \A u \in Task : subtasks'[u] =
            IF Contained(t) /\ u = Container(t) THEN (subtasks[u] \ {t}) \cup {new}
                                                ELSE subtasks[u]
      /\ \A u \in Task : u \in failed_task' <=> u \in failed_task
  <2>1. {new} \in SUBSET Task /\ FALSE \in BOOLEAN
    BY <1>2
  <2> QED
    BY <1>1, <2>1, TellContainerEffect
<1>6. EndsStay /\ OnlyFreshJoin
  BY <1>1, <1>3, <1>4, <1>5 DEF EndsStay, OnlyFreshJoin, Alive
<1>7. \A o, gens : SettledIn(o, gens) => SettledIn(o, gens)'
  BY <1>6, SettledStays
<1>8. Cut'
  <2>1. ASSUME NEW u \in waiting_for', u \notin graph'.tasks
        PROVE  /\ Contained(u)
               /\ "failed" \in {state'[Container(u)], state'[FirstTask(Root(u.op), u.gen)]}
    <3>1. u \in Task /\ u \in waiting_for \ graph.tasks
      BY <1>0, <1>1, <1>4, <2>1
    <3>2. /\ Contained(u)
          /\ "failed" \in {state[Container(u)], state[FirstTask(Root(u.op), u.gen)]}
      BY <3>1 DEF WholeInv, Cut
    <3>3. Container(u) \in Task /\ FirstTask(Root(u.op), u.gen) \in Task
      BY <3>1, <3>2, ContainerIsTask, FirstTaskIsTask, RootShape, TaskFields
    <3> QED
      BY <1>6, <3>2, <3>3 DEF EndsStay
  <2> QED
    BY <2>1 DEF Cut, Contained, Container, FirstTask, Root
<1>9. Closed'
  <2>1. ASSUME NEW s \in Task, IsSubgraph(s), state'[s] = "succeeded"
        PROVE  subtasks'[s] = {} /\ s \notin failed_task'
    <3>1. CASE state[s] = "succeeded"
      <4>1. subtasks[s] = {} /\ s \notin failed_task
        BY <2>1, <3>1 DEF WholeInv, Closed
      <4> QED
        BY <1>1, <1>5, <4>1
    <3>2. CASE state[s] # "succeeded"
      BY <1>5, <2>1, <3>2
    <3> QED
      BY <3>1, <3>2
  <2> QED
    BY <2>1 DEF Closed, IsSubgraph
<1>10. Accounted'
  <2>1. ASSUME NEW s \in Task, IsSubgraph(s), s.try = 0, NEW o \in Members(s.op)
        PROVE  \/ \E u \in subtasks'[s] : u.op = o
               \/ SettledIn(o, {s.gen})'
               \/ s \in failed_task'
    <3>1. CASE SettledIn(o, {s.gen}) \/ s \in failed_task
      <4>1. SettledIn(o, {s.gen}) => SettledIn(o, {s.gen})'
        BY <1>7
      <4> QED
        BY <1>5, <3>1, <4>1
    <3>2. ASSUME NEW u \in subtasks[s], u.op = o
          PROVE  \E x \in subtasks'[s] : x.op = o
      BY <1>2, <1>5, <3>2
    <3> QED
      BY <2>1, <3>1, <3>2 DEF WholeInv, Accounted
  <2> QED
    BY <2>1 DEF Accounted, IsSubgraph, Members
<1>11. TopAccounted'
  <2>1. ASSUME NEW o \in Op, NEW u \in graph.tasks, u.op = o
        PROVE  \E x \in graph'.tasks : x.op = o
    BY <1>2, <1>4, <2>1
  <2> QED
    BY <1>1, <1>7, <2>1 DEF WholeInv, TopAccounted
<1>12. ReturnedEmpty'
  BY <1>1 DEF ReturnedEmpty
<1> QED
  BY <1>8, <1>9, <1>10, <1>11, <1>12 DEF WholeInv

(* A new build stands in for the one that failed. *)
LEMMA RebuildWhole ==
    ASSUME ConsistencyInv, EngineInv, WholeInv, NEW s \in Task, HandleRebuild(s)
    PROVE  WholeInv'
<1> DEFINE n     == s.gen + 1
           new   == FirstTask(s.op, n)
           fresh == TasksFor(Inside(s.op), n)
<1>0. TypeOK /\ waiting_for \subseteq Task /\ graph.tasks \subseteq Task
  BY DEF ConsistencyInv, TypeOK, GraphType
<1>1. /\ s \in finished_tasks /\ s \in graph.tasks /\ IsSubgraph(s) /\ ~Contained(s)
      /\ s.gen < MaxGen
      /\ waiting_for' = waiting_for \ {s}
      /\ pc' = pc /\ pc = "handle"
      /\ error' = "none" => error = "none"
      /\ UNCHANGED <<state, result, subtasks, failed_task>>
  BY DEF HandleRebuild, Popped, Rebuilds, FailOnce, EngineInv, FlightInv, InFlight
<1>2. graph'.tasks = (graph.tasks \ Under(s)) \cup fresh
  BY RebuildEffect
<1>3. /\ \A t \in fresh : t \in Task /\ Fresh(t)
      /\ new \in fresh /\ new.op = s.op
  BY <1>0, <1>1, RebuiltFresh, FirstTaskIsTask DEF TasksFor
<1>4. \A u \in Under(s) : u # s =>
          /\ state[s] = "failed" /\ Contained(u) /\ u \in Task
          /\ s \in {Container(u), FirstTask(Root(u.op), u.gen)}
  BY <1>0, <1>1, LeftInFailed
<1> HIDE DEF n, new, fresh
<1>5. EndsStay /\ OnlyFreshJoin
  BY <1>1, <1>2, <1>3 DEF EndsStay, OnlyFreshJoin, Alive
<1>6. \A o, gens : SettledIn(o, gens) => SettledIn(o, gens)'
  BY <1>5, SettledStays
<1>7. Cut'
  <2>1. ASSUME NEW u \in waiting_for', u \notin graph'.tasks
        PROVE  /\ Contained(u)
               /\ "failed" \in {state[Container(u)], state[FirstTask(Root(u.op), u.gen)]}
    BY <1>1, <1>2, <1>4, <2>1 DEF WholeInv, Cut
  <2> QED
    BY <1>1, <2>1 DEF Cut, Contained, Container, FirstTask, Root
<1>8. Closed'
  BY <1>1 DEF WholeInv, Closed, IsSubgraph
<1>9. Accounted'
  BY <1>1, <1>6 DEF WholeInv, Accounted, IsSubgraph, Members
<1>10. TopAccounted'
  <2>1. ASSUME NEW o \in Op, Parent[o] = NoOp, NEW u \in graph.tasks, u.op = o
        PROVE  \E x \in graph'.tasks : x.op = o
    <3>1. CASE u \in Under(s)
      <4>1. u = s
        BY <1>4, <2>1, <3>1 DEF Contained
      <4> QED
        BY <1>2, <1>3, <2>1, <4>1
    <3>2. CASE u \notin Under(s)
      BY <1>2, <2>1, <3>2
    <3> QED
      BY <3>1, <3>2
  <2> QED
    BY <1>1, <1>6, <2>1 DEF WholeInv, TopAccounted
<1>11. ReturnedEmpty'
  BY <1>1 DEF ReturnedEmpty
<1> QED
  BY <1>7, <1>8, <1>9, <1>10, <1>11 DEF WholeInv

LEMMA RunWhole ==
    ASSUME ConsistencyInv, EngineInv, WholeInv, NEW t \in Task, Run(t)
    PROVE  WholeInv'
<1>0. /\ TypeOK /\ Consistent(graph)
      /\ waiting_for \subseteq Task /\ graph.tasks \subseteq Task
      /\ \A u \in Task : subtasks[u] \subseteq Task
  BY DEF ConsistencyInv, TypeOK, GraphType
<1>1. /\ t \in graph.ready /\ t \in graph.tasks /\ state[t] = "pending"
      /\ waiting_for' = waiting_for \cup {t}
      /\ pc' = pc /\ pc = "run" /\ error' = error
      /\ UNCHANGED <<subtasks, failed_task>>
  BY DEF Run, RunOperation, RunSubgraph, EngineInv, FlightInv, ReadyFree, ReadyIsFree, PendingFirst
<1>2. CASE RunOperation(t)
  <2>1. graph'.tasks = graph.tasks /\ ~IsSubgraph(t)
    BY <1>0, <1>2 DEF RunOperation, Consistent, GraphType
  <2>2. \A u \in Task : u # t => state'[u] = state[u] /\ result'[u] = result[u]
    BY <1>0, <1>2, <2>1, SendEffect DEF RunOperation
  <2>3. EndsStay
    BY <1>1, <2>2 DEF EndsStay
  <2>4. \A s \in Task : IsSubgraph(s) /\ state'[s] = "succeeded" => state[s] = "succeeded"
    BY <2>1, <2>2
  <2> QED
    BY <1>0, <1>1, <2>1, <2>3, <2>4, KeptWhole
<1>3. CASE RunSubgraph(t)
  <2> DEFINE popped == [graph EXCEPT !.ready = @ \ {t}]
  <2>1. /\ Consistent(popped) /\ popped.tasks = graph.tasks
        /\ graph' = ReleaseFrom(popped, t, subtasks[t])
    BY <1>0, <1>3, PopConsistent DEF RunSubgraph, Consistent, GraphType
  <2> HIDE DEF popped
  <2>2. graph'.tasks = graph.tasks
    BY <1>0, <2>1, ReleaseFromConsistent
  <2>3. /\ \A u \in Task : u # t => state'[u] = state[u]
        /\ state'[t] = "succeeded" => subtasks[t] = {}
        /\ result' = result /\ IsSubgraph(t)
    BY <1>0, <1>3 DEF RunSubgraph, TypeOK
  <2>4. t \notin failed_task
    BY <1>0, <1>1, <2>3 DEF EngineInv, FlightInv, SubgraphStates, BooksInv, PendingLists, Alive
  <2>5. EndsStay
    BY <1>1, <2>3 DEF EndsStay
  <2>6. \A s \in Task : IsSubgraph(s) /\ state'[s] = "succeeded" =>
               state[s] = "succeeded" \/ (subtasks[s] = {} /\ s \notin failed_task)
    BY <2>3, <2>4
  <2> QED
    BY <1>0, <1>1, <2>2, <2>5, <2>6, KeptWhole
<1> QED
  BY <1>2, <1>3 DEF Run

LEMMA DueWhole ==
    ASSUME ConsistencyInv, EngineInv, WholeInv, NEW t \in Task, Finish(t) \/ TimerFires(t)
    PROVE  WholeInv'
<1>0. TypeOK /\ waiting_for \subseteq Task
  BY DEF ConsistencyInv, TypeOK
<1>1. /\ ~IsSubgraph(t) /\ state[t] \in {"pending", "sent"}
      /\ UNCHANGED <<graph, waiting_for, error, pc, subtasks, failed_task>>
      /\ pc # "returned"
  BY DEF Finish, TimerFires, EngineInv, FlightInv, SentInFlight, PendingFirst
<1>2. \A u \in Task : u # t => state'[u] = state[u] /\ result'[u] = result[u]
  BY <1>0, <1>1, SendEffect DEF Finish, Settle, TimerFires, TypeOK
<1>3. EndsStay
  BY <1>1, <1>2 DEF EndsStay
<1>4. \A s \in Task : IsSubgraph(s) /\ state'[s] = "succeeded" => state[s] = "succeeded"
  BY <1>1, <1>2
<1> QED
  BY <1>0, <1>1, <1>3, <1>4, KeptWhole

LEMMA QuietWhole ==
    ASSUME ConsistencyInv, EngineInv, WholeInv,
           Check \/ RunDone \/ HandleDone \/ Cancel \/ DeadlinePasses \/ UNCHANGED vars
    PROVE  WholeInv'
<1>1. /\ waiting_for \subseteq Task
      /\ UNCHANGED <<graph, waiting_for, state, result, subtasks, failed_task>>
  BY DEF Check, RunDone, HandleDone, Cancel, DeadlinePasses, vars, ConsistencyInv, TypeOK
<1>2. error' = "none" => error = "none"
  BY DEF Check, RunDone, HandleDone, Cancel, DeadlinePasses, vars
<1>3. pc' = "returned" /\ error' = "none" => graph.tasks = {}
  <2>1. CASE Check
    BY <2>1 DEF Check, IsFinished
  <2>2. CASE ~Check
    BY <2>2 DEF RunDone, HandleDone, Cancel, DeadlinePasses, vars, WholeInv, ReturnedEmpty
  <2> QED
    BY <2>1, <2>2
<1>4. EndsStay
  BY <1>1 DEF EndsStay
<1> QED
  BY <1>1, <1>2, <1>3, <1>4, KeptWhole

LEMMA AnswerAtOnceWhole ==
    ASSUME ConsistencyInv, EngineInv, WholeInv, NEW t \in Task, AnswerAtOnce(t)
    PROVE  WholeInv'
<1>0. /\ TypeOK /\ Consistent(graph) /\ waiting_for \subseteq Task
  BY DEF ConsistencyInv, TypeOK
<1>1. /\ t \in graph.ready /\ t \in graph.tasks /\ state[t] = "pending"
      /\ waiting_for' = waiting_for \cup {t}
      /\ graph'.tasks = graph.tasks
      /\ pc' = pc /\ pc = "run" /\ error' = error
      /\ UNCHANGED <<subtasks, failed_task>>
  BY <1>0 DEF AnswerAtOnce, EngineInv, FlightInv, ReadyFree, ReadyIsFree, PendingFirst,
              Consistent, GraphType
<1>2. /\ ~IsSubgraph(t)
      /\ \A u \in Task : u # t => state'[u] = state[u] /\ result'[u] = result[u]
  BY <1>0, AnswerAtOnceEffect
<1>3. EndsStay
  BY <1>1, <1>2 DEF EndsStay
<1>4. \A s \in Task : IsSubgraph(s) /\ state'[s] = "succeeded" => state[s] = "succeeded"
  BY <1>2
<1> QED
  BY <1>0, <1>1, <1>3, <1>4, KeptWhole

LEMMA CallBackAgainWhole ==
    ASSUME ConsistencyInv, EngineInv, WholeInv, NEW t \in Task, CallBackAgain(t)
    PROVE  WholeInv'
<1>1. /\ waiting_for \subseteq Task /\ pc # "returned"
      /\ UNCHANGED <<graph, waiting_for, state, result, subtasks, failed_task, error, pc>>
  BY DEF CallBackAgain, ConsistencyInv, TypeOK
<1>2. EndsStay
  BY <1>1 DEF EndsStay
<1> QED
  BY <1>1, <1>2, KeptWhole

(* A second handling takes nothing out of the graph. *)
LEMMA HandleAgainWhole ==
    ASSUME ConsistencyInv, EngineInv, TwiceInv, WholeInv, NEW t \in Task, HandleAgain(t)
    PROVE  WholeInv'
<1>0. /\ TypeOK /\ Consistent(graph) /\ waiting_for \subseteq Task /\ pc = "handle"
      /\ UNCHANGED <<waiting_for, state, result, subtasks, failed_task>>
  BY DEF ConsistencyInv, TypeOK, HandleAgain
<1>1. EndsStay
  BY <1>0 DEF EndsStay
<1>2. CASE /\ graph' = graph /\ (error' = "none" => error = "none")
           /\ pc' = "returned" => error' # "none"
  BY <1>0, <1>1, <1>2, KeptWhole
<1>3. CASE /\ SecondRetry(t) \in Task
           /\ graph' = AddTasks(graph, {SecondRetry(t)})
           /\ UNCHANGED <<error, pc>>
           /\ \A u \in Task : u.op = SecondRetry(t).op /\ u.gen = SecondRetry(t).gen
                              => Fresh(u)
  <2>1. Fresh(SecondRetry(t)) /\ {SecondRetry(t)} \in SUBSET Task
    BY <1>3
  <2>2. graph'.tasks = graph.tasks \cup {SecondRetry(t)}
    BY <1>0, <1>3, <2>1, AddTasksConsistent
  <2>3. OnlyFreshJoin
    BY <1>0, <2>1, <2>2 DEF OnlyFreshJoin, Alive
  <2>4. \A o, gens : SettledIn(o, gens) => SettledIn(o, gens)'
    BY <1>1, <2>3, SettledStays
  <2>5. Cut'
    BY <1>0, <2>2 DEF WholeInv, Cut, Contained, Container, FirstTask, Root
  <2>6. Closed'
    BY <1>0 DEF WholeInv, Closed, IsSubgraph
  <2>7. Accounted'
    BY <1>0, <2>4 DEF WholeInv, Accounted, IsSubgraph, Members
  <2>8. TopAccounted'
    BY <1>3, <2>2, <2>4 DEF WholeInv, TopAccounted
  <2>9. ReturnedEmpty'
    BY <1>0, <1>3 DEF ReturnedEmpty
  <2> QED
    BY <2>5, <2>6, <2>7, <2>8, <2>9 DEF WholeInv
<1> QED
  BY <1>0, <1>2, <1>3, HandleAgainEffect

LEMMA NextWhole ==
    ConsistencyInv /\ EngineInv /\ TwiceInv /\ WholeInv /\ [Next]_vars => WholeInv'
<1> SUFFICES ASSUME ConsistencyInv, EngineInv, TwiceInv, WholeInv, [Next]_vars PROVE WholeInv'
  OBVIOUS
<1>a. ConsistencyInv' /\ TypeOK
  BY NextConsistency DEF ConsistencyInv
<1>1. ASSUME NEW t \in Task, HandleEnd(t) PROVE WholeInv'
  <2>1. /\ t \in finished_tasks /\ Ends(t) /\ pc = "handle" /\ pc' = pc /\ error' = error
        /\ TellContainer(t, FALSE, {}) /\ FALSE \in BOOLEAN /\ {} \in SUBSET Task
        /\ error # "crashed"
    BY <1>1 DEF HandleEnd, Popped, EngineInv, FlightInv, InFlight
  <2>2. EndedWell(t) /\ Leaves(t, Under(t))
    BY <1>1, <1>a, <2>1, EndsWell, HandleEndLeaves
  <2>3. \A u \in Task : state'[u] = "succeeded" /\ state[u] # "succeeded" =>
               subtasks'[u] = {} /\ u \notin failed_task'
    BY <2>1, TellContainerEffect
  <2> QED
    BY <1>a, <2>1, <2>2, <2>3, LeavesWhole
<1>2. ASSUME NEW t \in Task, HandleFail(t) PROVE WholeInv'
  <2>1. /\ t \in finished_tasks /\ pc = "handle" /\ pc' = pc
        /\ error' = "none" => error = "none"
        /\ ~Contained(t) => error' # "none"
        /\ TellContainer(t, TRUE, {}) /\ TRUE \in BOOLEAN /\ {} \in SUBSET Task
        /\ Contained(t) => Container(t) \in failed_task'
    BY <1>2 DEF HandleFail, Popped, FailOnce, TellContainer
  <2>2. Leaves(t, Under(t))
    BY <1>2, HandleFailLeaves
  <2>3. \A u \in Task : state'[u] = "succeeded" /\ state[u] # "succeeded" =>
               subtasks'[u] = {} /\ u \notin failed_task'
    BY <2>1, TellContainerEffect
  <2> QED
    BY <1>a, <2>1, <2>2, <2>3, LeavesWhole
<1>3. ASSUME NEW t \in Task, HandlePropagate(t) PROVE WholeInv'
  <2>1. /\ Contained(t) /\ Container(t) \in failed_task'
        /\ pc = "handle"
        /\ pc' = "returned" => error' = "crashed"
        /\ error' = "none" => error = "none"
    BY <1>3 DEF HandlePropagate, Popped, Propagates
  <2>2. \A u \in Task : state'[u] = "succeeded" /\ state[u] # "succeeded" => FALSE
    BY <1>3, <1>a DEF HandlePropagate, TypeOK
  <2>3. Leaves(t, Under(t)) \/ Leaves(t, Under(t) \ {t})
    BY <1>3, HandlePropagateLeaves
  <2> QED
    BY <1>a, <2>1, <2>2, <2>3, LeavesWhole
<1>4. ASSUME NEW t \in Task, HandleRetry(t) \/ HandleRebuild(t) PROVE WholeInv'
  BY <1>4, RetryWhole, RebuildWhole
<1>5. ASSUME NEW t \in Task, AnswerAtOnce(t) \/ CallBackAgain(t) \/ HandleAgain(t)
      PROVE  WholeInv'
  BY <1>5, AnswerAtOnceWhole, CallBackAgainWhole, HandleAgainWhole
<1>6. /\ graph.ready \cup finished_tasks \cup waiting_for \cup timers \subseteq Task
      /\ redelivery.due \cup redelivery.again \subseteq Task
  BY DEF TypeOK, GraphType, ConsistencyInv
<1> QED
  BY <1>1, <1>2, <1>3, <1>4, <1>5, <1>6, RunWhole, DueWhole, QuietWhole
     DEF Next, MainLoop, Due, Handle

LEMMA AlwaysWhole == Spec => [](ConsistencyInv /\ EngineInv /\ WholeInv)
BY InitConsistency, InitEngine, InitTwice, InitWhole,
   NextConsistency, NextEngine, NextTwice, NextWhole, PTL DEF Spec

(* A subgraph never reports success over an operation that was lost,       *)
(* retried or failed, and execute() never returns without an error while   *)
(* something it should have run has not come to a good end.                *)
THEOREM GoodEndsStayWhole == Spec => []GoodEndsAreWhole
<1>1. ConsistencyInv /\ EngineInv /\ WholeInv => GoodEndsAreWhole
  <2> SUFFICES ASSUME ConsistencyInv, EngineInv, WholeInv PROVE GoodEndsAreWhole
    OBVIOUS
  <2>1. ASSUME NEW s \in Task, IsSubgraph(s), state[s] = "succeeded", NEW o \in Members(s.op)
        PROVE  SettledIn(o, {s.gen})
    <3>1. s.try = 0
      BY <2>1 DEF EngineInv, FlightInv, SubgraphStates
    <3>2. subtasks[s] = {} /\ s \notin failed_task
      BY <2>1 DEF WholeInv, Closed
    <3> QED
      BY <2>1, <3>1, <3>2 DEF WholeInv, Accounted
  <2>2. ASSUME pc = "returned", error = "none"
        PROVE  /\ \A o \in Op : Parent[o] = NoOp => SettledIn(o, 0..MaxGen)
               /\ \A t \in waiting_for \cup timers :
                     /\ Contained(t)
                     /\ "failed" \in {state[Container(t)],
                                      state[FirstTask(Root(t.op), t.gen)]}
    <3>1. graph.tasks = {}
      BY <2>2 DEF WholeInv, ReturnedEmpty
    <3>2. timers \subseteq waiting_for
      BY DEF EngineInv, FlightInv, InFlight
    <3> QED
      BY <2>2, <3>1, <3>2 DEF WholeInv, TopAccounted, Cut
  <2> QED
    BY <2>1, <2>2 DEF GoodEndsAreWhole
<1> QED
  BY <1>1, AlwaysWhole, PTL

-----------------------------------------------------------------------------
(* Order: what is applied has all it was made to wait for *)

(* All that the author made t depend on has come to a good end.            *)
NeedsSettled(t) ==
    \A e \in Needs : e[1] = t.op => SettledIn(e[2], Builds(t, e[2]))

(* What a task waits for is its container or what the author said, in the  *)
(* same build.                                                             *)
Wants(t, d) ==
    /\ (Contained(t) /\ d = Container(t)) \/ <<t.op, d.op>> \in Needs
    /\ Contained(t) => d.gen = t.gen

EdgesMeant == \A t, d \in Task : d \in graph.dependencies[t] => Wants(t, d)

(* A retry waits for nothing. *)
RetriesFree == \A t \in Task : t.try > 0 => graph.dependencies[t] = {}

(* While a subgraph that failed still has tasks in the graph its failure   *)
(* was not handled, and it is before the loop runs anything again.         *)
FailedHandled ==
    error # "crashed" =>
        \A t \in graph.tasks : t.try = 0 /\ Contained(t) /\ state[Container(t)] = "failed" =>
            Container(t) \in finished_tasks

HandleFirst ==
    pc \notin {"handle", "returned"} =>
        \A t \in finished_tasks : IsSubgraph(t) => state[t] = "succeeded"

AppliedInOrder == \A t \in waiting_for : NeedsSettled(t)

PendingInOrder ==
    \A t \in graph.tasks \ waiting_for : \A e \in Needs : e[1] = t.op =>
        \/ \E d \in graph.dependencies[t] : d.op = e[2]
        \/ SettledIn(e[2], Builds(t, e[2]))
        \/ error # "none"
        \/ t.try = 0 /\ Contained(t) /\ state[Container(t)] = "failed"

(* What will be handled a second time had all it needs the first time. *)
AgainInOrder == \A t \in redelivery.due \cup redelivery.again : NeedsSettled(t)

OrderInv == /\ EdgesMeant /\ RetriesFree /\ FailedHandled /\ HandleFirst
            /\ AppliedInOrder /\ PendingInOrder

LEMMA InitOrder == SiblingNeeds /\ Init => OrderInv
<1> SUFFICES ASSUME SiblingNeeds, Init PROVE OrderInv
  OBVIOUS
<1>1. /\ 0 \in 0..MaxGen /\ Op \in SUBSET Op /\ graph = Build(EmptyGraph, Op, 0)
      /\ Consistent(EmptyGraph) /\ Tight(EmptyGraph, {}) /\ EmptyGraph.tasks = {}
      /\ {} \in SUBSET Task /\ graph \in GraphType
  BY BoundAssumption, EmptyGraphConsistent, EmptyGraphTight, InitConsistency
  DEF Init, EmptyGraph, ConsistencyInv, TypeOK
<1>2. /\ \A t \in Task \ TasksFor(Op, 0) : graph.dependencies[t] = EmptyGraph.dependencies[t]
      /\ \A o, p \in Op : o # p /\ Linked(o, p) =>
             FirstTask(p, 0) \in graph.dependencies[FirstTask(o, 0)]
      /\ \A o \in Op : graph.dependencies[FirstTask(o, 0)] \subseteq Wanted(o, Op, 0)
  <2>1. \A t \in TasksFor(Op, 0) : t \notin {} /\ t \notin EmptyGraph.tasks
    BY <1>1
  <2>2. \A t \in Task \ TasksFor(Op, 0) :
            Build(EmptyGraph, Op, 0).dependencies[t] = EmptyGraph.dependencies[t]
    BY <1>1, <2>1, BuildTight, ZenonT(60)
  <2>3. \A o, p \in Op : o # p /\ Linked(o, p) =>
            FirstTask(p, 0) \in Build(EmptyGraph, Op, 0).dependencies[FirstTask(o, 0)]
    BY <1>1, <2>1, BuildTight
  <2>4. \A o \in Op : Build(EmptyGraph, Op, 0).dependencies[FirstTask(o, 0)]
                         \subseteq Wanted(o, Op, 0)
    BY <1>1, <2>1, BuildTight
  <2> QED
    BY <1>1, <2>2, <2>3, <2>4
<1>3. graph.tasks = TasksFor(Op, 0)
  <2>1. Build(EmptyGraph, Op, 0).tasks = EmptyGraph.tasks \cup TasksFor(Op, 0)
    BY <1>1, BuildConsistent
  <2> QED
    BY <1>1, <2>1
<1>4. \A t \in TasksFor(Op, 0) : /\ t \in Task /\ t.op \in Op /\ t.gen = 0 /\ t.try = 0
                                 /\ t = FirstTask(t.op, 0)
  BY <1>1, FirstTaskIsTask DEF TasksFor
<1>5. \A t \in Task : t \notin TasksFor(Op, 0) => graph.dependencies[t] = {}
  BY <1>2 DEF EmptyGraph
<1>6. EdgesMeant
  <2>1. ASSUME NEW t \in Task, NEW d \in Task, d \in graph.dependencies[t] PROVE Wants(t, d)
    <3>1. t \in TasksFor(Op, 0)
      BY <1>5, <2>1
    <3>2. d \in Wanted(t.op, Op, 0) /\ t.gen = 0
      BY <1>2, <1>4, <2>1, <3>1
    <3>3. PICK p \in Op : d = FirstTask(p, 0) /\ Linked(t.op, p)
      BY <3>2 DEF Wanted
    <3>4. d.op = p /\ d.gen = 0
      BY <1>1, <3>3, FirstTaskIsTask
    <3> QED
      BY <3>2, <3>3, <3>4, WorkflowAssumption DEF Linked, Wants, Contained, Container
  <2> QED
    BY <2>1 DEF EdgesMeant
<1>7. RetriesFree
  BY <1>4, <1>5 DEF RetriesFree
<1>8. FailedHandled /\ HandleFirst /\ AppliedInOrder
  <2>1. \A t \in graph.tasks : Contained(t) => state[Container(t)] = "pending"
    BY <1>3, <1>4, ContainerIsTask DEF Init
  <2>2. finished_tasks = {} /\ waiting_for = {}
    BY DEF Init
  <2> QED
    BY <2>1, <2>2 DEF FailedHandled, HandleFirst, AppliedInOrder
<1>9. PendingInOrder
  <2>1. ASSUME NEW t \in graph.tasks, NEW e \in Needs, e[1] = t.op
        PROVE  \E d \in graph.dependencies[t] : d.op = e[2]
    <3>1. t.op \in Op /\ t = FirstTask(t.op, 0) /\ e[2] \in Op /\ e[2] # t.op /\ e = <<t.op, e[2]>>
      BY <1>3, <1>4, <2>1, WorkflowAssumption DEF SiblingNeeds
    <3>2. Linked(t.op, e[2])
      BY <3>1 DEF Linked
    <3>3. FirstTask(e[2], 0) \in graph.dependencies[t] /\ FirstTask(e[2], 0).op = e[2]
      BY <1>1, <1>2, <3>1, <3>2, FirstTaskIsTask
    <3> QED
      BY <3>3
  <2> QED
    BY <2>1 DEF PendingInOrder
<1> QED
  BY <1>6, <1>7, <1>8, <1>9 DEF OrderInv

(* What is ready has all it needs, and its container runs. *)
LEMMA ReadyInOrder ==
    ASSUME TypeOK, EngineInv, WholeInv, OrderInv, pc = "run", error = "none",
           NEW t \in graph.ready
    PROVE  /\ NeedsSettled(t)
           /\ Contained(t) /\ t.try = 0 => state[Container(t)] = "started"
<1>1. /\ t \in Task /\ t \in graph.tasks \ waiting_for /\ graph.dependencies[t] = {}
  BY DEF TypeOK, GraphType, EngineInv, FlightInv, ReadyFree, ReadyIsFree, AppliedFree
<1>2. ASSUME Contained(t), t.try = 0 PROVE state[Container(t)] = "started"
  <2>1. Container(t) \in Task /\ IsSubgraph(Container(t)) /\ t \in subtasks[Container(t)]
    BY <1>1, <1>2, ContainerShape DEF EngineInv, BooksInv, ListedAll, Alive
  <2>2. state[Container(t)] # "pending"
    BY <1>1, <1>2 DEF EngineInv, BooksInv, Held
  <2>3. state[Container(t)] # "succeeded"
    BY <2>1 DEF WholeInv, Closed
  <2>4. state[Container(t)] # "failed"
    BY <1>1, <1>2, <2>1 DEF OrderInv, FailedHandled, HandleFirst
  <2> QED
    BY <2>1, <2>2, <2>3, <2>4 DEF EngineInv, FlightInv, SubgraphStates
<1>3. NeedsSettled(t)
  BY <1>1, <1>2 DEF OrderInv, PendingInOrder, NeedsSettled
<1> QED
  BY <1>2, <1>3

(* The steps that take nothing out of the graph. *)
LEMMA KeptOrder ==
    ASSUME TypeOK, OrderInv, EndsStay,
           graph'.tasks = graph.tasks, graph.tasks \subseteq Task,
           waiting_for \subseteq waiting_for', waiting_for' \subseteq Task,
           waiting_for' \subseteq waiting_for \cup graph.tasks,
           \A t \in waiting_for' : t \in waiting_for \/ NeedsSettled(t),
           \A t, d \in Task : d \in graph'.dependencies[t] => d \in graph.dependencies[t],
           \A t \in Task : graph'.dependencies[t] \subseteq Task /\ graph.dependencies[t] \subseteq Task,
           \A t, d \in Task : d \in graph.dependencies[t] /\ <<t.op, d.op>> \in Needs
                              => d \in graph'.dependencies[t],
           \A s \in Task : IsSubgraph(s) /\ state'[s] = "failed" => state[s] = "failed",
           finished_tasks \subseteq finished_tasks', finished_tasks' \subseteq Task,
           \A s \in finished_tasks' : IsSubgraph(s) /\ s \notin finished_tasks
                                      => state'[s] = "succeeded",
           error = "crashed" => error' = "crashed", error' = "none" => error = "none",
           \/ pc' \in {"handle", "returned"}
           \/ pc \notin {"handle", "returned"}
           \/ finished_tasks' = {}
    PROVE  OrderInv'
<1>1. OnlyFreshJoin
  BY DEF OnlyFreshJoin, Alive
<1>2. \A o, gens : SettledIn(o, gens) => SettledIn(o, gens)'
  BY <1>1, SettledStays
<1>3. EdgesMeant'
  BY DEF OrderInv, EdgesMeant, Wants, Contained, Container, FirstTask
<1>4. RetriesFree'
  BY DEF OrderInv, RetriesFree
<1>5. FailedHandled'
  BY ContainerShape DEF OrderInv, FailedHandled, Contained, Container, FirstTask
<1>6. HandleFirst'
  BY DEF OrderInv, HandleFirst, EndsStay, IsSubgraph, TypeOK
<1>7. AppliedInOrder'
  BY <1>2 DEF OrderInv, AppliedInOrder, NeedsSettled, Builds
<1>8. PendingInOrder'
  <2>1. ASSUME NEW t \in graph'.tasks, t \notin waiting_for', NEW e \in Needs, e[1] = t.op
        PROVE  \/ \E d \in graph'.dependencies[t] : d.op = e[2]
               \/ SettledIn(e[2], Builds(t, e[2]))'
               \/ error' # "none"
               \/ t.try = 0 /\ Contained(t) /\ state'[Container(t)] = "failed"
    <3>1. t \in Task /\ t \in graph.tasks \ waiting_for
      BY <2>1
    <3>2. CASE \E d \in graph.dependencies[t] : d.op = e[2]
      <4>1. PICK d \in graph.dependencies[t] : d.op = e[2]
        BY <3>2
      <4>2. e = <<t.op, d.op>>
        BY <2>1, <4>1, WorkflowAssumption
      <4> QED
        BY <3>1, <4>1, <4>2
    <3>3. CASE SettledIn(e[2], Builds(t, e[2]))
      BY <1>2, <3>3 DEF Builds
    <3>4. CASE t.try = 0 /\ Contained(t) /\ state[Container(t)] = "failed"
      BY <3>1, <3>4, ContainerIsTask DEF EndsStay
    <3> QED
      BY <2>1, <3>1, <3>2, <3>3, <3>4 DEF OrderInv, PendingInOrder
  <2> QED
    BY <2>1 DEF PendingInOrder, Contained, Container, FirstTask
<1> QED
  BY <1>3, <1>4, <1>5, <1>6, <1>7, <1>8 DEF OrderInv

(* The build that a dependency is in is one that may satisfy it. *)
LEMMA WantedBuild ==
    ASSUME SiblingNeeds, NEW t \in Task, NEW d \in Task, Wants(t, d), <<t.op, d.op>> \in Needs
    PROVE  d.gen \in Builds(t, d.op)
<1>1. /\ d.gen \in 0..MaxGen /\ Parent[t.op] = Parent[d.op] /\ t.op # d.op
      /\ Contained(t) => d.gen = t.gen
  BY TaskFields DEF SiblingNeeds, Wants
<1>2. ~Contained(t) => Root(t.op) = t.op /\ Root(d.op) = d.op
  BY <1>1 DEF Contained, Root
<1>3. CASE Contained(t)
  BY <1>1, <1>3 DEF Builds
<1>4. CASE ~Contained(t)
  <2>1. Root(d.op) # Root(t.op)
    BY <1>1, <1>2, <1>4
  <2> QED
    BY <1>1, <2>1 DEF Builds
<1> QED
  BY <1>3, <1>4

(* What is not under t waits for nothing under t but t itself. *)
LEMMA WaitsOutside ==
    ASSUME SiblingNeeds, TypeOK, EngineInv, OrderInv, NEW t \in Task,
           NEW u \in graph.tasks, u \notin Under(t),
           NEW d \in graph.dependencies[u], d \in Under(t)
    PROVE  d = t /\ <<u.op, d.op>> \in Needs /\ u \in Task /\ Wants(u, d)
<1>1. /\ u \in Task /\ u \in Alive /\ d \in Task
      /\ \A x \in Under(t) : x # t => Contained(x) /\ Container(x) \in Under(t)
      /\ \A x \in Alive : Contained(x) /\ Container(x) \in Under(t) => x \in Under(t)
  BY UnderShape DEF TypeOK, GraphType, Alive, EngineInv, BooksInv
<1>2. Wants(u, d)
  BY <1>1 DEF OrderInv, EdgesMeant
<1>3. <<u.op, d.op>> \in Needs
  BY <1>1, <1>2 DEF Wants
<1>4. ASSUME d # t PROVE FALSE
  <2>1. Contained(d) /\ Parent[u.op] = Parent[d.op]
    BY <1>1, <1>3, <1>4 DEF SiblingNeeds
  <2>2. Contained(u) /\ u.gen = d.gen
    BY <1>2, <2>1 DEF Contained, Wants
  <2>3. Container(u) = Container(d)
    BY <2>1, <2>2 DEF Container
  <2> QED
    BY <1>1, <1>4, <2>2, <2>3
<1> QED
  BY <1>1, <1>2, <1>3, <1>4

(* What is taken out with a task sets loose what waited for it: that may   *)
(* go on if it came to a good end, and is never run if the container or    *)
(* the execution failed.                                                   *)
LEMMA LeavesOrder ==
    ASSUME SiblingNeeds, ConsistencyInv, EngineInv, OrderInv, NEW t \in Task, NEW R, Leaves(t, R),
           pc = "handle", pc' \in {"handle", "returned"},
           error' = "none" => error = "none",
           \/ EndedWell(t)
           \/ Contained(t) /\ state'[Container(t)] = "failed"
           \/ error' # "none"
    PROVE  OrderInv'
<1>0. /\ TypeOK /\ Consistent(graph) /\ graph \in GraphType
      /\ waiting_for \subseteq Task /\ graph.tasks \subseteq Task
      /\ \A u \in Task : graph.dependencies[u] \subseteq Task
  BY DEF ConsistencyInv, TypeOK, GraphType
<1>1. /\ t \in finished_tasks /\ t \in waiting_for /\ t \in Alive
      /\ state[t] \notin {"pending", "started", "sent"}
      /\ waiting_for' = waiting_for \ {t}
      /\ result' = result
      /\ \A u \in Task : state'[u] = state[u] \/ state[u] = "started"
      /\ \A u \in Task : u \in finished_tasks' <=>
             (u \in finished_tasks /\ u # t) \/ state'[u] # state[u]
      /\ error # "crashed"
  BY <1>0 DEF Leaves, EngineInv, FlightInv, InFlight, FinishedFits, Fits, Alive
<1>2. /\ R \in SUBSET Task /\ R \subseteq Under(t) /\ Under(t) \subseteq R \cup {t}
      /\ error' # "crashed" => t \in R
      /\ graph' = RemoveTasks(graph, R)
  BY <1>0, UnderIsTasks DEF Leaves
<1>3. Tight(graph, waiting_for) /\ waiting_for \in SUBSET Task
  BY <1>0, <1>1 DEF EngineInv, FlightInv, ReadyFree, AppliedFree, NoneForgotten, Tight
<1>4. /\ graph'.tasks = graph.tasks \ R
      /\ \A u \in Task : graph'.dependencies[u] =
             IF u \in R THEN {} ELSE graph.dependencies[u] \ R
  <2> DEFINE V == waiting_for \ (R \cap {t})
  <2>1. V \in SUBSET waiting_for /\ waiting_for \subseteq V \cup R
    OBVIOUS
  <2> HIDE DEF V
  <2>2. graph'.tasks = graph.tasks \ R
    BY <1>0, <1>2, RemoveTasksConsistent
  <2>3. \A u \in Task : RemoveTasks(graph, R).dependencies[u] =
             IF u \in R THEN {} ELSE graph.dependencies[u] \ R
    BY <1>0, <1>2, <1>3, <2>1, RemoveTasksTight
  <2> QED
    BY <1>2, <2>2, <2>3
<1>5. \A u \in Task : \A d \in graph'.dependencies[u] : d \in graph.dependencies[u]
  BY <1>4
<1>6. EndsStay /\ OnlyFreshJoin
  BY <1>1, <1>4 DEF EndsStay, OnlyFreshJoin, Alive
<1>7. \A o, gens : SettledIn(o, gens) => SettledIn(o, gens)'
  BY <1>6, SettledStays
<1>8. EndedWell(t) /\ error' # "crashed" => Settled(t)'
  BY <1>1, <1>2, <1>4 DEF EndedWell, Settled, PollsAgain
<1>9. EdgesMeant' /\ RetriesFree'
  BY <1>4, <1>5 DEF OrderInv, EdgesMeant, RetriesFree, Wants, Contained, Container, FirstTask
<1>10. FailedHandled'
  <2>1. ASSUME error' # "crashed", NEW u \in graph'.tasks, u.try = 0, Contained(u),
               state'[Container(u)] = "failed"
        PROVE  Container(u) \in finished_tasks'
    <3>1. u \in Task /\ u \in graph.tasks /\ u \notin Under(t) /\ Container(u) \in Task
      BY <1>0, <1>2, <1>4, <2>1, ContainerIsTask
    <3>2. Container(u) # t
      <4>1. t \in Under(t) /\ u \in Alive
        BY <3>1 DEF Under, Alive
      <4> QED
        BY <1>0, <2>1, <3>1, <4>1, UnderShape DEF EngineInv, BooksInv
    <3> QED
      BY <1>1, <2>1, <3>1, <3>2 DEF OrderInv, FailedHandled
  <2> QED
    BY <2>1 DEF FailedHandled, Contained, Container, FirstTask
<1>11. HandleFirst'
  BY DEF HandleFirst
<1>12. AppliedInOrder'
  BY <1>1, <1>7 DEF OrderInv, AppliedInOrder, NeedsSettled, Builds
<1>13. PendingInOrder'
  <2>1. ASSUME NEW u \in graph'.tasks, u \notin waiting_for', NEW e \in Needs, e[1] = u.op,
               error' = "none"
        PROVE  \/ \E d \in graph'.dependencies[u] : d.op = e[2]
               \/ SettledIn(e[2], Builds(u, e[2]))'
               \/ u.try = 0 /\ Contained(u) /\ state'[Container(u)] = "failed"
    <3>1. u \in Task /\ u \in graph.tasks \ waiting_for /\ u \notin Under(t) /\ error = "none"
      BY <1>0, <1>1, <1>2, <1>4, <2>1
    <3>2. CASE SettledIn(e[2], Builds(u, e[2]))
      BY <1>7, <3>2 DEF Builds
    <3>3. CASE u.try = 0 /\ Contained(u) /\ state[Container(u)] = "failed"
      BY <1>6, <3>1, <3>3, ContainerIsTask DEF EndsStay
    <3>4. ASSUME NEW d \in graph.dependencies[u], d.op = e[2], d \in R
          PROVE  \/ SettledIn(e[2], Builds(u, e[2]))'
                 \/ u.try = 0 /\ Contained(u) /\ state'[Container(u)] = "failed"
      <4>1. d = t /\ <<u.op, d.op>> \in Needs /\ Wants(u, d)
        BY <1>0, <1>2, <3>1, <3>4, WaitsOutside
      <4>2. CASE EndedWell(t)
        <5>1. Settled(t)' /\ t.gen \in Builds(u, t.op)
          BY <1>8, <2>1, <3>1, <4>1, <4>2, WantedBuild
        <5> QED
          BY <3>4, <4>1, <5>1 DEF SettledIn, Builds
      <4>3. CASE Contained(t) /\ state'[Container(t)] = "failed"
        <5>1. u.try = 0
          BY <3>1, <3>4, TaskFields DEF OrderInv, RetriesFree
        <5>2. Contained(u) /\ Container(u) = Container(t)
          BY <4>1, <4>3 DEF SiblingNeeds, Wants, Contained, Container
        <5> QED
          BY <4>3, <5>1, <5>2
      <4> QED
        BY <2>1, <4>2, <4>3
    <3>5. ASSUME NEW d \in graph.dependencies[u], d.op = e[2], d \notin R
          PROVE  \E x \in graph'.dependencies[u] : x.op = e[2]
      <4>1. u \notin R
        BY <1>2, <3>1
      <4>2. d \in graph'.dependencies[u]
        BY <1>4, <3>1, <3>5, <4>1
      <4> QED
        BY <3>5, <4>2
    <3> QED
      BY <2>1, <3>1, <3>2, <3>3, <3>4, <3>5 DEF OrderInv, PendingInOrder
  <2> QED
    BY <2>1 DEF PendingInOrder, Contained, Container, FirstTask
<1> QED
  BY <1>9, <1>10, <1>11, <1>12, <1>13 DEF OrderInv

(* A retry has what the attempt before it had, and what waited for that    *)
(* one waits for the retry.                                                *)
LEMMA RetryOrder ==
    ASSUME ConsistencyInv, EngineInv, OrderInv, NEW t \in Task, HandleRetry(t)
    PROVE  OrderInv'
<1> DEFINE new == Duplicate(t)
<1>0. /\ TypeOK /\ Consistent(graph)
      /\ waiting_for \subseteq Task /\ graph.tasks \subseteq Task
      /\ \A u \in Task : graph.dependencies[u] \subseteq Task
      /\ \A u \in Task : u \notin graph.tasks => graph.dependencies[u] = {}
  BY DEF ConsistencyInv, TypeOK, GraphType, Consistent, EdgesInside
<1>1. /\ t \in finished_tasks /\ t \in waiting_for /\ t \in Alive
      /\ ~IsSubgraph(t)
      /\ waiting_for' = waiting_for \ {t}
      /\ error # "crashed" /\ error' = error /\ pc = "handle" /\ pc' = pc
      /\ result' = result
      /\ graph.dependencies[t] = {}
      /\ graph' = RemoveTasks(TakeOver(graph, t, new), {t})
      /\ TellContainer(t, FALSE, {new})
      /\ t.try < MaxTry
  BY <1>0 DEF HandleRetry, Popped, EngineInv, FlightInv, InFlight, AppliedFree, Alive
<1>2. /\ new \in Task /\ new.op = t.op /\ new.gen = t.gen
      /\ new.try > t.try /\ new.try > 0 /\ new # t
      /\ Contained(new) <=> Contained(t)
      /\ Container(new) = Container(t)
  BY <1>1, DuplicateIsTask, TaskFields, BoundAssumption DEF Contained, Container
<1>3. Fresh(new) /\ new \notin graph.tasks /\ new \notin waiting_for /\ graph.dependencies[new] = {}
  BY <1>0, <1>1, <1>2 DEF EngineInv, FreshInv, FreshTries, Fresh, Alive
<1> HIDE DEF new
<1>4. Tight(graph, waiting_for) /\ waiting_for \in SUBSET Task
  BY <1>0, <1>1 DEF EngineInv, FlightInv, ReadyFree, AppliedFree, NoneForgotten, Tight
<1>6. /\ graph'.tasks = (graph.tasks \cup {new}) \ {t}
      /\ \A u, d \in Task : d \in graph'.dependencies[u] <=>
             /\ u # t /\ d # t
             /\ \/ d \in graph.dependencies[u]
                \/ d = new /\ t \in graph.dependencies[u]
      /\ \A u \in Task : graph'.dependencies[u] \subseteq Task
  <2>1. /\ Consistent(graph) /\ Tight(graph, waiting_for) /\ waiting_for \in SUBSET Task
        /\ new \in Task /\ t # new /\ new \notin waiting_for
        /\ graph.dependencies[new] = {} /\ graph.dependencies[t] = {}
        /\ graph' = RemoveTasks(TakeOver(graph, t, new), {t})
    BY <1>0, <1>1, <1>2, <1>3, <1>4
  <2> DEFINE R == {t}
  <2>2. (\A x : x \in R <=> x = t) /\ graph' = RemoveTasks(TakeOver(graph, t, new), R)
    BY <2>1
  <2> HIDE DEF R
  <2>3. \A x : x \in waiting_for' <=> x \in waiting_for /\ x # t
    BY <1>1
  <2>4. /\ Tight(graph', waiting_for') /\ Consistent(graph')
        /\ Replaced(graph, graph', t, new)
    BY <2>1, <2>2, <2>3, RetryTight
  <2> QED
    BY <2>4 DEF Replaced, Consistent, GraphType
<1>7. /\ \A u \in Task :
            \/ state'[u] = state[u]
            \/ /\ Contained(t) /\ u = Container(t)
               /\ state[u] = "started" /\ state'[u] \in {"succeeded", "failed"}
      /\ \A u \in Task : u \in finished_tasks' <=>
            (u \in finished_tasks /\ u # t) \/ state'[u] # state[u]
  <2>1. {new} \in SUBSET Task /\ FALSE \in BOOLEAN
    BY <1>2
  <2> QED
    BY <1>1, <2>1, TellContainerEffect
<1>8. EndsStay /\ OnlyFreshJoin
  BY <1>1, <1>3, <1>6, <1>7 DEF EndsStay, OnlyFreshJoin, Alive
<1>9. \A o, gens : SettledIn(o, gens) => SettledIn(o, gens)'
  BY <1>8, SettledStays
<1>10. EdgesMeant'
  <2>1. ASSUME NEW u \in Task, NEW d \in Task, d \in graph'.dependencies[u] PROVE Wants(u, d)
    <3>1. CASE d \in graph.dependencies[u]
      BY <3>1 DEF OrderInv, EdgesMeant
    <3>2. CASE d = new /\ t \in graph.dependencies[u]
      <4>1. Wants(u, t)
        BY <3>2 DEF OrderInv, EdgesMeant
      <4>2. ~(Contained(u) /\ t = Container(u))
        BY <1>1, ContainerShape
      <4> QED
        BY <1>2, <3>2, <4>1, <4>2 DEF Wants
    <3> QED
      BY <1>6, <2>1, <3>1, <3>2
  <2> QED
    BY <2>1 DEF EdgesMeant, Wants, Contained, Container, FirstTask
<1>11. RetriesFree'
  <2>1. ASSUME NEW u \in Task, u.try > 0 PROVE graph'.dependencies[u] = {}
    <3>1. graph.dependencies[u] = {}
      BY <2>1 DEF OrderInv, RetriesFree
    <3> QED
      BY <1>6, <3>1
  <2> QED
    BY <2>1 DEF RetriesFree
<1>12. FailedHandled'
  <2>1. ASSUME NEW u \in graph'.tasks, u.try = 0, Contained(u), state'[Container(u)] = "failed"
        PROVE  Container(u) \in finished_tasks'
    <3>1. u \in graph.tasks /\ u \in Task
      BY <1>0, <1>2, <1>6, <2>1
    <3>2. Container(u) \in Task /\ Container(u) # t
      BY <1>1, <2>1, <3>1, ContainerShape
    <3> QED
      BY <1>1, <1>7, <2>1, <3>1, <3>2 DEF OrderInv, FailedHandled
  <2> QED
    BY <2>1 DEF FailedHandled, Contained, Container, FirstTask
<1>13. HandleFirst'
  BY <1>1 DEF HandleFirst
<1>14. AppliedInOrder'
  BY <1>1, <1>9 DEF OrderInv, AppliedInOrder, NeedsSettled, Builds
<1>15. PendingInOrder'
  <2>1. ASSUME NEW u \in graph'.tasks, u \notin waiting_for', NEW e \in Needs, e[1] = u.op,
               error' = "none"
        PROVE  \/ \E d \in graph'.dependencies[u] : d.op = e[2]
               \/ SettledIn(e[2], Builds(u, e[2]))'
               \/ u.try = 0 /\ Contained(u) /\ state'[Container(u)] = "failed"
    <3>1. CASE u = new
      <4>1. SettledIn(e[2], Builds(t, e[2]))
        BY <1>1, <1>2, <2>1, <3>1 DEF OrderInv, AppliedInOrder, NeedsSettled
      <4> QED
        BY <1>2, <1>9, <3>1, <4>1 DEF Builds
    <3>2. CASE u # new
      <4>1. u \in Task /\ u \in graph.tasks \ waiting_for /\ u # t
        BY <1>0, <1>1, <1>6, <2>1, <3>2
      <4>2. CASE SettledIn(e[2], Builds(u, e[2]))
        BY <1>9, <4>2 DEF Builds
      <4>3. CASE u.try = 0 /\ Contained(u) /\ state[Container(u)] = "failed"
        BY <1>8, <4>1, <4>3, ContainerIsTask DEF EndsStay
      <4>4. ASSUME NEW d \in graph.dependencies[u], d.op = e[2]
            PROVE  \E x \in graph'.dependencies[u] : x.op = e[2]
        <5>1. CASE d = t
          <6>1. new \in graph'.dependencies[u]
            BY <1>2, <1>6, <4>1, <4>4, <5>1
          <6> QED
            BY <1>2, <4>4, <5>1, <6>1
        <5>2. CASE d # t
          <6>1. d \in graph'.dependencies[u]
            BY <1>0, <1>6, <4>1, <4>4, <5>2
          <6> QED
            BY <4>4, <6>1
        <5> QED
          BY <5>1, <5>2
      <4> QED
        BY <1>1, <2>1, <4>1, <4>2, <4>3, <4>4 DEF OrderInv, PendingInOrder
    <3> QED
      BY <3>1, <3>2
  <2> QED
    BY <2>1 DEF PendingInOrder, Contained, Container, FirstTask
<1> QED
  BY <1>10, <1>11, <1>12, <1>13, <1>14, <1>15 DEF OrderInv

(* A new build is ordered as the one that failed was, and what waited for  *)
(* that one waits for the new one.                                         *)
LEMMA RebuildOrder ==
    ASSUME SiblingNeeds, ConsistencyInv, ConsistencyInv', EngineInv, OrderInv,
           NEW s \in Task, HandleRebuild(s)
    PROVE  OrderInv'
<1> DEFINE O     == Inside(s.op)
           n     == s.gen + 1
           new   == FirstTask(s.op, n)
           fresh == TasksFor(O, n)
           U     == Under(s)
<1>0. /\ TypeOK /\ waiting_for \subseteq Task /\ graph.tasks \subseteq Task
      /\ graph'.tasks \subseteq Task
      /\ \A u \in Task : graph.dependencies[u] \subseteq Task /\ graph'.dependencies[u] \subseteq Task
      /\ \A u \in Task : u \notin graph.tasks => graph.dependencies[u] = {}
      /\ \A u \in Task : u \notin graph'.tasks => graph'.dependencies[u] = {}
  BY DEF ConsistencyInv, TypeOK, GraphType, Consistent, EdgesInside
<1>1. /\ s \in finished_tasks /\ s \in waiting_for /\ s \in graph.tasks /\ s \in Alive
      /\ IsSubgraph(s) /\ ~Contained(s) /\ s.gen < MaxGen
      /\ error # "crashed" /\ error' # "crashed"
      /\ error' = "none" => error = "none"
      /\ waiting_for' = waiting_for \ {s} /\ finished_tasks' = finished_tasks \ {s}
      /\ pc' = pc /\ pc = "handle"
      /\ UNCHANGED <<state, result>>
  BY DEF HandleRebuild, Popped, Rebuilds, FailOnce, EngineInv, FlightInv, InFlight, Alive
<1>2. /\ s.op \in O /\ O \in SUBSET Op /\ s.op \in Op
      /\ \A t \in fresh : /\ t \in Task /\ t.op \in O /\ t.gen = n /\ t.try = 0
                          /\ t = FirstTask(t.op, n) /\ Root(t.op) = s.op /\ Fresh(t)
      /\ Parent[s.op] = NoOp /\ Root(s.op) = s.op
      /\ n \in 0..MaxGen
      /\ \A o \in O : FirstTask(o, n) \in fresh
      /\ new.op = s.op /\ new.gen = n /\ new.try = 0 /\ new \in Task
  <2>1. /\ s.op \in O /\ O \in SUBSET Op /\ s.op \in Op
        /\ \A t \in fresh : /\ t \in Task /\ t.op \in O /\ t.gen = n /\ t.try = 0
                            /\ t = FirstTask(t.op, n) /\ Root(t.op) = s.op /\ Fresh(t)
        /\ Parent[s.op] = NoOp /\ Root(s.op) = s.op /\ n \in 0..MaxGen
    BY <1>0, <1>1, RebuiltFresh
  <2>2. \A o \in O : FirstTask(o, n) \in fresh
    BY DEF TasksFor
  <2>3. new.op = s.op /\ new.gen = n /\ new.try = 0
    BY DEF FirstTask
  <2> QED
    BY <2>1, <2>2, <2>3
<1>3. /\ s \in U
      /\ \A u \in Alive : Contained(u) /\ Container(u) \in U => u \in U
  BY <1>0, UnderShape DEF EngineInv, BooksInv, Under
<1>4. /\ graph'.tasks = (graph.tasks \ U) \cup fresh
      /\ \A o, p \in O : o # p /\ Linked(o, p) =>
            FirstTask(p, n) \in graph'.dependencies[FirstTask(o, n)]
      /\ \A t, d \in Task :
            t \notin U /\ d \notin U /\ d \in graph.dependencies[t]
            => d \in graph'.dependencies[t]
      /\ error' = "none" =>
            \A t \in Task : t \notin U /\ s \in graph.dependencies[t]
                            => new \in graph'.dependencies[t]
  BY RebuildEffect
<1>5. \A t, d \in Task : d \in graph'.dependencies[t] =>
          \/ d \in graph.dependencies[t]
          \/ d = new /\ s \in graph.dependencies[t]
          \/ \E o, p \in O : /\ t = FirstTask(o, n) /\ d = FirstTask(p, n)
                             /\ Linked(o, p)
  BY RebuildEffect
<1>7. /\ \A t \in graph'.tasks : (t \in graph.tasks /\ t \notin U) \/ t \in fresh
      /\ \A t \in fresh : t \notin Alive /\ t \notin graph.tasks /\ state[t] = "pending"
  BY <1>2, <1>4 DEF Fresh, Alive
<1>8. ASSUME NEW t \in fresh, Contained(t)
      PROVE  Container(t) \in fresh
  <2>1. t \in Task /\ t.op \in O /\ t.op \in Op /\ t.op # s.op /\ t.gen = n
    BY <1>1, <1>2, <1>8 DEF Contained
  <2>2. Parent[t.op] \in O
    BY <1>2, <2>1, RootShape
  <2> QED
    BY <1>2, <2>1, <2>2 DEF Container
<1>9. EndsStay /\ OnlyFreshJoin
  BY <1>1, <1>2, <1>7 DEF EndsStay, OnlyFreshJoin, Alive
<1>10. \A o, gens : SettledIn(o, gens) => SettledIn(o, gens)'
  BY <1>9, SettledStays
<1>11. \A u, d \in Task : u \in graph.tasks /\ u \notin U /\ d \in graph.dependencies[u] /\ d \in U
                          => d = s
  BY <1>0, WaitsOutside
<1>12. \A o \in O, p \in Op : o # s.op /\ Parent[o] = Parent[p] => p \in O
  BY <1>2, WorkflowAssumption DEF Inside
<1> HIDE DEF O, n, new, fresh, U
<1>13. EdgesMeant'
  <2>1. ASSUME NEW t \in Task, NEW d \in Task, d \in graph'.dependencies[t] PROVE Wants(t, d)
    <3>1. CASE d \in graph.dependencies[t]
      BY <3>1 DEF OrderInv, EdgesMeant
    <3>2. CASE d = new /\ s \in graph.dependencies[t]
      <4>1. Wants(t, s) /\ t \in graph.tasks /\ t \in graph'.tasks
        BY <1>0, <2>1, <3>2 DEF OrderInv, EdgesMeant
      <4>2. t \notin U /\ t \in Alive
        BY <1>7, <4>1 DEF Alive
      <4>3. ~(Contained(t) /\ s = Container(t))
        BY <1>3, <4>2
      <4>4. <<t.op, s.op>> \in Needs
        BY <4>1, <4>3 DEF Wants
      <4>5. ~Contained(t)
        BY <1>2, <4>4 DEF SiblingNeeds, Contained
      <4> QED
        BY <1>2, <3>2, <4>4, <4>5 DEF Wants
    <3>3. ASSUME NEW o \in O, NEW p \in O, t = FirstTask(o, n), d = FirstTask(p, n), Linked(o, p)
          PROVE  Wants(t, d)
      <4>1. t.op = o /\ t.gen = n /\ d.op = p /\ d.gen = n /\ p \in Op
        BY <1>2, <3>3 DEF FirstTask
      <4>2. CASE <<o, p>> \in Needs
        BY <4>1, <4>2 DEF Wants
      <4>3. CASE p = Parent[o]
        <5>1. Contained(t) /\ Container(t) = d
          BY <3>3, <4>1, <4>3, WorkflowAssumption DEF Contained, Container
        <5> QED
          BY <4>1, <5>1 DEF Wants
      <4> QED
        BY <3>3, <4>2, <4>3 DEF Linked
    <3> QED
      BY <1>5, <2>1, <3>1, <3>2, <3>3
  <2> QED
    BY <2>1 DEF EdgesMeant, Wants, Contained, Container, FirstTask
<1>14. RetriesFree'
  <2>1. ASSUME NEW t \in Task, t.try > 0 PROVE graph'.dependencies[t] = {}
    <3>1. graph.dependencies[t] = {}
      BY <2>1 DEF OrderInv, RetriesFree
    <3>2. \A o : t # FirstTask(o, n)
      BY <2>1 DEF FirstTask
    <3> QED
      BY <1>0, <1>5, <3>1, <3>2
  <2> QED
    BY <2>1 DEF RetriesFree
<1>15. FailedHandled'
  <2>1. ASSUME NEW u \in graph'.tasks, u.try = 0, Contained(u), state[Container(u)] = "failed"
        PROVE  Container(u) \in finished_tasks'
    <3>1. CASE u \in fresh
      BY <1>7, <1>8, <2>1, <3>1
    <3>2. CASE u \in graph.tasks /\ u \notin U
      <4>1. Container(u) # s
        BY <1>3, <3>2, <2>1 DEF Alive
      <4> QED
        BY <1>1, <2>1, <3>2, <4>1 DEF OrderInv, FailedHandled
    <3> QED
      BY <1>7, <2>1, <3>1, <3>2
  <2> QED
    BY <1>1, <2>1 DEF FailedHandled, Contained, Container, FirstTask
<1>16. HandleFirst'
  BY <1>1 DEF HandleFirst
<1>17. AppliedInOrder'
  BY <1>1, <1>10 DEF OrderInv, AppliedInOrder, NeedsSettled, Builds
<1>18. PendingInOrder'
  <2>1. ASSUME NEW u \in graph'.tasks, u \notin waiting_for', NEW e \in Needs, e[1] = u.op,
               error' = "none"
        PROVE  \/ \E d \in graph'.dependencies[u] : d.op = e[2]
               \/ SettledIn(e[2], Builds(u, e[2]))'
               \/ u.try = 0 /\ Contained(u) /\ state'[Container(u)] = "failed"
    <3>0. /\ e[1] \in Op /\ e[2] \in Op /\ e = <<e[1], e[2]>>
          /\ Parent[e[1]] = Parent[e[2]] /\ e[1] # e[2]
      BY WorkflowAssumption DEF SiblingNeeds
    <3>1. CASE u \in fresh /\ u.op # s.op
      <4>1. u.op \in O /\ e[2] \in O /\ u = FirstTask(u.op, n)
        BY <1>2, <1>12, <2>1, <3>0, <3>1
      <4>2. Linked(u.op, e[2]) /\ u.op # e[2]
        BY <2>1, <3>0 DEF Linked
      <4>3. FirstTask(e[2], n) \in graph'.dependencies[u]
        BY <1>4, <4>1, <4>2
      <4> QED
        BY <4>3 DEF FirstTask
    <3>2. CASE u \in fresh /\ u.op = s.op
      <4>1. SettledIn(e[2], Builds(s, e[2]))
        BY <1>1, <2>1, <3>2 DEF OrderInv, AppliedInOrder, NeedsSettled
      <4>2. Root(e[2]) = e[2] /\ Root(e[2]) # Root(s.op)
        BY <1>2, <2>1, <3>0, <3>2 DEF Root
      <4>3. Builds(s, e[2]) = Builds(u, e[2])
        BY <3>2, <4>2 DEF Builds
      <4> QED
        BY <1>10, <4>1, <4>3 DEF Builds
    <3>3. CASE u \in graph.tasks /\ u \notin U
      <4>1. u \in Task /\ u \in graph.tasks \ waiting_for /\ error = "none"
        BY <1>0, <1>1, <1>3, <2>1, <3>3
      <4>2. CASE SettledIn(e[2], Builds(u, e[2]))
        BY <1>10, <4>2 DEF Builds
      <4>3. CASE u.try = 0 /\ Contained(u) /\ state[Container(u)] = "failed"
        BY <1>1, <4>3
      <4>4. ASSUME NEW d \in graph.dependencies[u], d.op = e[2]
            PROVE  \E x \in graph'.dependencies[u] : x.op = e[2]
        <5>1. CASE d \in U
          <6>1. d = s
            BY <1>0, <1>11, <3>3, <4>1, <4>4, <5>1
          <6>2. new \in graph'.dependencies[u]
            BY <1>4, <2>1, <3>3, <4>1, <4>4, <6>1
          <6> QED
            BY <1>2, <4>4, <6>1, <6>2
        <5>2. CASE d \notin U
          <6>1. d \in graph'.dependencies[u]
            BY <1>0, <1>4, <3>3, <4>1, <4>4, <5>2
          <6> QED
            BY <4>4, <6>1
        <5> QED
          BY <5>1, <5>2
      <4> QED
        BY <2>1, <4>1, <4>2, <4>3, <4>4 DEF OrderInv, PendingInOrder
    <3> QED
      BY <1>7, <2>1, <3>1, <3>2, <3>3
  <2> QED
    BY <2>1 DEF PendingInOrder, Contained, Container, FirstTask
<1> QED
  BY <1>13, <1>14, <1>15, <1>16, <1>17, <1>18 DEF OrderInv

(* A subgraph that starts takes away edges to itself, which the author did *)
(* not make.                                                               *)
LEMMA RunOrder ==
    ASSUME SiblingNeeds, ConsistencyInv, ConsistencyInv', EngineInv, WholeInv, OrderInv,
           NEW t \in Task, Run(t)
    PROVE  OrderInv'
<1>0. /\ TypeOK /\ Consistent(graph)
      /\ waiting_for \in SUBSET Task /\ graph.tasks \subseteq Task
      /\ finished_tasks \subseteq Task /\ finished_tasks' \subseteq Task
      /\ \A u \in Task : graph.dependencies[u] \subseteq Task /\ graph'.dependencies[u] \subseteq Task
  BY DEF ConsistencyInv, TypeOK, GraphType
<1>1. /\ t \in graph.ready /\ t \in graph.tasks /\ state[t] = "pending"
      /\ waiting_for' = waiting_for \cup {t}
      /\ pc' = pc /\ pc = "run" /\ error' = error /\ error = "none"
  BY DEF Run, RunOperation, RunSubgraph, EngineInv, FlightInv, ReadyFree, ReadyIsFree, PendingFirst
<1>2. NeedsSettled(t)
  BY <1>0, <1>1, ReadyInOrder
<1>3. \A u \in waiting_for' : u \in waiting_for \/ NeedsSettled(u)
  BY <1>1, <1>2
<1>4. CASE RunOperation(t)
  <2>1. graph'.tasks = graph.tasks /\ graph'.dependencies = graph.dependencies /\ ~IsSubgraph(t)
    BY <1>0, <1>4 DEF RunOperation, Consistent, GraphType
  <2>2. \A u \in Task : u # t => state'[u] = state[u] /\ result'[u] = result[u]
    BY <1>0, <1>4, <2>1, SendEffect DEF RunOperation
  <2>3. /\ EndsStay
        /\ \A u \in Task : IsSubgraph(u) /\ state'[u] = "failed" => state[u] = "failed"
    BY <1>1, <2>1, <2>2 DEF EndsStay
  <2>4. finished_tasks' \in {finished_tasks, finished_tasks \cup {t}}
    BY <1>4 DEF RunOperation, Send, Settle
  <2>5. /\ finished_tasks \subseteq finished_tasks'
        /\ \A u \in finished_tasks' : IsSubgraph(u) /\ u \notin finished_tasks
                                      => state'[u] = "succeeded"
    BY <2>1, <2>4
  <2> QED
    BY <1>0, <1>1, <1>3, <2>1, <2>3, <2>5, KeptOrder
<1>5. CASE RunSubgraph(t)
  <2> DEFINE popped == [graph EXCEPT !.ready = @ \ {t}]
             W == waiting_for \cup {t}
             S == subtasks[t]
  <2>1. /\ popped.tasks = graph.tasks /\ popped.dependencies = graph.dependencies
        /\ Consistent(popped) /\ graph' = ReleaseFrom(popped, t, S)
    BY <1>0, <1>5, PopConsistent DEF RunSubgraph, Consistent, GraphType
  <2>2. Tight(popped, W) /\ W \in SUBSET Task
    <3>1. Tight(graph, waiting_for)
      BY <1>0, <1>1 DEF EngineInv, FlightInv, ReadyFree, AppliedFree, NoneForgotten, Tight
    <3> QED
      BY <1>0, <1>1, <3>1, PopTight
  <2>3. /\ S \subseteq graph.tasks /\ S \subseteq Task
        /\ \A u \in S : Contained(u) /\ Container(u) = t /\ u # t
        /\ S \cap W = {}
    <3>1. S \subseteq graph.tasks
      BY <1>1, <1>5 DEF RunSubgraph, EngineInv, BooksInv, AllThere
    <3>2. \A u \in S : Contained(u) /\ Container(u) = t /\ u # t
      BY <1>0, <3>1, ContainerShape DEF EngineInv, BooksInv, ListsOwn
    <3> QED
      BY <1>0, <1>1, <3>1, <3>2 DEF EngineInv, BooksInv, StartsFirst
  <2> HIDE DEF popped, W, S
  <2>4. /\ graph'.tasks = graph.tasks
        /\ \A u \in Task : ReleaseFrom(popped, t, S).dependencies[u] =
               IF u \in S THEN popped.dependencies[u] \ {t} ELSE popped.dependencies[u]
    <3>1. S \in SUBSET popped.tasks
      BY <2>1, <2>3
    <3>2. ReleaseFrom(popped, t, S).tasks = popped.tasks
      BY <2>1, <2>3, ReleaseFromConsistent
    <3>3. \A u \in Task : ReleaseFrom(popped, t, S).dependencies[u] =
               IF u \in S THEN popped.dependencies[u] \ {t} ELSE popped.dependencies[u]
      <4>1. Consistent(popped) /\ Tight(popped, W) /\ W \in SUBSET Task /\ S \cap W = {}
        BY <2>1, <2>2, <2>3
      <4> QED
        BY <3>1, <4>1, ReleaseFromTight
    <3> QED
      BY <2>1, <3>2, <3>3
  <2>5. \A u \in Task : graph'.dependencies[u] =
               IF u \in S THEN graph.dependencies[u] \ {t} ELSE graph.dependencies[u]
    BY <2>1, <2>4
  <2>6. ASSUME NEW u \in S PROVE <<u.op, t.op>> \notin Needs
    <3>1. /\ u.op \in Op /\ t.op = Parent[u.op] /\ t.op \in Subgraph /\ Parent[u.op] # NoOp
      BY <2>3, TaskFields, ContainerShape DEF Contained, IsSubgraph
    <3> QED
      BY <3>1, NestingAssumption DEF SiblingNeeds
  <2>7. \A u, d \in Task : d \in graph.dependencies[u] /\ <<u.op, d.op>> \in Needs
                           => d \in graph'.dependencies[u]
    BY <2>5, <2>6
  <2>8. \A u, d \in Task : d \in graph'.dependencies[u] => d \in graph.dependencies[u]
    BY <2>5
  <2>9. /\ \A u \in Task : u # t => state'[u] = state[u]
        /\ result' = result /\ IsSubgraph(t)
        /\ \/ state'[t] = "succeeded" /\ finished_tasks' = finished_tasks \cup {t}
           \/ state'[t] = "started" /\ finished_tasks' = finished_tasks
    BY <1>0, <1>5 DEF RunSubgraph, TypeOK
  <2>10. EndsStay
    BY <1>1, <2>9 DEF EndsStay
  <2>11. /\ \A u \in Task : IsSubgraph(u) /\ state'[u] = "failed" => state[u] = "failed"
         /\ finished_tasks \subseteq finished_tasks'
         /\ \A u \in finished_tasks' : IsSubgraph(u) /\ u \notin finished_tasks
                                       => state'[u] = "succeeded"
    BY <2>9
  <2> QED
    BY <1>0, <1>1, <1>3, <2>4, <2>7, <2>8, <2>10, <2>11, KeptOrder
<1> QED
  BY <1>4, <1>5 DEF Run

LEMMA DueOrder ==
    ASSUME ConsistencyInv, EngineInv, OrderInv, NEW t \in Task, Finish(t) \/ TimerFires(t)
    PROVE  OrderInv'
<1>0. /\ TypeOK /\ waiting_for \subseteq Task /\ graph.tasks \subseteq Task
      /\ finished_tasks \subseteq Task
      /\ \A u \in Task : graph.dependencies[u] \subseteq Task
  BY DEF ConsistencyInv, TypeOK, GraphType
<1>1. /\ ~IsSubgraph(t) /\ state[t] \in {"pending", "sent"}
      /\ UNCHANGED <<graph, waiting_for, error, pc, subtasks, failed_task>>
  BY DEF Finish, TimerFires, EngineInv, FlightInv, SentInFlight, PendingFirst
<1>2. \A u \in Task : u # t => state'[u] = state[u] /\ result'[u] = result[u]
  BY <1>0, <1>1, SendEffect DEF Finish, Settle, TimerFires, TypeOK
<1>3. /\ EndsStay
      /\ \A s \in Task : IsSubgraph(s) /\ state'[s] = "failed" => state[s] = "failed"
  BY <1>1, <1>2 DEF EndsStay
<1>4. finished_tasks' \in {finished_tasks, finished_tasks \cup {t}}
  BY DEF Finish, TimerFires, Send, Settle
<1>5. /\ finished_tasks \subseteq finished_tasks' /\ finished_tasks' \subseteq Task
      /\ \A s \in finished_tasks' : IsSubgraph(s) => s \in finished_tasks
  BY <1>0, <1>1, <1>4
<1>6. \/ pc' \in {"handle", "returned"}
      \/ pc \notin {"handle", "returned"}
  BY <1>1
<1> QED
  BY <1>0, <1>1, <1>3, <1>5, <1>6, KeptOrder

LEMMA QuietOrder ==
    ASSUME ConsistencyInv, EngineInv, OrderInv,
           Check \/ RunDone \/ HandleDone \/ Cancel \/ DeadlinePasses \/ UNCHANGED vars
    PROVE  OrderInv'
<1>0. /\ TypeOK /\ waiting_for \subseteq Task /\ graph.tasks \subseteq Task
      /\ finished_tasks \subseteq Task
      /\ \A u \in Task : graph.dependencies[u] \subseteq Task
  BY DEF ConsistencyInv, TypeOK, GraphType
<1>1. UNCHANGED <<graph, waiting_for, finished_tasks, state, result>>
  BY DEF Check, RunDone, HandleDone, Cancel, DeadlinePasses, vars
<1>2. error' = "none" => error = "none"
  BY DEF Check, RunDone, HandleDone, Cancel, DeadlinePasses, vars
<1>3. error = "crashed" => error' = "crashed"
  <2>1. error = "crashed" => pc = "returned"
    BY DEF EngineInv, FlightInv, InFlight
  <2> QED
    BY <2>1 DEF Check, RunDone, HandleDone, Cancel, DeadlinePasses, vars
<1>4. \/ pc' \in {"handle", "returned"}
      \/ pc \notin {"handle", "returned"}
      \/ finished_tasks' = {}
  BY DEF Check, RunDone, HandleDone, Cancel, DeadlinePasses, vars
<1>5. EndsStay
  BY <1>1 DEF EndsStay
<1> QED
  BY <1>0, <1>1, <1>2, <1>3, <1>4, <1>5, KeptOrder

LEMMA EndOrder ==
    ASSUME SiblingNeeds, ConsistencyInv, EngineInv, OrderInv, NEW t \in Task, HandleEnd(t)
    PROVE  OrderInv'
<1>1. /\ t \in finished_tasks /\ Ends(t) /\ pc = "handle" /\ pc' = pc /\ error' = error
      /\ TypeOK
  BY DEF HandleEnd, Popped, ConsistencyInv
<1>2. EndedWell(t) /\ Leaves(t, Under(t))
  BY <1>1, EndsWell, HandleEndLeaves
<1> DEFINE R == Under(t)
<1>3. Leaves(t, R)
  BY <1>2
<1> HIDE DEF R
<1> QED
  BY <1>1, <1>2, <1>3, LeavesOrder

(* A failure in a subgraph fails the subgraph, at once. *)
LEMMA FailOrder ==
    ASSUME SiblingNeeds, ConsistencyInv, EngineInv, WholeInv, OrderInv,
           NEW t \in Task, HandleFail(t)
    PROVE  OrderInv'
<1>1. /\ t \in finished_tasks /\ pc = "handle" /\ pc' = pc
      /\ error' = "none" => error = "none"
      /\ ~Contained(t) => error' # "none"
      /\ TellContainer(t, TRUE, {})
      /\ TypeOK
  BY DEF HandleFail, Popped, FailOnce, ConsistencyInv
<1>2. Contained(t) => state'[Container(t)] = "failed"
  <2>1. SUFFICES ASSUME Contained(t) PROVE state'[Container(t)] = "failed"
    OBVIOUS
  <2>2. t \in waiting_for /\ error # "crashed"
    BY <1>1 DEF EngineInv, FlightInv, InFlight, HandleFail, Popped
  <2>3. /\ Container(t) \in Task /\ IsSubgraph(Container(t))
        /\ t \in subtasks[Container(t)]
    BY <2>1, <2>2, ContainerShape DEF EngineInv, BooksInv, ListedAll, Alive
  <2>4. state[Container(t)] # "succeeded"
    BY <2>3 DEF WholeInv, Closed
  <2>5. state[Container(t)] \in {"pending", "started", "failed"}
    BY <2>3, <2>4 DEF EngineInv, FlightInv, SubgraphStates
  <2>6. state'[Container(t)] = IF state[Container(t)] \in TERMINATED_STATES
                               THEN state[Container(t)] ELSE "failed"
    BY <1>1, <2>1, <2>3 DEF TellContainer, TypeOK
  <2> QED
    BY <2>5, <2>6 DEF TERMINATED_STATES
<1> DEFINE R == Under(t)
<1>3. Leaves(t, R)
  BY HandleFailLeaves
<1> HIDE DEF R
<1> QED
  BY <1>1, <1>2, <1>3, LeavesOrder

LEMMA PropagateOrder ==
    ASSUME SiblingNeeds, ConsistencyInv, EngineInv, OrderInv, NEW t \in Task, HandlePropagate(t)
    PROVE  OrderInv'
<1>1. /\ Contained(t) /\ pc = "handle" /\ pc' \in {"handle", "returned"}
      /\ error' = "none" => error = "none"
  BY DEF HandlePropagate, Popped, Propagates
<1>2. \/ Leaves(t, Under(t)) /\ state'[Container(t)] = "failed"
      \/ Leaves(t, Under(t) \ {t}) /\ error' = "crashed"
  BY HandlePropagateLeaves
<1>3. CASE Leaves(t, Under(t)) /\ state'[Container(t)] = "failed"
  <2> DEFINE R == Under(t)
  <2>1. Leaves(t, R)
    BY <1>3
  <2> HIDE DEF R
  <2> QED
    BY <1>1, <1>3, <2>1, LeavesOrder
<1>4. CASE Leaves(t, Under(t) \ {t}) /\ error' = "crashed"
  <2> DEFINE R == Under(t) \ {t}
  <2>1. Leaves(t, R)
    BY <1>4
  <2> HIDE DEF R
  <2> QED
    BY <1>1, <1>4, <2>1, LeavesOrder
<1> QED
  BY <1>2, <1>3, <1>4

LEMMA AnswerAtOnceOrder ==
    ASSUME ConsistencyInv, EngineInv, WholeInv, OrderInv, NEW t \in Task, AnswerAtOnce(t)
    PROVE  OrderInv' /\ NeedsSettled(t)
<1>0. /\ TypeOK /\ Consistent(graph)
      /\ waiting_for \subseteq Task /\ graph.tasks \subseteq Task
      /\ finished_tasks \subseteq Task
      /\ \A u \in Task : graph.dependencies[u] \subseteq Task
  BY DEF ConsistencyInv, TypeOK, GraphType
<1>1. /\ t \in graph.ready /\ t \in graph.tasks /\ state[t] = "pending"
      /\ waiting_for' = waiting_for \cup {t}
      /\ graph'.tasks = graph.tasks /\ graph'.dependencies = graph.dependencies
      /\ pc' = pc /\ pc = "run" /\ error' = error /\ error = "none"
  BY <1>0 DEF AnswerAtOnce, EngineInv, FlightInv, ReadyFree, ReadyIsFree, PendingFirst,
              Consistent, GraphType
<1>2. NeedsSettled(t)
  BY <1>0, <1>1, ReadyInOrder
<1>3. /\ ~IsSubgraph(t)
      /\ \A u \in Task : u # t => state'[u] = state[u] /\ result'[u] = result[u]
      /\ finished_tasks' = finished_tasks \cup {t}
  BY <1>0, AnswerAtOnceEffect
<1>4. /\ EndsStay
      /\ \A u \in Task : IsSubgraph(u) /\ state'[u] = "failed" => state[u] = "failed"
  BY <1>1, <1>3 DEF EndsStay
<1>5. /\ finished_tasks \subseteq finished_tasks' /\ finished_tasks' \subseteq Task
      /\ \A u \in finished_tasks' : IsSubgraph(u) => u \in finished_tasks
  BY <1>0, <1>3
<1>6. \A u \in waiting_for' : u \in waiting_for \/ NeedsSettled(u)
  BY <1>1, <1>2
<1> QED
  BY <1>0, <1>1, <1>2, <1>4, <1>5, <1>6, KeptOrder

LEMMA CallBackAgainOrder ==
    ASSUME ConsistencyInv, EngineInv, OrderInv, NEW t \in Task, CallBackAgain(t)
    PROVE  OrderInv'
<1>0. /\ TypeOK /\ waiting_for \subseteq Task /\ graph.tasks \subseteq Task
      /\ finished_tasks \subseteq Task /\ pc # "returned"
      /\ \A u \in Task : graph.dependencies[u] \subseteq Task
      /\ UNCHANGED <<graph, waiting_for, finished_tasks, state, result, error, pc>>
  BY DEF ConsistencyInv, TypeOK, GraphType, CallBackAgain
<1>1. EndsStay
  BY <1>0 DEF EndsStay
<1>2. pc' \in {"handle", "returned"} \/ pc \notin {"handle", "returned"}
  BY <1>0
<1> QED
  BY <1>0, <1>1, <1>2, KeptOrder

(* A second retry depends on nothing, and what it needs came before.       *)
LEMMA HandleAgainOrder ==
    ASSUME SiblingNeeds, ConsistencyInv, EngineInv, TwiceInv, OrderInv, AgainInOrder,
           NEW t \in Task, HandleAgain(t)
    PROVE  OrderInv'
<1>0. /\ TypeOK /\ Consistent(graph) /\ waiting_for \subseteq Task /\ graph.tasks \subseteq Task
      /\ finished_tasks \subseteq Task /\ pc = "handle" /\ t \in redelivery.again
      /\ \A u \in Task : graph.dependencies[u] \subseteq Task
      /\ UNCHANGED <<waiting_for, finished_tasks, state, result>>
  BY DEF ConsistencyInv, TypeOK, GraphType, HandleAgain
<1>1. EndsStay
  BY <1>0 DEF EndsStay
<1>2. CASE /\ graph' = graph /\ error # "crashed"
           /\ (error' = "none" => error = "none")
           /\ pc' \in {"handle", "returned"}
  BY <1>0, <1>1, <1>2, KeptOrder
<1>3. CASE /\ AtTop(t) /\ t.gen < MaxGen /\ t.try < MaxTry
           /\ SecondRetry(t) \in Task /\ AtTop(SecondRetry(t))
           /\ graph' = AddTasks(graph, {SecondRetry(t)})
           /\ UNCHANGED <<error, pc>>
           /\ \A u \in Task : u.op = SecondRetry(t).op /\ u.gen = SecondRetry(t).gen
                              => Fresh(u)
  <2> DEFINE new == SecondRetry(t)
  <2>1. /\ new \in Task /\ new.op = t.op /\ new.try > 0 /\ {new} \in SUBSET Task
        /\ ~Contained(new) /\ ~Contained(t) /\ Fresh(new)
        /\ graph' = AddTasks(graph, {new})
    <3>1. SecondRetry(t).try = t.try + 1 /\ t.try \in Nat
      BY TaskFields, BoundAssumption DEF SecondRetry
    <3> QED
      BY <1>3, <3>1, SecondRetryIsTask DEF AtTop
  <2> HIDE DEF new
  <2>2. /\ graph'.tasks = graph.tasks \cup {new}
        /\ graph'.dependencies = graph.dependencies
    BY <1>0, <2>1, AddTasksConsistent
  <2>3. OnlyFreshJoin
    BY <1>0, <2>1, <2>2 DEF OnlyFreshJoin, Alive
  <2>4. \A o, gens : SettledIn(o, gens) => SettledIn(o, gens)'
    BY <1>1, <2>3, SettledStays
  <2>5. EdgesMeant' /\ RetriesFree'
    BY <2>2 DEF OrderInv, EdgesMeant, RetriesFree, Wants, Contained, Container, FirstTask
  <2>6. FailedHandled'
    BY <1>0, <1>3, <2>1, <2>2 DEF OrderInv, FailedHandled, Contained, Container, FirstTask
  <2>7. HandleFirst'
    BY <1>0, <1>3 DEF HandleFirst
  <2>8. AppliedInOrder'
    BY <1>0, <2>4 DEF OrderInv, AppliedInOrder, NeedsSettled, Builds
  <2>9. PendingInOrder'
    <3>1. ASSUME NEW u \in graph'.tasks, u \notin waiting_for', NEW e \in Needs, e[1] = u.op
          PROVE  \/ \E d \in graph'.dependencies[u] : d.op = e[2]
                 \/ SettledIn(e[2], Builds(u, e[2]))'
                 \/ error' # "none"
                 \/ u.try = 0 /\ Contained(u) /\ state'[Container(u)] = "failed"
      <4>1. CASE u = new
        <5>1. SettledIn(e[2], Builds(t, e[2]))
          BY <1>0, <2>1, <3>1, <4>1 DEF AgainInOrder, NeedsSettled
        <5>2. /\ e[2] \in Op /\ e[1] \in Op /\ e[1] # e[2] /\ Parent[e[1]] = Parent[e[2]]
              /\ Parent[e[1]] = NoOp
          BY <2>1, <3>1, <4>1, WorkflowAssumption DEF SiblingNeeds, Contained
        <5>3. Root(e[2]) = e[2] /\ Root(e[1]) = e[1]
          BY <5>2 DEF Root
        <5>4. Builds(t, e[2]) = 0..MaxGen /\ Builds(u, e[2]) = 0..MaxGen
          BY <2>1, <3>1, <4>1, <5>2, <5>3 DEF Builds
        <5> QED
          BY <2>4, <5>1, <5>4 DEF Builds
      <4>2. CASE u # new
        <5>1. u \in graph.tasks \ waiting_for
          BY <1>0, <2>2, <3>1, <4>2
        <5>2. \/ \E d \in graph.dependencies[u] : d.op = e[2]
              \/ SettledIn(e[2], Builds(u, e[2]))
              \/ error # "none"
              \/ u.try = 0 /\ Contained(u) /\ state[Container(u)] = "failed"
          BY <3>1, <5>1 DEF OrderInv, PendingInOrder
        <5> QED
          BY <1>0, <1>3, <2>2, <2>4, <5>2 DEF Builds
      <4> QED
        BY <4>1, <4>2
    <3> QED
      BY <3>1 DEF PendingInOrder, Contained, Container, FirstTask
  <2> QED
    BY <2>5, <2>6, <2>7, <2>8, <2>9 DEF OrderInv
<1>4. error # "crashed" /\ pc = "handle"
  BY <1>0, HandleAgainEffect
<1> QED
  BY <1>2, <1>3, <1>4, HandleAgainEffect

LEMMA NextAgain ==
    ASSUME ConsistencyInv, EngineInv, TwiceInv, WholeInv, OrderInv, AgainInOrder, [Next]_vars
    PROVE  AgainInOrder'
<1>0. redelivery \in [due : SUBSET Task, again : SUBSET Task, handled : SUBSET Task]
  BY DEF ConsistencyInv, TypeOK
<1>1. ASSUME EndsStay, OnlyFreshJoin, NEW u, NeedsSettled(u) PROVE NeedsSettled(u)'
  BY <1>1, SettledStays DEF NeedsSettled, Builds
<1>2. CASE GoesOn
  BY <1>1, <1>2 DEF GoesOn, OperationsGoOn, AgainInOrder
<1>3. ASSUME NEW t \in Task, AnswerAtOnce(t) PROVE AgainInOrder'
  <2>1. NeedsSettled(t) /\ EndsStay /\ OnlyFreshJoin
    BY <1>3, AnswerAtOnceOrder, GoOnAtOnce DEF OperationsGoOn
  <2>2. redelivery'.due \cup redelivery'.again = (redelivery.due \cup redelivery.again) \cup {t}
    BY <1>0, <1>3 DEF AnswerAtOnce
  <2> QED
    BY <1>1, <2>1, <2>2 DEF AgainInOrder
<1>4. ASSUME NEW t \in Task, CallBackAgain(t) PROVE AgainInOrder'
  <2>1. EndsStay /\ OnlyFreshJoin
    BY <1>4, GoOnQuiet DEF CallBackAgain, OperationsGoOn
  <2>2. redelivery'.due \cup redelivery'.again \subseteq redelivery.due \cup redelivery.again
    BY <1>0, <1>4 DEF CallBackAgain
  <2> QED
    BY <1>1, <2>1, <2>2 DEF AgainInOrder
<1>5. ASSUME NEW t \in Task, HandleAgain(t) PROVE AgainInOrder'
  <2>0. TypeOK /\ Consistent(graph) /\ UNCHANGED <<waiting_for, state, result>>
    BY <1>5 DEF ConsistencyInv, HandleAgain
  <2>1. EndsStay
    BY <2>0 DEF EndsStay
  <2>2. OnlyFreshJoin
    <3>1. CASE graph' = graph
      BY <2>0, <3>1 DEF OnlyFreshJoin, Alive
    <3>2. CASE /\ SecondRetry(t) \in Task /\ graph' = AddTasks(graph, {SecondRetry(t)})
               /\ Fresh(SecondRetry(t))
      <4>1. {SecondRetry(t)} \in SUBSET Task
        BY <3>2
      <4>2. graph'.tasks = graph.tasks \cup {SecondRetry(t)}
        BY <2>0, <3>2, <4>1, AddTasksConsistent
      <4> QED
        BY <2>0, <3>2, <4>2 DEF OnlyFreshJoin, Alive
    <3> QED
      BY <1>5, <3>1, <3>2, HandleAgainEffect
  <2>3. redelivery'.due \cup redelivery'.again \subseteq redelivery.due \cup redelivery.again
    BY <1>0, <1>5 DEF HandleAgain
  <2> QED
    BY <1>1, <2>1, <2>2, <2>3 DEF AgainInOrder
<1> QED
  BY <1>2, <1>3, <1>4, <1>5, StepGoesOn

LEMMA NextOrder ==
    /\ SiblingNeeds /\ ConsistencyInv /\ EngineInv /\ TwiceInv /\ WholeInv /\ OrderInv
    /\ AgainInOrder /\ [Next]_vars
    => OrderInv'
<1> SUFFICES ASSUME SiblingNeeds, ConsistencyInv, EngineInv, TwiceInv, WholeInv, OrderInv,
                    AgainInOrder, [Next]_vars
             PROVE  OrderInv'
  OBVIOUS
<1>a. ConsistencyInv'
  BY NextConsistency
<1>1. ASSUME NEW t \in Task, Handle(t) PROVE OrderInv'
  BY <1>a, <1>1, EndOrder, FailOrder, PropagateOrder, RetryOrder, RebuildOrder DEF Handle
<1>2. ASSUME NEW t \in Task, Run(t) PROVE OrderInv'
  BY <1>a, <1>2, RunOrder
<1>3. ASSUME NEW t \in Task, Finish(t) \/ TimerFires(t) PROVE OrderInv'
  BY <1>3, DueOrder
<1>4. ASSUME NEW t \in Task, AnswerAtOnce(t) \/ CallBackAgain(t) \/ HandleAgain(t)
      PROVE  OrderInv'
  BY <1>4, AnswerAtOnceOrder, CallBackAgainOrder, HandleAgainOrder
<1>5. /\ graph.ready \cup finished_tasks \cup waiting_for \cup timers \subseteq Task
      /\ redelivery.due \cup redelivery.again \subseteq Task
  BY DEF TypeOK, GraphType, ConsistencyInv
<1> QED
  BY <1>1, <1>2, <1>3, <1>4, <1>5, QuietOrder DEF Next, MainLoop, Due

(* Where every dependency is between operations of one subgraph, or of the *)
(* top level, nothing is applied before all it depends on has come to a    *)
(* good end, nor a first attempt outside the time its subgraph runs.       *)
THEOREM SiblingsStartInOrder == SiblingNeeds => (Spec => StartsInOrder)
<1> SUFFICES ASSUME SiblingNeeds PROVE Spec => StartsInOrder
  OBVIOUS
<1> DEFINE Inv   == /\ ConsistencyInv /\ EngineInv /\ TwiceInv /\ WholeInv /\ OrderInv
                    /\ AgainInOrder
           Order == \A t \in Task : Applied(t) =>
                      /\ \A e \in Needs : e[1] = t.op => SettledIn(e[2], Builds(t, e[2]))
                      /\ Contained(t) /\ t.try = 0 => state[Container(t)] = "started"
<1>1. Init => Inv
  BY InitConsistency, InitEngine, InitTwice, InitWhole, InitOrder DEF AgainInOrder, Init
<1>2. Inv /\ [Next]_vars => Inv'
  BY NextConsistency, NextEngine, NextTwice, NextWhole, NextOrder, NextAgain
<1>3. Inv /\ [Next]_vars => [Order]_vars
  <2> SUFFICES ASSUME Inv, [Next]_vars, NEW t \in Task, Applied(t)
               PROVE  /\ NeedsSettled(t)
                      /\ Contained(t) /\ t.try = 0 => state[Container(t)] = "started"
    BY DEF NeedsSettled
  <2>1. TypeOK /\ waiting_for \subseteq Task /\ finished_tasks \subseteq Task
    BY DEF ConsistencyInv, TypeOK
  <2>2. \E u \in graph.ready : Run(u) \/ AnswerAtOnce(u)
    BY DEF Applied, Next, MainLoop, Due, Handle, HandleEnd, HandleFail, HandleRetry,
           HandleRebuild, HandlePropagate, Popped, Check, RunDone, HandleDone, Finish,
           TimerFires, Cancel, DeadlinePasses, CallBackAgain, HandleAgain, vars
  <2>3. PICK u \in graph.ready : Run(u) \/ AnswerAtOnce(u)
    BY <2>2
  <2>4. waiting_for' = waiting_for \cup {u} /\ pc = "run" /\ error = "none"
    BY <2>3 DEF Run, RunOperation, RunSubgraph, AnswerAtOnce
  <2>5. t = u
    BY <2>4 DEF Applied
  <2> QED
    BY <2>1, <2>3, <2>4, <2>5, ReadyInOrder
<1> HIDE DEF Inv
<1> QED
  BY <1>1, <1>2, <1>3, PTL DEF Spec, StartsInOrder
=============================================================================
