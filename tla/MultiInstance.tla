---------------------------- MODULE MultiInstance ----------------------------
(***************************************************************************)
(* dsl_parser.multi_instance and rel_graph: the node instances of a        *)
(* deployment, how they are made of its plan and what a modification -     *)
(* here by the scale workflow - adds, removes, extends and reduces.        *)
(*                                                                         *)
(* A group is an element of the plan like a node: it is contained in what  *)
(* its members are contained in, and they are contained in it. Only node   *)
(* instances are stored; the group instances are put together again from   *)
(* the scaling_groups of each. A modification is worked out on a new graph *)
(* beside the previous one, a container at a time, and what is returned is *)
(* the difference, which the manager applies when the workflow finishes.   *)
(***************************************************************************)
EXTENDS Integers, Sequences, FiniteSets, Functions, FiniteSetsExt, SequencesExt,
        Removal

CONSTANTS Nodes, Groups,
          ContainedIn,           \* Nodes -> the target of contained_in, Nothing
          Members,               \* Groups -> what is in the group
          Hosts,                 \* the nodes that are hosts
          AllToAll, AllToOne,    \* connections: <<source, target>>
          Defaults,              \* of Nodes and Groups -> default_instances
          Together,              \* what may be modified at once
          Nothing,
          MaxInstances, MaxModifications, MaxHints       \* bounds

Elements == Nodes \cup Groups

-----------------------------------------------------------------------------
\* build_node_graph: what each element is contained in.
GroupsOf(e) == {g \in Groups : e \in Members[g]}

OuterGroup[e \in Elements] ==
    IF GroupsOf(e) = {} THEN e
    ELSE OuterGroup[CHOOSE g \in GroupsOf(e) : TRUE]

Container == [e \in Elements |->
    IF GroupsOf(e) # {} THEN CHOOSE g \in GroupsOf(e) : TRUE
    ELSE IF e \in Nodes THEN ContainedIn[e]
    ELSE LET targets == {ContainedIn[n] : n \in {m \in Nodes : OuterGroup[m] = e}}
         IN  IF targets \subseteq {Nothing} THEN Nothing
             ELSE CHOOSE t \in targets : t # Nothing]

Containers[e \in Elements] ==
    IF Container[e] = Nothing THEN <<>>
    ELSE <<Container[e]>> \o Containers[Container[e]]

\* minimal_containing_group: the innermost group that both are in.
MinimalContainingGroup(a, b) ==
    LET shared == SelectSeq(Containers[a], LAMBDA e :
                      e \in Groups /\ e \in ToSet(Containers[b]))
    IN  IF shared = <<>> THEN Nothing ELSE Head(shared)

ASSUME PlanAssumption ==
    /\ Nothing \notin Elements \cup [of : Elements, id : Nat]
    /\ Nodes \cap Groups = {}
    /\ ContainedIn \in [Nodes -> Nodes \cup {Nothing}]
    /\ Members \in [Groups -> SUBSET Elements]
    /\ \A e \in Elements : Cardinality(GroupsOf(e)) <= 1
    \* Nothing is contained in itself, at any distance.
    /\ \A S \in SUBSET Elements : S # {} => \E e \in S : Container[e] \notin S
    /\ Hosts \subseteq Nodes
    /\ AllToAll \cup AllToOne \subseteq Nodes \X Nodes
    /\ AllToAll \cap AllToOne = {}
    /\ \A c \in AllToAll \cup AllToOne : c[1] # c[2] /\ ContainedIn[c[1]] # c[2]
    \* UnsupportedAllToOneInGroup is raised when the deployment is created.
    /\ \A c \in AllToOne : MinimalContainingGroup(c[1], c[2]) = Nothing
    /\ Defaults \subseteq [Elements -> Nat]
    /\ Together \subseteq SUBSET Elements
    /\ {MaxInstances, MaxModifications, MaxHints} \subseteq Nat

VARIABLES instances,      \* the node instances stored, see Stored
          connections,    \* their connections: <<source, target>>
          current,        \* Elements -> current_instances, in each container
          stage,          \* idle, containing, returning
          modified,       \* modified_nodes: the totals asked for
          include, exclude,    \* the hints
          previous,       \* the previous deployment graph
          tree,           \* the new one: what is in what, and its host
          treated,        \* <<e, p>>: the instances of e in p were built
          edges,          \* its connections
          modifications,  \* counted for the bound
          revived         \* removed instances that a connection brought back

deploymentVars == <<instances, connections, current, stage, modified, include,
                    exclude, previous, tree, treated, edges, modifications, revived>>

\* An instance is named after its node or group.
Instance(e, id) == [of |-> e, id |-> id]

NoDeployment == [up |-> <<>>, host |-> <<>>, edges |-> {}]

DeploymentInit ==
    /\ instances = <<>>
    /\ connections = {}
    /\ current \in Defaults
    /\ stage = "containing"          \* create_deployment_plan
    /\ modified = <<>>
    /\ include = {} /\ exclude = {}
    /\ previous = NoDeployment
    /\ tree = <<>> /\ treated = {} /\ edges = {}
    /\ modifications = 0
    /\ revived = {}

-----------------------------------------------------------------------------
\* build_previous_deployment_node_graph.
Enclosure(i) == <<i>> \o instances[i].scaling_groups \o
    (IF instances[i].contained_in = Nothing THEN <<>>
     ELSE <<instances[i].contained_in>>)

StoredGroups == UNION {ToSet(instances[i].scaling_groups) : i \in DOMAIN instances}

MembersOf(g) == {i \in DOMAIN instances : g \in ToSet(instances[i].scaling_groups)}

\* What j is contained in, as the instances in it have it.
PreviousUp(j) ==
    LET inside == IF j.of \in Groups THEN MembersOf(j) ELSE {j}
        next == {Enclosure(i)[SelectInSeq(Enclosure(i), LAMBDA x : x = j) + 1] :
                    i \in {k \in inside : Last(Enclosure(k)) # j}}
    IN  IF next = {} THEN Nothing ELSE CHOOSE x \in next : TRUE

\* A group instance has the host of whichever of its members comes last.
GroupHosts == [g \in StoredGroups |->
    {instances[i].host_id : i \in {k \in DOMAIN instances :
                                      g \in ToSet(instances[k].scaling_groups)}}]

PreviousGraph(groupHost) ==
    [up    |-> [j \in DOMAIN instances \cup StoredGroups |-> PreviousUp(j)],
     host  |-> [j \in DOMAIN instances \cup StoredGroups |->
                   IF j \in StoredGroups THEN groupHost[j]
                                         ELSE instances[j].host_id],
     edges |-> connections]

-----------------------------------------------------------------------------
\* scale_entity up to start_modification, with the checks of its hints.
InstancesOf(e) == {i \in DOMAIN instances \cup StoredGroups : i.of = e}

Available(e) == IF e \in Groups
                THEN StoredGroups \cup UNION {MembersOf(g) : g \in StoredGroups}
                ELSE InstancesOf(e)

ExcludedGroups(out) ==
    {g \in StoredGroups : g \in out \/ MembersOf(g) \cap out # {}}

\* _check_for_too_many_exclusions, with every group instance counted.
TooManyExcluded(e, delta, out) ==
    IF e \in Groups /\ StoredGroups # {}
    THEN Cardinality(StoredGroups) + delta < Cardinality(ExcludedGroups(out))
    ELSE Cardinality(Available(e)) + delta < Cardinality(out)

\* build_previous_deployment_node_graph: the modification is on its way.
StartModification(totals) ==
    /\ stage = "idle"
    /\ modifications < MaxModifications
    /\ modified' = totals
    /\ \E groupHost \in [StoredGroups -> UNION Range(GroupHosts)] :
          /\ \A g \in StoredGroups : groupHost[g] \in GroupHosts[g]
          /\ previous' = PreviousGraph(groupHost)
    /\ stage' = "containing"
    /\ tree' = <<>> /\ treated' = {} /\ edges' = {}
    /\ modifications' = modifications + 1
    /\ UNCHANGED <<instances, connections, current, revived>>

ScaleEntity(e, delta) ==
    /\ delta # 0
    /\ current[e] + delta \in 0 .. MaxInstances
    /\ StartModification([x \in {e} |-> current[e] + delta])
    /\ \E in, out \in UNION {kSubset(k, Available(e)) : k \in 0 .. MaxHints} :
          /\ in \cup out # {} =>
                /\ delta < 0
                /\ in \cap out = {}
                /\ ~TooManyExcluded(e, delta, out)
          /\ include' = in /\ exclude' = out

\* Other workflows may ask for several totals at once.
ModifyTogether(totals) ==
    /\ StartModification(totals)
    /\ include' = {} /\ exclude' = {}

-----------------------------------------------------------------------------
\* _handle_contained_in: the containers whose instances of an element are next.
Untreated == {ep \in Elements \X (DOMAIN tree \cup {Nothing}) :
                  /\ ep \notin treated
                  /\ IF Container[ep[1]] = Nothing THEN ep[2] = Nothing
                     ELSE ep[2] # Nothing /\ ep[2].of = Container[ep[1]]}

\* Mutant: only the instances themselves are looked for among the hints.
HintedDirectly(hints, candidates) == hints \cap candidates

\* _get_hints: a hint names an instance, or a member of a group instance.
Hinted(hints, candidates) ==
    {i \in candidates : i \in hints \/ MembersOf(i) \cap hints # {}}

\* _node_instance_id: any that is not in use, here the least. Only the choice of
\* a target for all_to_one looks at the order of ids, see TargetsFor.
NewInstances(e, n) ==
    LET used == {i.id : i \in {j \in DOMAIN tree \cup DOMAIN previous.up : j.of = e}}
        free == (1 .. n + Cardinality(used)) \ used
    IN  {Instance(e, k) : k \in {x \in free :
                                     Cardinality({y \in free : y < x}) < n}}

\* _handle_host_instance_id: of the container, or the instance itself.
HostOf(i, p) ==
    IF p # Nothing /\ tree[p].host_id # Nothing THEN tree[p].host_id
    ELSE IF i.of \in Hosts THEN i ELSE Nothing

\* Mutant: the instances in any container are taken for those in this one.
PreviousInstancesAnywhere(e, p) == {i \in DOMAIN previous.up : i.of = e}

PreviousInstances(e, p) ==
    {i \in DOMAIN previous.up : i.of = e /\ p \in {Nothing, previous.up[i]}}

\* _build_and_update_node_instances.
BuildNodeInstances ==
    /\ stage = "containing" /\ Untreated # {}
    /\ LET ep     == CHOOSE x \in Untreated : TRUE
           e      == ep[1]
           p      == ep[2]
           before == PreviousInstances(e, p)
           total  == IF e \in DOMAIN modified THEN modified[e] ELSE current[e]
           more   == total - Cardinality(before)
           new    == NewInstances(e, IF more > 0 THEN more ELSE 0)
       IN  /\ \E removed \in IF e \in DOMAIN modified /\ more < 0
                             THEN Removals(before, Hinted(include, before),
                                           Hinted(exclude, before), -more)
                             ELSE {{}} :
                 tree' = [i \in DOMAIN tree \cup (before \ removed) \cup new |->
                             IF i \in DOMAIN tree THEN tree[i]
                             ELSE [up |-> p,
                                   host_id |-> IF i \in before THEN previous.host[i]
                                               ELSE HostOf(i, p)]]
           /\ treated' = treated \cup {ep}
    /\ UNCHANGED <<instances, connections, current, stage, modified, include,
                   exclude, previous, edges, modifications, revived>>

-----------------------------------------------------------------------------
Ups == [i \in DOMAIN tree |-> tree[i].up]

\* What an instance is in, the innermost first.
Chain(up) ==
    LET chain[i \in DOMAIN up] ==
            IF up[i] \notin DOMAIN up THEN <<>> ELSE <<up[i]>> \o chain[up[i]]
    IN  chain

Built(e) == {i \in DOMAIN tree : i.of = e}

\* containing_group_id
InGroup(i, g) == CHOOSE j \in ToSet(Chain(Ups)[i]) : j.of = g

\* Mutant: instances are connected across groups.
PartitionAcross(s, t, targets) == Built(s) \X targets

\* _partition_source_and_target_instances, where there is a group to share.
Partition(s, t, targets) ==
    LET g == MinimalContainingGroup(s, t)
    IN  {c \in Built(s) \X targets :
            g # Nothing => InGroup(c[1], g) = InGroup(c[2], g)}

\* Mutant: the least id of those there are now.
TargetsAnew(s, t) == Built(t)

\* _get_all_to_one_relationship_target_id: the one there was, whether or not it
\* is still in the graph, or the least of the ids, which are random.
TargetsFor(s, t) ==
    LET before == {c[2] : c \in {d \in previous.edges :
                                    d[1].of = s /\ d[2].of = t}}
    IN  IF before # {} THEN before ELSE Built(t)

\* _handle_connected_to_and_depends_on
Connect ==
    /\ stage = "containing" /\ Untreated = {}
    /\ \E one \in [AllToOne -> UNION {TargetsFor(c[1], c[2]) : c \in AllToOne}
                                 \cup {Nothing}] :
         /\ \A c \in AllToOne :
               IF Built(c[1]) = {} \/ Built(c[2]) = {} THEN one[c] = Nothing
               ELSE one[c] \in TargetsFor(c[1], c[2])
         /\ edges' = UNION ({Partition(c[1], c[2], Built(c[2])) : c \in AllToAll}
                            \cup {Partition(c[1], c[2], {one[c]} \ {Nothing}) :
                                      c \in AllToOne})
    /\ stage' = "returning"
    /\ UNCHANGED <<instances, connections, current, modified, include, exclude,
                   previous, tree, treated, modifications, revived>>

-----------------------------------------------------------------------------
\* An instance as extract_node_instances has it.
Stored(i) ==
    LET chain == Chain(Ups)[i]
        node  == SelectInSeq(chain, LAMBDA j : j.of \in Nodes)
    IN  [contained_in   |-> IF node = 0 THEN Nothing ELSE chain[node],
         scaling_groups |-> IF node = 0 THEN chain ELSE SubSeq(chain, 1, node - 1),
         host_id        |-> tree[i].host_id]

\* The nodes of the new graph: add_edge brings in the target of a connection.
NewGraphNodes == DOMAIN tree \cup {c[2] : c \in edges}

\* extract_added_ and extract_removed_node_instances, and what a connection
\* alone has brought back.
Added == {i \in NewGraphNodes \ DOMAIN previous.up : i.of \in Nodes}
Removed == DOMAIN previous.up \ NewGraphNodes
Revived == NewGraphNodes \ DOMAIN tree

\* Mutant: only what is added comes with connections.
ExtendedNone == {}

\* extract_added_ and extract_removed_relationships.
Extended == {c \in edges \ previous.edges : c[1] \notin Added}

Reduced == {c \in previous.edges \ edges : c[1] \in NewGraphNodes}

\* The attributes of an instance that was brought back are not known.
KeyError == \E c \in edges : c[1] \in Added /\ c[2] \in Revived

\* modify_deployment returns, and the manager applies the difference.
Return ==
    /\ stage = "returning"
    /\ ~KeyError
    /\ instances' =
          [i \in (DOMAIN instances \ Removed) \cup Added |->
              IF i \in Added THEN Stored(i)
              ELSE IF i \in Revived
              THEN [instances[i] EXCEPT !.contained_in = Nothing]
              ELSE instances[i]]
    /\ connections' = {c \in (connections \ Reduced) \cup Extended :
                          c[1] \notin Removed}
                      \cup {c \in edges : c[1] \in Added}
    /\ current' = [e \in Elements |->
                      IF e \in DOMAIN modified THEN modified[e] ELSE current[e]]
    /\ revived' = revived \cup Revived
    /\ stage' = "idle"
    /\ modified' = <<>> /\ include' = {} /\ exclude' = {}
    /\ previous' = NoDeployment /\ tree' = <<>> /\ treated' = {} /\ edges' = {}
    /\ UNCHANGED modifications

\* It raises, and the modification is not started.
Raise ==
    /\ stage = "returning"
    /\ KeyError
    /\ stage' = "idle"
    /\ modified' = <<>> /\ include' = {} /\ exclude' = {}
    /\ previous' = NoDeployment /\ tree' = <<>> /\ treated' = {} /\ edges' = {}
    /\ UNCHANGED <<instances, connections, current, modifications, revived>>

DeploymentNext ==
    \/ \E e \in Elements, delta \in -MaxInstances .. MaxInstances : ScaleEntity(e, delta)
    \/ \E S \in Together : \E totals \in [S -> 0 .. MaxInstances] : ModifyTogether(totals)
    \/ BuildNodeInstances
    \/ Connect
    \/ Return
    \/ Raise

DeploymentSpec == DeploymentInit /\ [][DeploymentNext]_deploymentVars

-----------------------------------------------------------------------------
\* What an instance that was brought back was counted for is left out below:
\* see RemovedAreNotIncluded.
GroupsAround(e) ==
    {Containers[e][k] : k \in {m \in DOMAIN Containers[e] :
                                   ToSet(SubSeq(Containers[e], 1, m)) \subseteq Groups}}

Unaffected(e) ==
    \A i \in revived :
        ({e} \cup ToSet(Containers[e])) \cap ({i.of} \cup GroupsAround(i.of)) = {}

InContainer(e, p) == {i \in InstancesOf(e) : p \in {Nothing, PreviousUp(i)}}

(***************************************************************************)
(* The numbers are kept, of any sequence of modifications: each instance   *)
(* of a container has as many instances of a node as its current_instances *)
(* say, and the deployment as many as its containers multiply them to.     *)
(***************************************************************************)
CountsKept ==
    stage = "idle" => \A n \in {m \in Nodes : Unaffected(m)} :
        /\ Cardinality(InstancesOf(n)) =
               FoldSeq(LAMBDA e, k : current[e] * k, 1, <<n>> \o Containers[n])
        /\ Container[n] # Nothing =>
               \A p \in InstancesOf(Container[n]) :
                   Cardinality(InContainer(n, p)) = current[n]

(***************************************************************************)
(* The connections are as the plan has them, however the deployment came   *)
(* about: all_to_all within the innermost group of both nodes, and nowhere *)
(* else, and all_to_one from every source to one instance that exists.     *)
(***************************************************************************)
GroupInstances(i) ==
    LET around[j \in DOMAIN instances] ==
            ToSet(instances[j].scaling_groups) \cup
            (IF instances[j].contained_in \notin DOMAIN instances THEN {}
             ELSE around[instances[j].contained_in])
    IN  around[i]

ConnectedAsPlanned ==
    stage = "idle" => \A c \in {d \in AllToAll \cup AllToOne :
                          Unaffected(d[1]) /\ Unaffected(d[2])} :
        LET between == {d \in connections : d[1].of = c[1] /\ d[2].of = c[2]}
            g == MinimalContainingGroup(c[1], c[2])
        IN  IF c \in AllToAll
            THEN between = {d \in InstancesOf(c[1]) \X InstancesOf(c[2]) :
                       g # Nothing => \E j \in GroupInstances(d[1]) :
                                          j.of = g /\ j \in GroupInstances(d[2])}
            ELSE \/ {} \in {InstancesOf(c[1]), InstancesOf(c[2])} /\ between = {}
                 \/ \E j \in InstancesOf(c[2]) :
                        between = InstancesOf(c[1]) \X {j}

(***************************************************************************)
(* The four lists that are returned make of the previous deployment just   *)
(* the one that was worked out: its instances, what each is contained in,  *)
(* its groups and its connections.                                         *)
(***************************************************************************)
DifferenceIsComplete ==
    [][Return => /\ DOMAIN instances' \ Revived = {i \in DOMAIN tree : i.of \in Nodes}
                 /\ \A i \in DOMAIN instances' \ revived' : instances'[i] = Stored(i)
                 /\ connections' = edges]_deploymentVars

(***************************************************************************)
(* A modification changes nothing else. An instance only comes as it or    *)
(* what contains it was asked to grow, and only goes as it or what         *)
(* contains it was asked to shrink; and of two instances that both stay,   *)
(* the one that was connected to the other still is, all_to_one included,  *)
(* however many other targets come.                                        *)
(***************************************************************************)
Asked(i, Changes(_)) ==
    \E e \in {i.of} \cup ToSet(Containers[i.of]) : e \in DOMAIN modified /\ Changes(e)

OnlyWhatWasAsked ==
    [][(Return /\ modified # <<>>) =>
          /\ \A i \in Added : Unaffected(i.of) =>
                Asked(i, LAMBDA e : modified[e] > current[e])
          /\ \A i \in Removed \cap DOMAIN instances : Unaffected(i.of) =>
                Asked(i, LAMBDA e : modified[e] < current[e])
          /\ \A c \in connections :
                {c[1], c[2]} \subseteq DOMAIN instances' \ revived'
                    => c \in connections']_deploymentVars

(***************************************************************************)
(* The hints: in each container the included instances go first, and an    *)
(* excluded one goes only where everything else does. A group instance is  *)
(* meant by itself or by a member.                                         *)
(***************************************************************************)
Meant(hints, S) == {i \in S : \E h \in hints :
    h = i \/ (h \in DOMAIN instances /\ i \in ToSet(instances[h].scaling_groups))}

HintsHonoured ==
    [][Return => \A e \in DOMAIN modified :
         \A p \in IF Container[e] = Nothing THEN {Nothing}
                  ELSE {q \in DOMAIN previous.up : q.of = Container[e]} :
             LET before == InContainer(e, p)
                 gone   == before \ DOMAIN tree
                 first  == Meant(include, before)
                 last   == Meant(exclude, before) \ first
             IN  /\ first \subseteq gone \/ gone \subseteq first
                 /\ gone \cap last = {} \/ before \ last \subseteq gone]_deploymentVars

(***************************************************************************)
(* "removed nodes are removed from the 'previous_node_instance_ids' list   *)
(* which means they will not be included in the resulting graph".          *)
(***************************************************************************)
RemovedAreNotIncluded ==
    stage = "returning" => NewGraphNodes \subseteq DOMAIN tree

=============================================================================
