------------------------- MODULE RuntimeProperties -------------------------
(***************************************************************************)
(* The runtime properties of node instances: the copy that an operation's  *)
(* context fetches, edits and stores (context.NodeInstanceContext,         *)
(* manager.NodeInstance), the update of it that dispatch adds when the     *)
(* operation ends, and the two storages behind it: the manager, asked over *)
(* a cluster of hosts, and local._Storage.                                 *)
(*                                                                         *)
(* A version is the only protection: the storage takes an update made from *)
(* the version it has. NodeInstances are independent (one lock, one row    *)
(* each), so a storage handles one request in one step.                    *)
(***************************************************************************)
EXTENDS Naturals, Sequences

CONSTANTS Operations,        \* invocations of operations
          Instances,         \* node instances
          Contexts,          \* Operations -> its instances, in finally's order
          Keys, Values,      \* of runtime properties
          Functions,         \* the values that are intrinsic functions
          Writes,            \* Operations -> keys and what it sets them to
          States,            \* of node instances
          Endpoints,         \* subset of {"local", "manager"}
          Absent, NotRead, NoCall,
          MaxEdits,          \* changes of properties
          MaxOutside         \* lost responses, changes of state, operations run again

Properties == [Keys -> Values \cup {Absent}]

\* manager.NodeInstance, and in base the properties as they were fetched.
Copies == [version : Nat, state : States, base : Properties,
           properties : Properties, dirty : BOOLEAN]
\* A request to store a copy: whether update has an on_conflict handler, the
\* properties it calls it with (mine) and those they were made from (read).
Calls == [instance : Instances, merge : BOOLEAN,
          read : Properties, mine : Properties]

ASSUME ContextsAssumption ==
    /\ Contexts \in [Operations -> Seq(Instances)]
    /\ \A o \in Operations : \A m, n \in DOMAIN Contexts[o] :
          Contexts[o][m] = Contexts[o][n] => m = n
ASSUME ValuesAssumption ==
    /\ Absent \notin Values
    /\ Functions \subseteq Values
    /\ Functions # {} => Values \ Functions # {}
    /\ NotRead \notin Copies
    /\ NotRead \notin [read : Properties, edited : Properties]
    /\ NoCall \notin Calls
ASSUME BoundsAssumption ==
    /\ MaxEdits \in Nat /\ MaxOutside \in Nat
    /\ Endpoints \subseteq {"local", "manager"}
    /\ Writes \in [Operations -> SUBSET (Keys \X (Values \cup {Absent}))]
    /\ "uninitialized" \in States

VARIABLES stored,     \* Instances -> what the storage has
          cached,     \* Operations -> Instances -> NotRead or a copy
          call,       \* Operations -> NoCall or the request it waits for
          phase,      \* Operations -> "body", "ending", "done", "failed"
          position,   \* Operations -> the update of finally it has come to
          raised,     \* Operations -> an exception is on its way
          endpoint,   \* which storage this is
          edits, outside                        \* counted for the bounds

counters == <<edits, outside>>
vars == <<stored, cached, call, phase, position, raised, endpoint, counters>>

InContext(o) == {Contexts[o][n] : n \in DOMAIN Contexts[o]}

\* What an operation is given for a stored value. The manager evaluates the
\* intrinsic functions in what it is asked for, and what one comes to depends
\* on all that it refers to; local storage hands them out as they are.
Given(v) == IF v \in Functions /\ endpoint = "manager" THEN Values \ Functions
                                                      ELSE {v}
Evaluated(i) ==
    {p \in Properties : \A k \in Keys : p[k] \in Given(stored[i].properties[k])}

\* get_node_instance, for which the functions came to what p has.
Fetched(i, p) == [version |-> stored[i].version, state |-> stored[i].state,
                  base |-> p, properties |-> p, dirty |-> FALSE]

Init == /\ stored \in [Instances -> [version : {1}, state : {"uninitialized"},
                                     properties : {[k \in Keys |-> Absent]}]]
        /\ cached = [o \in Operations |-> [i \in Instances |-> NotRead]]
        /\ call = [o \in Operations |-> NoCall]
        /\ phase = [o \in Operations |-> "body"]
        /\ position = [o \in Operations |-> 1]
        /\ raised = [o \in Operations |-> FALSE]
        /\ endpoint \in Endpoints
        /\ edits = 0
        /\ outside = 0

-----------------------------------------------------------------------------
\* The body of an operation, which waits for one request at a time.
InBody(o) == phase[o] = "body" /\ call[o] = NoCall
Unmoved == UNCHANGED <<stored, phase, position, raised, endpoint, outside>>

\* _get_node_instance_if_needed. A body that reads first and edits later is one
\* that edits at once and is slow to store.
Needed(o, i, p) == IF cached[o][i] = NotRead THEN Fetched(i, p) ELSE cached[o][i]

\* A change through a method of dict that DirtyTrackingDict overrides; it does
\* not see setdefault, |= or a change inside a value.
Edit(o, i, k, v) ==
    /\ InBody(o)
    /\ edits < MaxEdits
    /\ edits' = edits + 1
    /\ \E p \in Evaluated(i) :
          cached' = [cached EXCEPT ![o][i] =
                       [Needed(o, i, p) EXCEPT !.properties[k] = v, !.dirty = TRUE]]
    /\ UNCHANGED call
    /\ Unmoved

Dirty(o, i) == cached[o][i] # NotRead /\ cached[o][i].dirty

Ending(o, error) == /\ phase' = [phase EXCEPT ![o] = "ending"]
                    /\ position' = [position EXCEPT ![o] = 1]
                    /\ raised' = [raised EXCEPT ![o] = error]

Refresh(o, i, force) ==
    /\ InBody(o)
    /\ cached[o][i] # NotRead
    /\ IF Dirty(o, i) /\ ~force
         THEN /\ Ending(o, TRUE)
              /\ UNCHANGED cached
         ELSE /\ \E p \in Evaluated(i) :
                    cached' = [cached EXCEPT ![o][i] = Fetched(i, p)]
              /\ UNCHANGED <<phase, position, raised>>
    /\ UNCHANGED <<stored, call, endpoint, counters>>

Request(o, i, merge, copy) ==
    call' = [call EXCEPT ![o] = [instance |-> i, merge |-> merge,
                                 read |-> copy.base, mine |-> copy.properties]]

\* update(): a copy that is not dirty is dropped.
UpdateInBody(o, i) ==
    /\ InBody(o)
    /\ IF Dirty(o, i)
         THEN /\ Request(o, i, FALSE, cached[o][i])
              /\ UNCHANGED cached
         ELSE /\ cached' = [cached EXCEPT ![o][i] = NotRead]
              /\ UNCHANGED call
    /\ UNCHANGED edits
    /\ Unmoved

\* update(simple_merge_handler) of a copy with changes; one without would be
\* written back as it is. The handler is first given the same properties
\* twice, and returns them.
UpdateMerging(o, i) ==
    /\ InBody(o)
    /\ Dirty(o, i)
    /\ Request(o, i, TRUE, cached[o][i])
    /\ UNCHANGED <<cached, edits>>
    /\ Unmoved

BodyEnds(o, error) ==
    /\ InBody(o)
    /\ Ending(o, error)
    /\ UNCHANGED <<stored, cached, call, endpoint, counters>>

\* _run_operation_func's finally, and how the operation came out.
EndingUpdate(o) ==
    /\ phase[o] = "ending" /\ call[o] = NoCall
    /\ position[o] \in DOMAIN Contexts[o]
    /\ LET i == Contexts[o][position[o]] IN
       IF Dirty(o, i)
         THEN /\ Request(o, i, FALSE, cached[o][i])
              /\ UNCHANGED <<cached, position>>
         ELSE /\ cached' = [cached EXCEPT ![o][i] = NotRead]
              /\ position' = [position EXCEPT ![o] = @ + 1]
              /\ UNCHANGED call
    /\ UNCHANGED <<stored, phase, raised, endpoint, counters>>

\* The operation ends, and its context goes with it.
Ended(o, how) ==
    /\ phase' = [phase EXCEPT ![o] = how]
    /\ cached' = [cached EXCEPT ![o] = [i \in Instances |-> NotRead]]
    /\ position' = [position EXCEPT ![o] = 1]
    /\ raised' = [raised EXCEPT ![o] = FALSE]

End(o) ==
    /\ phase[o] = "ending" /\ call[o] = NoCall
    /\ position[o] \notin DOMAIN Contexts[o]
    /\ Ended(o, IF raised[o] THEN "failed" ELSE "done")
    /\ UNCHANGED <<stored, call, endpoint, counters>>

\* The workflow runs a failed operation again.
RunAgain(o) ==
    /\ phase[o] = "failed"
    /\ outside < MaxOutside
    /\ outside' = outside + 1
    /\ phase' = [phase EXCEPT ![o] = "body"]
    /\ UNCHANGED <<stored, cached, call, position, raised, endpoint, edits>>

-----------------------------------------------------------------------------
\* The storage.
Current(o) == LET i == call[o].instance
              IN  cached[o][i].version = stored[i].version

\* The manager is sent the state that was fetched too, local storage None.
Written(o) ==
    LET i == call[o].instance
    IN  [stored EXCEPT ![i] =
            [version |-> @.version + 1,
             properties |-> cached[o][i].properties,
             state |-> IF endpoint = "local" THEN @.state
                                             ELSE cached[o][i].state]]

Accept(o) ==
    /\ call[o] # NoCall /\ Current(o)
    /\ stored' = Written(o)
    /\ cached' = [cached EXCEPT ![o][call[o].instance] = NotRead]
    /\ call' = [call EXCEPT ![o] = NoCall]
    /\ position' = [position EXCEPT
                      ![o] = IF phase[o] = "ending" THEN @ + 1 ELSE @]
    /\ UNCHANGED <<phase, raised, endpoint, counters>>

\* The connection drops after the manager has stored the copy:
\* ClusterHTTPClient sends the same request to the next host.
AcceptUnanswered(o) ==
    /\ endpoint = "manager"
    /\ outside < MaxOutside
    /\ call[o] # NoCall /\ Current(o)
    /\ outside' = outside + 1
    /\ stored' = Written(o)
    /\ UNCHANGED <<cached, call, phase, position, raised, endpoint, edits>>

\* Mutant: an exception in finally is lost.
RaiseNothing(o, copy) ==
    /\ call' = [call EXCEPT ![o] = NoCall]
    /\ IF phase[o] = "body"
         THEN /\ Ending(o, TRUE)
              /\ cached' = [cached EXCEPT ![o][call[o].instance] = copy]
         ELSE Ended(o, IF raised[o] THEN "failed" ELSE "done")

\* update() raises, with the instance's copy as it is by then: the body ends
\* in finally, and an exception there skips the updates that are left.
Raise(o, copy) ==
    /\ call' = [call EXCEPT ![o] = NoCall]
    /\ IF phase[o] = "body"
         THEN /\ Ending(o, TRUE)
              /\ cached' = [cached EXCEPT ![o][call[o].instance] = copy]
         ELSE Ended(o, "failed")

\* simple_merge_handler
Mergeable(mine, theirs) ==
    \A k \in Keys : (mine[k] # Absent /\ theirs[k] # Absent)
                        => mine[k] = theirs[k]
\* Mutant: only the caller's properties are stored.
MergedMine(mine, theirs) == mine
Merged(mine, theirs) ==
    [k \in Keys |-> IF mine[k] # Absent THEN mine[k] ELSE theirs[k]]

\* Mutant: what is fetched after a conflict has its version ignored.
RefuseStale(o) ==
    /\ call[o] # NoCall /\ ~Current(o)
    /\ LET i == call[o].instance
           mine == call[o].mine
       IN  IF call[o].merge /\ endpoint = "manager"
             THEN \E p \in Evaluated(i) :
                  IF Mergeable(mine, p)
                    THEN /\ cached' = [cached EXCEPT ![o][i].properties =
                                         Merged(mine, p)]
                         /\ UNCHANGED <<call, phase, position, raised>>
                    ELSE Raise(o, Fetched(i, p))
             ELSE Raise(o, cached[o][i])
    /\ UNCHANGED <<stored, endpoint, counters>>

\* A conflict: 409 of the manager, which update(on_conflict) answers with a
\* fetch and a merge, or StorageConflictError, which it does not catch. The
\* version stays ahead, so the fetch may follow in the same step.
Refuse(o) ==
    /\ call[o] # NoCall /\ ~Current(o)
    /\ LET i == call[o].instance
           mine == call[o].mine
       IN  IF call[o].merge /\ endpoint = "manager"
             THEN \E p \in Evaluated(i) :
                  IF Mergeable(mine, p)
                    THEN /\ cached' = [cached EXCEPT ![o][i] =
                              [Fetched(i, p) EXCEPT !.properties = Merged(mine, p),
                                                    !.dirty = TRUE]]
                         /\ UNCHANGED <<call, phase, position, raised>>
                    ELSE Raise(o, Fetched(i, p))
             ELSE Raise(o, cached[o][i])
    /\ UNCHANGED <<stored, endpoint, counters>>

\* No host of the cluster answers, or one answers with another error.
Unavailable(o) ==
    /\ endpoint = "manager"
    /\ call[o] # NoCall
    /\ Raise(o, cached[o][call[o].instance])
    /\ UNCHANGED <<stored, endpoint, counters>>

\* Mutant: a state is stored under the old version.
SetStateUnversioned(i, s) ==
    /\ stored[i].state # s
    /\ outside < MaxOutside
    /\ outside' = outside + 1
    /\ stored' = [stored EXCEPT ![i].state = s]
    /\ UNCHANGED <<cached, call, phase, position, raised, endpoint, edits>>

\* SetNodeInstanceStateTask: remote forces the update, local has version None.
SetState(i, s) ==
    /\ stored[i].state # s
    /\ outside < MaxOutside
    /\ outside' = outside + 1
    /\ stored' = [stored EXCEPT ![i] = [version |-> @.version + 1, state |-> s,
                                        properties |-> @.properties]]
    /\ UNCHANGED <<cached, call, phase, position, raised, endpoint, edits>>

-----------------------------------------------------------------------------
Body(o) == \/ \E i \in InContext(o) :
                 \/ \E w \in Writes[o] : Edit(o, i, w[1], w[2])
                 \/ \E force \in BOOLEAN : Refresh(o, i, force)
                 \/ UpdateInBody(o, i)
                 \/ UpdateMerging(o, i)
           \/ \E error \in BOOLEAN : BodyEnds(o, error)

Storage(o) == \/ Accept(o)
              \/ AcceptUnanswered(o)
              \/ Refuse(o)
              \/ Unavailable(o)

Next == \/ \E o \in Operations : \/ Body(o)
                                 \/ EndingUpdate(o)
                                 \/ End(o)
                                 \/ RunAgain(o)
                                 \/ Storage(o)
        \/ \E i \in Instances, s \in States : SetState(i, s)

Spec == Init /\ [][Next]_vars

\* A request is answered, and finally runs to its end; the author's body, the
\* workflow and the network owe nothing.
FairSpec ==
    Spec /\ \A o \in Operations :
                WF_vars(EndingUpdate(o) \/ End(o) \/ Accept(o) \/ Refuse(o))

-----------------------------------------------------------------------------
\* What makes a version enough: equal versions, equal contents.
TypeOK ==
    /\ stored \in [Instances -> [version : Nat, state : States,
                                 properties : Properties]]
    /\ cached \in [Operations -> [Instances -> Copies \cup {NotRead}]]
    /\ call \in [Operations -> Calls \cup {NoCall}]
    /\ phase \in [Operations -> {"body", "ending", "done", "failed"}]
    /\ position \in [Operations -> Nat \ {0}]
    /\ raised \in [Operations -> BOOLEAN]
    /\ endpoint \in {"local", "manager"}

VersionsTell ==
    \A o \in Operations, i \in Instances : cached[o][i] # NotRead =>
        /\ cached[o][i].version <= stored[i].version
        /\ cached[o][i].version = stored[i].version =>
              /\ cached[o][i].base \in Evaluated(i)
              /\ cached[o][i].state = stored[i].state

CleanIsUnchanged ==
    \A o \in Operations, i \in Instances :
        (cached[o][i] # NotRead /\ ~cached[o][i].dirty)
            => cached[o][i].properties = cached[o][i].base

\* A merge is still the caller's own copy, or that copy merged into what was
\* fetched last.
CallsAreMade ==
    \A o \in Operations : call[o] # NoCall =>
        LET c == cached[o][call[o].instance] IN
        /\ phase[o] \in {"body", "ending"}
        /\ c # NotRead /\ c.dirty
        /\ phase[o] = "ending" =>
              /\ ~call[o].merge
              /\ position[o] \in DOMAIN Contexts[o]
              /\ call[o].instance = Contexts[o][position[o]]
        /\ call[o].merge =>
              \/ c.base = call[o].read /\ c.properties = call[o].mine
              \/ /\ Mergeable(call[o].mine, c.base)
                 /\ c.properties = Merged(call[o].mine, c.base)

\* finally leaves no copy behind.
CopiesAreStored ==
    \A o \in Operations, i \in Instances :
        /\ i \notin InContext(o) => cached[o][i] = NotRead
        /\ phase[o] \in {"done", "failed"} => cached[o][i] = NotRead
        /\ phase[o] = "ending" =>
              \A n \in DOMAIN Contexts[o] :
                 (n < position[o] /\ Contexts[o][n] = i)
                     => cached[o][i] = NotRead

StorageInv == /\ TypeOK
              /\ VersionsTell
              /\ CleanIsUnchanged
              /\ CallsAreMade
              /\ CopiesAreStored

\* What the contexts and the storage promise together.
Copy(o, i) ==
    IF cached[o][i] = NotRead THEN NotRead
    ELSE IF call[o] # NoCall /\ call[o].merge /\ call[o].instance = i
           THEN [read |-> call[o].read, edited |-> call[o].mine]
           ELSE [read |-> cached[o][i].base,
                 edited |-> cached[o][i].properties]
Outcome(o) ==
    IF phase[o] \in {"done", "failed"} THEN phase[o]
    ELSE IF phase[o] = "ending" /\ raised[o] THEN "failing" ELSE "running"

StoredProperties == [i \in Instances |-> stored[i].properties]
StoredState == [i \in Instances |-> stored[i].state]
Copied == [o \in Operations |-> [i \in Instances |-> Copy(o, i)]]
Outcomes == [o \in Operations |-> Outcome(o)]

Atomic == INSTANCE AtomicProperties WITH
    properties <- StoredProperties, state <- StoredState,
    copy <- Copied, outcome <- Outcomes

\* Concurrent operations store as if each stored its copy in one step, over
\* the very properties it had read, or merged into the present ones; and an
\* operation is done only when all it changed is stored. (Versions, requests
\* sent twice, a source stored and a target refused, an update after a raise.)
ImplementsAtomic == Atomic!Spec

\* No property disappears or changes under a writer that had not seen it: a
\* value in the storage is replaced only by an operation whose body was given
\* that value, however often it fetched and merged since (simple_merge_handler
\* may bring a removed property back, never replace one). An intrinsic function
\* in the manager's storage is given as what it comes to, and what it comes to
\* is stored over it by any operation that changes another property.
NothingOverwritten ==
    [][\A i \in Instances, k \in Keys :
          LET old == stored[i].properties[k]
              new == stored'[i].properties[k]
          IN  (old # Absent /\ new \notin {old} \cup Given(old))
                 => \E o \in Operations : /\ Copy(o, i) # NotRead
                                          /\ Copy(o, i).read[k] \in Given(old)]_vars

\* Storing properties never takes the state of the instance back to the one
\* that was fetched with them, although the manager is sent that state.
StateIsKept ==
    [][\A i \in Instances :
          stored'[i].state # stored[i].state
             => stored'[i].properties = stored[i].properties
                /\ outside' = outside + 1]_vars

\* update(on_conflict) ends: every conflict is another's success, so the loop
\* of fetch and merge comes through once the others leave the instance alone.
UpdatesEnd == \A o \in Operations : (call[o] # NoCall) ~> (call[o] = NoCall)
===========================================================================
