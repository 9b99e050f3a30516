-------------------------- MODULE AtomicProperties --------------------------
(***************************************************************************)
(* What the storage of runtime properties promises to the operations that  *)
(* share a node instance, with no version, request or retry in it: an      *)
(* operation works on a copy, and what it stores is stored in one step,    *)
(* over exactly the properties it read or merged into the present ones.    *)
(* What it reads for an intrinsic function may be what that comes to.      *)
(***************************************************************************)
EXTENDS Naturals

CONSTANTS Operations,   \* invocations of operations
          Instances,    \* node instances
          Keys, Values, \* of runtime properties
          Functions,    \* the values that are intrinsic functions
          States,       \* of node instances
          Absent,       \* no such property
          NotRead       \* no copy

Properties == [Keys -> Values \cup {Absent}]

VARIABLES properties,   \* Instances -> Properties, as stored
          state,        \* Instances -> States
          copy,         \* Operations -> Instances -> NotRead or a copy
          outcome       \* Operations -> "running", "failing", "done", "failed"

vars == <<properties, state, copy, outcome>>

\* Every property of both; none of the first may have another value in the
\* second.
Mergeable(mine, theirs) ==
    \A k \in Keys : (mine[k] # Absent /\ theirs[k] # Absent)
                        => mine[k] = theirs[k]
Merged(mine, theirs) ==
    [k \in Keys |-> IF mine[k] # Absent THEN mine[k] ELSE theirs[k]]

Clean(c) == c = NotRead \/ c.read = c.edited

\* The properties p as they may be read.
Readings(p) ==
    {q \in Properties : \A k \in Keys :
        q[k] = p[k] \/ (p[k] \in Functions /\ q[k] \in Values \ Functions)}
Present(i) == {[read |-> q, edited |-> q] : q \in Readings(properties[i])}
Running(o) == outcome[o] \in {"running", "failing"}

Init == /\ properties \in [Instances -> Properties]
        /\ state \in [Instances -> States]
        /\ copy = [o \in Operations |-> [i \in Instances |-> NotRead]]
        /\ outcome = [o \in Operations |-> "running"]

\* The author may drop a copy and take a new one, edited or not.
Read(o, i) == /\ outcome[o] = "running"
              /\ \E c \in Present(i) : copy' = [copy EXCEPT ![o][i] = c]
              /\ UNCHANGED <<properties, state, outcome>>

Edit(o, i) == /\ outcome[o] = "running"
              /\ \E p \in Properties, q \in Readings(properties[i]) :
                    copy' = [copy EXCEPT ![o][i] =
                               [read |-> IF @ = NotRead THEN q ELSE @.read,
                                edited |-> p]]
              /\ UNCHANGED <<properties, state, outcome>>

\* Only a copy with nothing to store is given up without a word.
Release(o, i) == /\ Running(o)
                 /\ Clean(copy[o][i])
                 /\ copy' = [copy EXCEPT ![o][i] = NotRead]
                 /\ UNCHANGED <<properties, state, outcome>>

\* The operation may never learn that its copy was stored.
Stored(o, i) == /\ copy' \in {copy, [copy EXCEPT ![o][i] = NotRead]}
                /\ UNCHANGED <<state, outcome>>

Commit(o, i) == /\ Running(o)
                /\ copy[o][i] # NotRead
                /\ copy[o][i].read \in Readings(properties[i])
                /\ properties' = [properties EXCEPT ![i] = copy[o][i].edited]
                /\ Stored(o, i)

Merge(o, i) == /\ Running(o)
               /\ copy[o][i] # NotRead
               /\ \E q \in Readings(properties[i]) :
                     /\ Mergeable(copy[o][i].edited, q)
                     /\ properties' = [properties EXCEPT
                                         ![i] = Merged(copy[o][i].edited, q)]
               /\ Stored(o, i)

\* The body raised, or its copy could not be stored. The operation may still
\* store what it has, which is a copy merged with properties it saw meanwhile
\* when the merge was cut short, and never counts as done.
Doom(o) == /\ outcome[o] = "running"
           /\ outcome' = [outcome EXCEPT ![o] = "failing"]
           /\ \/ copy' = copy
              \/ \E i \in Instances : \E c \in Present(i) :
                    copy' = [copy EXCEPT ![o][i] = c]
              \/ \E i \in Instances, seen \in Properties :
                    /\ copy[o][i] # NotRead
                    /\ Mergeable(copy[o][i].edited, seen)
                    /\ copy' = [copy EXCEPT ![o][i] =
                                  [read |-> seen,
                                   edited |-> Merged(@.edited, seen)]]
           /\ UNCHANGED <<properties, state>>

Finish(o) == /\ outcome[o] = "running"
             /\ \A i \in Instances : Clean(copy[o][i])
             /\ outcome' = [outcome EXCEPT ![o] = "done"]
             /\ copy' = [copy EXCEPT ![o] = [i \in Instances |-> NotRead]]
             /\ UNCHANGED <<properties, state>>

Fail(o) == /\ Running(o)
           /\ outcome' = [outcome EXCEPT ![o] = "failed"]
           /\ copy' = [copy EXCEPT ![o] = [i \in Instances |-> NotRead]]
           /\ UNCHANGED <<properties, state>>

Retry(o) == /\ outcome[o] = "failed"
            /\ outcome' = [outcome EXCEPT ![o] = "running"]
            /\ UNCHANGED <<properties, state, copy>>

SetState(i) == /\ \E s \in States : state' = [state EXCEPT ![i] = s]
               /\ UNCHANGED <<properties, copy, outcome>>

Next == \/ \E o \in Operations :
              \/ \E i \in Instances : \/ Read(o, i)
                                      \/ Edit(o, i)
                                      \/ Release(o, i)
                                      \/ Commit(o, i)
                                      \/ Merge(o, i)
              \/ Doom(o)
              \/ Finish(o)
              \/ Fail(o)
              \/ Retry(o)
        \/ \E i \in Instances : SetState(i)

Spec == Init /\ [][Next]_vars
=============================================================================
