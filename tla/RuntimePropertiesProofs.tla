---------------------- MODULE RuntimePropertiesProofs ----------------------
(***************************************************************************)
(* The storage of runtime properties, for every set of operations, of      *)
(* instances and of properties: the invariant behind the version check,    *)
(* that nothing unseen is overwritten, that the state is kept, and that    *)
(* the whole implements AtomicProperties.                                  *)
(***************************************************************************)
EXTENDS RuntimeProperties, TLAPS

\* A context holds instances, and merging properties yields properties.
LEMMA ContextInstances ==
    ASSUME NEW o \in Operations PROVE InContext(o) \subseteq Instances
BY ContextsAssumption DEF InContext

LEMMA ContextPositions ==
    ASSUME NEW o \in Operations
    PROVE  \A n \in DOMAIN Contexts[o] : n \in Nat /\ ~(n < 1)
BY ContextsAssumption

LEMMA MergedProperties ==
    ASSUME NEW p \in Properties, NEW q \in Properties
    PROVE  Merged(p, q) \in Properties
BY DEF Merged, Properties

\* What is given for the stored properties are properties that may be read.
LEMMA EvaluatedRead ==
    ASSUME TypeOK, NEW i \in Instances, NEW p \in Evaluated(i)
    PROVE  /\ p \in Properties
           /\ StoredProperties[i] = stored[i].properties
           /\ p \in Atomic!Readings(StoredProperties[i])
<1>1. p \in Properties /\ p \in Atomic!Properties
  BY DEF Evaluated, Properties, Atomic!Properties
<1>2. StoredProperties[i] = stored[i].properties
  BY DEF StoredProperties
<1>3. \A k \in Keys : \/ p[k] = stored[i].properties[k]
                     \/ /\ stored[i].properties[k] \in Functions
                        /\ p[k] \in Values \ Functions
  BY DEF Evaluated, Given
<1> QED BY <1>1, <1>2, <1>3 DEF Atomic!Readings

LEMMA EvaluatedSame ==
    ASSUME UNCHANGED <<stored, endpoint>>
    PROVE  \A i \in Instances : Evaluated(i)' = Evaluated(i)
BY DEF Evaluated, Given

LEMMA FetchedCopies ==
    ASSUME TypeOK, NEW i \in Instances, NEW p \in Evaluated(i)
    PROVE  /\ Fetched(i, p) \in Copies
           /\ Fetched(i, p) # NotRead
           /\ Fetched(i, p).version = stored[i].version
           /\ Fetched(i, p).state = stored[i].state
           /\ Fetched(i, p).base = p
           /\ Fetched(i, p).properties = p
           /\ Fetched(i, p).dirty = FALSE
<1>1. stored[i] \in [version : Nat, state : States, properties : Properties]
  BY DEF TypeOK
<1>2. Fetched(i, p) \in Copies
  BY <1>1, EvaluatedRead DEF Fetched, Copies
<1> QED BY <1>2, ValuesAssumption DEF Fetched

USE DEF counters

LEMMA InitInv == ASSUME Init PROVE StorageInv
<1>1. [k \in Keys |-> Absent] \in Properties
  BY DEF Properties
<1>2. TypeOK
  BY <1>1, BoundsAssumption DEF Init, TypeOK
<1>3. \A o \in Operations, i \in Instances : cached[o][i] = NotRead /\ call[o] = NoCall /\ phase[o] = "body"
  BY DEF Init
<1>4. VersionsTell /\ CleanIsUnchanged /\ CallsAreMade /\ CopiesAreStored
  <2>1. \A o \in Operations : call[o] = NoCall /\ phase[o] = "body"
    BY DEF Init
  <2> QED
    BY <1>3, <2>1 DEF VersionsTell, CleanIsUnchanged, CallsAreMade, CopiesAreStored
<1> QED BY <1>2, <1>4 DEF StorageInv

-----------------------------------------------------------------------------
\* One lemma per action: the invariant is kept.
GoodCopy(c, i) ==
    c # NotRead => /\ c \in Copies
                   /\ c.version <= stored[i].version
                   /\ c.version = stored[i].version =>
                         /\ c.base \in Evaluated(i)
                         /\ c.state = stored[i].state
                   /\ ~c.dirty => c.properties = c.base

CopiesInv == /\ cached \in [Operations -> [Instances -> Copies \cup {NotRead}]]
             /\ VersionsTell
             /\ CleanIsUnchanged

\* One copy is replaced by one that says of the storage what is true.
LEMMA CopyReplaced ==
    ASSUME StorageInv, NEW o \in Operations, NEW i \in Instances, NEW c,
           GoodCopy(c, i), UNCHANGED <<stored, endpoint>>,
           cached' = [cached EXCEPT ![o][i] = c]
    PROVE  /\ \A p \in Operations, j \in Instances :
                 cached'[p][j] = IF p = o /\ j = i THEN c ELSE cached[p][j]
           /\ CopiesInv'
<1>1. \A p \in Operations, j \in Instances :
         cached'[p][j] = IF p = o /\ j = i THEN c ELSE cached[p][j]
  BY DEF StorageInv, TypeOK
<1>2. c \in Copies \cup {NotRead}
  BY DEF GoodCopy
<1>3. cached' \in [Operations -> [Instances -> Copies \cup {NotRead}]]
  BY <1>2 DEF StorageInv, TypeOK
<1>4. VersionsTell'
  BY <1>1, EvaluatedSame DEF StorageInv, VersionsTell, GoodCopy
<1>5. CleanIsUnchanged'
  BY <1>1 DEF StorageInv, CleanIsUnchanged, GoodCopy
<1> QED BY <1>1, <1>3, <1>4, <1>5 DEF CopiesInv

\* Copies are only given up, while an instance may get a new version.
LEMMA CopiesDropped ==
    ASSUME StorageInv, NEW i \in Instances, NEW s,
           s \in [version : Nat, state : States, properties : Properties],
           stored' \in {stored, [stored EXCEPT ![i] = s]},
           s.version = stored[i].version + 1, UNCHANGED endpoint,
           cached' \in [Operations -> [Instances -> Copies \cup {NotRead}]],
           \A p \in Operations, j \in Instances :
              cached'[p][j] \in {cached[p][j], NotRead}
    PROVE  /\ CopiesInv'
           /\ stored' \in [Instances -> [version : Nat, state : States,
                                         properties : Properties]]
<1>1. \A j \in Instances : stored'[j] = stored[j] \/ (j = i /\ stored'[j] = s)
  BY DEF StorageInv, TypeOK
<1>2. \A p \in Operations, j \in Instances : cached[p][j] # NotRead =>
         cached[p][j].version \in Nat /\ stored[j].version \in Nat
  BY DEF StorageInv, TypeOK, Copies
<1>3. \A j \in Instances : stored'[j] = stored[j] => Evaluated(j)' = Evaluated(j)
  BY DEF Evaluated, Given
<1>5. VersionsTell'
  BY <1>1, <1>2, <1>3 DEF StorageInv, VersionsTell
<1>4. CleanIsUnchanged'
  BY DEF StorageInv, CleanIsUnchanged
<1> QED BY <1>4, <1>5 DEF CopiesInv, StorageInv, TypeOK

LEMMA FetchedGood ==
    ASSUME StorageInv, NEW i \in Instances,
           NEW p \in Evaluated(i)
    PROVE  GoodCopy(Fetched(i, p), i)
<1>1. stored[i].version \in Nat
  BY DEF StorageInv, TypeOK
<1>2. TypeOK
  BY DEF StorageInv
<1>3. Fetched(i, p).version <= stored[i].version
  <2>1. Fetched(i, p).version = stored[i].version
    BY DEF Fetched
  <2> QED BY <1>1, <2>1
<1> QED BY <1>2, <1>3, FetchedCopies DEF GoodCopy

LEMMA CachedGood ==
    ASSUME StorageInv, NEW o \in Operations, NEW i \in Instances
    PROVE  GoodCopy(cached[o][i], i)
BY DEF GoodCopy, StorageInv, TypeOK, VersionsTell, CleanIsUnchanged

\* A copy with other properties that counts as changed.
LEMMA EditedGood ==
    ASSUME NEW i, NEW n, n # NotRead, GoodCopy(n, i), NEW c \in Copies,
           c.version = n.version, c.base = n.base, c.state = n.state,
           c.dirty = TRUE
    PROVE  GoodCopy(c, i) /\ c # NotRead
BY ValuesAssumption DEF GoodCopy

-----------------------------------------------------------------------------
\* One lemma per action: the invariant is kept.
LEMMA EditInv ==
    ASSUME StorageInv, NEW o \in Operations, NEW i \in InContext(o),
           NEW w \in Writes[o], Edit(o, i, w[1], w[2])
    PROVE  StorageInv'
<1>p. PICK p \in Evaluated(i) :
         cached' = [cached EXCEPT ![o][i] =
                      [Needed(o, i, p) EXCEPT !.properties[w[1]] = w[2],
                                              !.dirty = TRUE]]
  BY DEF Edit
<1> DEFINE n == Needed(o, i, p)
           q == [n.properties EXCEPT ![w[1]] = w[2]]
           c == [n EXCEPT !.properties = q, !.dirty = TRUE]
<1>0. i \in Instances
  BY ContextInstances
<1>1. n # NotRead /\ GoodCopy(n, i)
  BY <1>0, FetchedGood, CachedGood, FetchedCopies DEF Needed, StorageInv
<1>2. q \in Properties
  <2>1. w[1] \in Keys /\ w[2] \in Values \cup {Absent}
    BY BoundsAssumption
  <2>2. n.properties \in Properties
    BY <1>1 DEF GoodCopy, Copies
  <2> HIDE DEF n
  <2> QED BY <2>1, <2>2 DEF Properties
<1>3. /\ cached' = [cached EXCEPT ![o][i] = c]
      /\ phase[o] = "body" /\ call[o] = NoCall
      /\ UNCHANGED <<stored, call, phase, position, raised, endpoint>>
  BY <1>p DEF Edit, Unmoved, InBody
<1>4. GoodCopy(c, i) /\ c # NotRead
  <2>1. n \in Copies
    BY <1>1 DEF GoodCopy
  <2> HIDE DEF n, q
  <2>2. /\ c \in Copies /\ c.version = n.version /\ c.base = n.base
        /\ c.state = n.state /\ c.dirty = TRUE
    BY <1>2, <2>1 DEF Copies
  <2> HIDE DEF c
  <2> QED BY <1>1, <2>2, EditedGood
<1> HIDE DEF c
<1>5. /\ \A u \in Operations, j \in Instances :
            cached'[u][j] = IF u = o /\ j = i THEN c ELSE cached[u][j]
      /\ CopiesInv'
  BY <1>0, <1>3, <1>4, CopyReplaced
<1>6. CallsAreMade'
  <2> SUFFICES ASSUME NEW u \in Operations, call[u] # NoCall
               PROVE  u # o /\ call[u].instance \in Instances
    BY <1>3, <1>5 DEF CallsAreMade, StorageInv
  <2> QED BY <1>3 DEF StorageInv, TypeOK, Calls
<1>7. CopiesAreStored'
  BY <1>3, <1>5 DEF CopiesAreStored, StorageInv, InContext
<1> QED BY <1>3, <1>5, <1>6, <1>7 DEF StorageInv, TypeOK, CopiesInv

LEMMA RefreshInv ==
    ASSUME StorageInv, NEW o \in Operations, NEW i \in InContext(o),
           NEW force \in BOOLEAN, Refresh(o, i, force)
    PROVE  StorageInv'
<1>0. i \in Instances
  BY ContextInstances
<1>1. /\ phase[o] = "body" /\ call[o] = NoCall
      /\ UNCHANGED <<stored, call, endpoint>>
  BY DEF Refresh, InBody
<1>2. CASE Dirty(o, i) /\ ~force
  <2>1. Ending(o, TRUE) /\ UNCHANGED cached
    BY <1>2 DEF Refresh
  <2>2. TypeOK'
    BY <1>1, <2>1 DEF StorageInv, TypeOK, Ending
  <2>3. CallsAreMade'
    BY <1>1, <2>1 DEF StorageInv, TypeOK, Ending, CallsAreMade
  <2>4. CopiesAreStored'
    BY <1>1, <2>1, ContextPositions
    DEF StorageInv, TypeOK, Ending, CopiesAreStored, InContext
  <2> QED BY <1>1, <2>1, <2>2, <2>3, <2>4
          DEF StorageInv, VersionsTell, Evaluated, Given, CleanIsUnchanged
<1>3. CASE ~(Dirty(o, i) /\ ~force)
  <2>1. PICK p \in Evaluated(i) :
           /\ cached' = [cached EXCEPT ![o][i] = Fetched(i, p)]
           /\ UNCHANGED <<phase, position, raised>>
    BY <1>3 DEF Refresh
  <2>2. /\ \A u \in Operations, j \in Instances :
              cached'[u][j] = IF u = o /\ j = i THEN Fetched(i, p) ELSE cached[u][j]
        /\ CopiesInv'
    BY <1>0, <1>1, <2>1, FetchedGood, CopyReplaced
  <2>3. CallsAreMade'
    <3> SUFFICES ASSUME NEW u \in Operations, call[u] # NoCall
                 PROVE  u # o /\ call[u].instance \in Instances
      BY <1>1, <2>1, <2>2 DEF CallsAreMade, StorageInv
    <3> QED BY <1>1 DEF StorageInv, TypeOK, Calls
  <2>4. CopiesAreStored'
    BY <1>1, <2>1, <2>2 DEF CopiesAreStored, StorageInv, InContext
  <2> QED BY <1>1, <2>1, <2>2, <2>3, <2>4 DEF StorageInv, TypeOK, CopiesInv
<1> QED BY <1>2, <1>3

\* A request is made for a changed copy.
LEMMA RequestInv ==
    ASSUME StorageInv, NEW o \in Operations, NEW i \in Instances,
           NEW merge \in BOOLEAN,
           call[o] = NoCall, Dirty(o, i), phase[o] \in {"body", "ending"},
           phase[o] = "ending" => /\ ~merge
                                  /\ position[o] \in DOMAIN Contexts[o]
                                  /\ i = Contexts[o][position[o]],
           Request(o, i, merge, cached[o][i]),
           UNCHANGED <<stored, cached, phase, position, raised, endpoint>>
    PROVE  StorageInv'
<1> DEFINE r == [instance |-> i, merge |-> merge, read |-> cached[o][i].base,
                 mine |-> cached[o][i].properties]
<1>1. cached[o][i] \in Copies /\ cached[o][i] # NotRead /\ cached[o][i].dirty
  BY DEF StorageInv, TypeOK, Dirty
<1>2. r \in Calls
  BY <1>1 DEF Copies, Calls
<1>3. r # NoCall /\ r.instance = i /\ r.merge = merge
      /\ r.read = cached[o][i].base /\ r.mine = cached[o][i].properties
  BY <1>2, ValuesAssumption
<1>4. call' = [call EXCEPT ![o] = r]
  BY DEF Request
<1> HIDE DEF r
<1>5. TypeOK'
  BY <1>2, <1>4 DEF StorageInv, TypeOK
<1>6. \A p \in Operations : call'[p] = IF p = o THEN r ELSE call[p]
  BY <1>4 DEF StorageInv, TypeOK
<1>7. CallsAreMade'
  BY <1>1, <1>3, <1>6 DEF StorageInv, CallsAreMade
<1> QED BY <1>5, <1>7
        DEF StorageInv, VersionsTell, Evaluated, Given, CleanIsUnchanged, CopiesAreStored

\* A copy with nothing to store is given up, in the body or by finally.
LEMMA ReleaseInv ==
    ASSUME StorageInv, NEW o \in Operations, NEW i \in Instances,
           call[o] = NoCall, phase[o] \in {"body", "ending"},
           cached' = [cached EXCEPT ![o][i] = NotRead],
           \/ UNCHANGED position
           \/ /\ i = Contexts[o][position[o]]
              /\ position' = [position EXCEPT ![o] = @ + 1],
           UNCHANGED <<stored, call, phase, raised, endpoint>>
    PROVE  StorageInv'
<1>1. /\ \A p \in Operations, j \in Instances :
            cached'[p][j] = IF p = o /\ j = i THEN NotRead ELSE cached[p][j]
      /\ CopiesInv'
  <2>1. GoodCopy(NotRead, i)
    BY DEF GoodCopy
  <2> QED BY <2>1, CopyReplaced
<1>2. position' \in [Operations -> Nat \ {0}]
      /\ (\A p \in Operations : p # o => position'[p] = position[p])
  <2>1. position \in [Operations -> Nat \ {0}] /\ position[o] \in Nat \ {0}
    BY DEF StorageInv, TypeOK
  <2>2. position[o] + 1 \in Nat \ {0}
    BY <2>1
  <2> QED BY <2>1, <2>2
<1>3. TypeOK'
  BY <1>1, <1>2 DEF StorageInv, TypeOK, CopiesInv
<1>4. CallsAreMade'
  <2> SUFFICES ASSUME NEW p \in Operations, call[p] # NoCall
               PROVE  p # o /\ call[p].instance \in Instances
    BY <1>1, <1>2 DEF CallsAreMade, StorageInv
  <2> QED BY DEF StorageInv, TypeOK, Calls
<1>5. CopiesAreStored'
  <2> SUFFICES ASSUME NEW p \in Operations, NEW j \in Instances,
                      phase[p] = "ending", NEW n \in DOMAIN Contexts[p],
                      n < position'[p], Contexts[p][n] = j
               PROVE  cached'[p][j] = NotRead
    BY <1>1 DEF CopiesAreStored, StorageInv
  <2>1. CASE n < position[p]
    BY <1>1, <2>1 DEF CopiesAreStored, StorageInv
  <2>2. CASE ~(n < position[p])
    <3>1. p = o /\ position'[p] = position[p] + 1 /\ i = Contexts[o][position[o]]
      BY <1>2, <2>2 DEF StorageInv, TypeOK
    <3>2. n = position[p]
      <4>1. n \in Nat /\ position[p] \in Nat
        BY ContextPositions DEF StorageInv, TypeOK
      <4> QED BY <2>2, <3>1, <4>1
    <3> QED BY <1>1, <3>1, <3>2
  <2> QED BY <2>1, <2>2
<1> QED BY <1>1, <1>3, <1>4, <1>5 DEF StorageInv, CopiesInv

LEMMA UpdateInBodyInv ==
    ASSUME StorageInv, NEW o \in Operations, NEW i \in InContext(o),
           UpdateInBody(o, i)
    PROVE  StorageInv'
<1>0. i \in Instances
  BY ContextInstances
<1>1. /\ phase[o] = "body" /\ call[o] = NoCall
      /\ UNCHANGED <<stored, phase, position, raised, endpoint>>
  BY DEF UpdateInBody, Unmoved, InBody
<1>2. CASE Dirty(o, i)
  <2>1. Request(o, i, FALSE, cached[o][i]) /\ UNCHANGED cached
    BY <1>2 DEF UpdateInBody
  <2> QED BY <1>0, <1>1, <1>2, <2>1, RequestInv
<1>3. CASE ~Dirty(o, i)
  <2>1. cached' = [cached EXCEPT ![o][i] = NotRead] /\ UNCHANGED call
    BY <1>3 DEF UpdateInBody
  <2> QED BY <1>0, <1>1, <2>1, ReleaseInv
<1> QED BY <1>2, <1>3

LEMMA UpdateMergingInv ==
    ASSUME StorageInv, NEW o \in Operations, NEW i \in InContext(o),
           UpdateMerging(o, i)
    PROVE  StorageInv'
<1>0. i \in Instances
  BY ContextInstances
<1>1. /\ phase[o] = "body" /\ call[o] = NoCall /\ Dirty(o, i)
      /\ Request(o, i, TRUE, cached[o][i])
      /\ UNCHANGED <<stored, cached, phase, position, raised, endpoint>>
  BY DEF UpdateMerging, Unmoved, InBody
<1> QED BY <1>0, <1>1, RequestInv

LEMMA BodyEndsInv ==
    ASSUME StorageInv, NEW o \in Operations, NEW error \in BOOLEAN,
           BodyEnds(o, error)
    PROVE  StorageInv'
<1>1. /\ phase[o] = "body" /\ call[o] = NoCall /\ Ending(o, error)
      /\ UNCHANGED <<stored, cached, call, endpoint>>
  BY DEF BodyEnds, InBody
<1>2. TypeOK'
  BY <1>1 DEF StorageInv, TypeOK, Ending
<1>3. CallsAreMade'
  BY <1>1 DEF StorageInv, TypeOK, Ending, CallsAreMade
<1>4. CopiesAreStored'
  BY <1>1, ContextPositions
  DEF StorageInv, TypeOK, Ending, CopiesAreStored, InContext
<1> QED BY <1>1, <1>2, <1>3, <1>4 DEF StorageInv, VersionsTell, Evaluated, Given, CleanIsUnchanged

LEMMA EndingUpdateInv ==
    ASSUME StorageInv, NEW o \in Operations, EndingUpdate(o)
    PROVE  StorageInv'
<1> DEFINE i == Contexts[o][position[o]]
<1>1. /\ phase[o] = "ending" /\ call[o] = NoCall
      /\ position[o] \in DOMAIN Contexts[o]
      /\ UNCHANGED <<stored, phase, raised, endpoint>>
  BY DEF EndingUpdate
<1>2. i \in Instances
  BY <1>1, ContextInstances DEF InContext
<1>3. CASE Dirty(o, i)
  <2>1. Request(o, i, FALSE, cached[o][i]) /\ UNCHANGED <<cached, position>>
    BY <1>3 DEF EndingUpdate
  <2> HIDE DEF i
  <2> QED BY <1>1, <1>2, <1>3, <2>1, RequestInv DEF i
<1>4. CASE ~Dirty(o, i)
  <2>1. /\ cached' = [cached EXCEPT ![o][i] = NotRead]
        /\ position' = [position EXCEPT ![o] = @ + 1]
        /\ UNCHANGED call
    BY <1>4 DEF EndingUpdate
  <2> QED BY <1>1, <1>2, <2>1, ReleaseInv
<1> QED BY <1>3, <1>4

\* The context of an operation that ended is gone.
LEMMA EndedInv ==
    ASSUME StorageInv, NEW o \in Operations, NEW how \in {"done", "failed"},
           Ended(o, how), call' = [call EXCEPT ![o] = NoCall],
           UNCHANGED <<stored, endpoint>>
    PROVE  StorageInv'
<1>1. TypeOK'
  BY DEF StorageInv, TypeOK, Ended
<1>2. \A p \in Operations : p # o => /\ cached'[p] = cached[p]
                                     /\ call'[p] = call[p]
                                     /\ phase'[p] = phase[p]
                                     /\ position'[p] = position[p]
                                     /\ raised'[p] = raised[p]
  BY DEF StorageInv, TypeOK, Ended
<1>3. /\ \A j \in Instances : cached'[o][j] = NotRead
      /\ call'[o] = NoCall /\ phase'[o] = how
  BY DEF StorageInv, TypeOK, Ended
<1>4. VersionsTell' /\ CleanIsUnchanged'
  <2> SUFFICES ASSUME NEW p \in Operations, NEW j \in Instances, cached'[p][j] # NotRead
               PROVE  p # o /\ cached'[p] = cached[p]
    BY EvaluatedSame DEF StorageInv, VersionsTell, CleanIsUnchanged
  <2> QED BY <1>2, <1>3
<1>5. CallsAreMade'
  <2> SUFFICES ASSUME NEW p \in Operations, call'[p] # NoCall
               PROVE  p # o
    BY <1>2 DEF StorageInv, CallsAreMade
  <2> QED BY <1>3
<1>6. CopiesAreStored'
  <2> SUFFICES ASSUME NEW p \in Operations, NEW j \in Instances, cached'[p][j] # NotRead
               PROVE  p # o
    BY <1>2 DEF StorageInv, CopiesAreStored, InContext
  <2> QED BY <1>3
<1> QED BY <1>1, <1>4, <1>5, <1>6 DEF StorageInv

LEMMA EndInv ==
    ASSUME StorageInv, NEW o \in Operations, End(o) PROVE StorageInv'
<1>1. call' = [call EXCEPT ![o] = NoCall]
  BY DEF End, StorageInv, TypeOK
<1>2. /\ Ended(o, IF raised[o] THEN "failed" ELSE "done")
      /\ UNCHANGED <<stored, endpoint>>
  BY DEF End
<1> QED BY <1>1, <1>2, EndedInv

LEMMA RunAgainInv ==
    ASSUME StorageInv, NEW o \in Operations, RunAgain(o) PROVE StorageInv'
<1>1. TypeOK'
  BY DEF StorageInv, TypeOK, RunAgain
<1>2. CallsAreMade'
  BY DEF StorageInv, TypeOK, CallsAreMade, RunAgain
<1>3. CopiesAreStored'
  BY DEF StorageInv, TypeOK, CopiesAreStored, RunAgain, InContext
<1> QED BY <1>1, <1>2, <1>3 DEF StorageInv, VersionsTell, Evaluated, Given, CleanIsUnchanged, RunAgain

-----------------------------------------------------------------------------
LEMMA CallMade ==
    ASSUME StorageInv, NEW o \in Operations, call[o] # NoCall
    PROVE  /\ call[o] \in Calls /\ call[o].instance \in Instances
           /\ cached[o][call[o].instance] \in Copies
           /\ cached[o][call[o].instance] # NotRead
BY DEF StorageInv, TypeOK, CallsAreMade, Calls

\* What the storage has after it took a copy.
LEMMA WrittenState ==
    ASSUME StorageInv, NEW o \in Operations, call[o] # NoCall, Current(o)
    PROVE  LET i == call[o].instance
               s == [version |-> stored[i].version + 1,
                     properties |-> cached[o][i].properties,
                     state |-> stored[i].state]
           IN  /\ Written(o) = [stored EXCEPT ![i] = s]
               /\ s \in [version : Nat, state : States, properties : Properties]
               /\ cached[o][i].base \in Evaluated(i)
<1> DEFINE i == call[o].instance
<1>1. /\ i \in Instances /\ cached[o][i] \in Copies /\ cached[o][i] # NotRead
  BY CallMade
<1>2. /\ cached[o][i].base \in Evaluated(i)
      /\ cached[o][i].state = stored[i].state
  BY <1>1 DEF Current, StorageInv, VersionsTell
<1>3. stored[i] \in [version : Nat, state : States, properties : Properties]
  BY <1>1 DEF StorageInv, TypeOK
<1>4. cached[o][i].properties \in Properties
  BY <1>1 DEF Copies
<1>5. [version |-> stored[i].version + 1, properties |-> cached[o][i].properties,
       state |-> stored[i].state]
        \in [version : Nat, state : States, properties : Properties]
  BY <1>3, <1>4
<1>6. Written(o) = [stored EXCEPT ![i] =
          [version |-> stored[i].version + 1,
           properties |-> cached[o][i].properties, state |-> stored[i].state]]
  BY <1>1, <1>2 DEF Written, StorageInv, TypeOK
<1> QED BY <1>2, <1>5, <1>6

LEMMA AcceptInv ==
    ASSUME StorageInv, NEW o \in Operations, Accept(o) PROVE StorageInv'
<1> DEFINE i == call[o].instance
           s == [version |-> stored[i].version + 1,
                 properties |-> cached[o][i].properties,
                 state |-> stored[i].state]
<1>1. /\ call[o] # NoCall /\ Current(o) /\ i \in Instances
      /\ stored' = [stored EXCEPT ![i] = s]
      /\ s \in [version : Nat, state : States, properties : Properties]
      /\ s.version = stored[i].version + 1
  BY CallMade, WrittenState DEF Accept
<1>2. /\ cached' = [cached EXCEPT ![o][i] = NotRead]
      /\ call' = [call EXCEPT ![o] = NoCall]
      /\ position' = [position EXCEPT ![o] = IF phase[o] = "ending" THEN @ + 1 ELSE @]
      /\ UNCHANGED <<phase, raised, endpoint>>
  BY DEF Accept
<1> HIDE DEF s
<1>3. \A p \in Operations, j \in Instances :
         cached'[p][j] = IF p = o /\ j = i THEN NotRead ELSE cached[p][j]
  BY <1>1, <1>2 DEF StorageInv, TypeOK
<1>4. cached' \in [Operations -> [Instances -> Copies \cup {NotRead}]]
  BY <1>2 DEF StorageInv, TypeOK
<1>5. CopiesInv' /\ stored' \in [Instances -> [version : Nat, state : States,
                                               properties : Properties]]
  <2> HIDE DEF i
  <2>1. \A p \in Operations, j \in Instances : cached'[p][j] \in {cached[p][j], NotRead}
    BY <1>3
  <2> QED BY <1>1, <1>2, <1>4, <2>1, CopiesDropped
<1>6. TypeOK'
  BY <1>2, <1>4, <1>5 DEF StorageInv, TypeOK
<1>7. CallsAreMade'
  <2> SUFFICES ASSUME NEW p \in Operations, call'[p] # NoCall
               PROVE  /\ p # o /\ call'[p] = call[p] /\ position'[p] = position[p]
                      /\ call[p].instance \in Instances
    BY <1>2, <1>3 DEF CallsAreMade, StorageInv
  <2> QED BY <1>2 DEF StorageInv, TypeOK, Calls
<1>8. CopiesAreStored'
  <2> SUFFICES ASSUME NEW p \in Operations, NEW j \in Instances,
                      phase[p] = "ending", NEW n \in DOMAIN Contexts[p],
                      n < position'[p], Contexts[p][n] = j
               PROVE  cached'[p][j] = NotRead
    BY <1>2, <1>3 DEF CopiesAreStored, StorageInv
  <2>1. CASE n < position[p]
    BY <1>3, <2>1 DEF CopiesAreStored, StorageInv
  <2>2. CASE ~(n < position[p])
    <3>1. p = o /\ position'[p] = position[p] + 1
      BY <1>2, <2>2 DEF StorageInv, TypeOK
    <3>2. n = position[p]
      <4>1. n \in Nat /\ position[p] \in Nat
        BY ContextPositions DEF StorageInv, TypeOK
      <4> QED BY <2>2, <3>1, <4>1
    <3>3. i = Contexts[o][position[o]]
      BY <1>1, <3>1 DEF StorageInv, CallsAreMade
    <3> QED BY <1>3, <3>1, <3>2, <3>3
  <2> QED BY <2>1, <2>2
<1> QED BY <1>5, <1>6, <1>7, <1>8 DEF StorageInv, CopiesInv

LEMMA AcceptUnansweredInv ==
    ASSUME StorageInv, NEW o \in Operations, AcceptUnanswered(o)
    PROVE  StorageInv'
<1> DEFINE i == call[o].instance
           s == [version |-> stored[i].version + 1,
                 properties |-> cached[o][i].properties,
                 state |-> stored[i].state]
<1>1. /\ i \in Instances /\ stored' = [stored EXCEPT ![i] = s]
      /\ s \in [version : Nat, state : States, properties : Properties]
      /\ s.version = stored[i].version + 1
  BY CallMade, WrittenState DEF AcceptUnanswered
<1>2. UNCHANGED <<cached, call, phase, position, raised, endpoint>>
  BY DEF AcceptUnanswered
<1> HIDE DEF s, i
<1>3. cached' \in [Operations -> [Instances -> Copies \cup {NotRead}]]
  BY <1>2 DEF StorageInv, TypeOK
<1>4. CopiesInv' /\ stored' \in [Instances -> [version : Nat, state : States,
                                               properties : Properties]]
  BY <1>1, <1>2, <1>3, CopiesDropped
<1> QED BY <1>2, <1>4
        DEF StorageInv, TypeOK, CopiesInv, CallsAreMade, CopiesAreStored, InContext

LEMMA SetStateInv ==
    ASSUME StorageInv, NEW i \in Instances, NEW t \in States, SetState(i, t)
    PROVE  StorageInv'
<1> DEFINE s == [version |-> stored[i].version + 1,
                 properties |-> stored[i].properties, state |-> t]
<1>1. stored[i] \in [version : Nat, state : States, properties : Properties]
  BY DEF StorageInv, TypeOK
<1>2. /\ stored' = [stored EXCEPT ![i] = s]
      /\ s \in [version : Nat, state : States, properties : Properties]
      /\ s.version = stored[i].version + 1
  BY <1>1 DEF SetState
<1>3. UNCHANGED <<cached, call, phase, position, raised, endpoint>>
  BY DEF SetState
<1> HIDE DEF s
<1>4. cached' \in [Operations -> [Instances -> Copies \cup {NotRead}]]
  BY <1>3 DEF StorageInv, TypeOK
<1>5. CopiesInv' /\ stored' \in [Instances -> [version : Nat, state : States,
                                               properties : Properties]]
  BY <1>2, <1>3, <1>4, CopiesDropped
<1> QED BY <1>3, <1>5
        DEF StorageInv, TypeOK, CopiesInv, CallsAreMade, CopiesAreStored, InContext

\* An exception of update(): the copy is left as it is by then.
LEMMA RaiseInv ==
    ASSUME StorageInv, NEW o \in Operations, call[o] # NoCall, NEW c,
           c # NotRead, GoodCopy(c, call[o].instance), Raise(o, c),
           UNCHANGED <<stored, endpoint>>
    PROVE  StorageInv'
<1> DEFINE i == call[o].instance
<1>1. CASE phase[o] = "body"
  <2>1. /\ i \in Instances /\ cached[o][i] # NotRead
        /\ call' = [call EXCEPT ![o] = NoCall] /\ Ending(o, TRUE)
        /\ cached' = [cached EXCEPT ![o][i] = c]
    BY <1>1, CallMade DEF Raise
  <2> HIDE DEF i
  <2>2. /\ \A p \in Operations, j \in Instances :
              cached'[p][j] = IF p = o /\ j = i THEN c ELSE cached[p][j]
        /\ CopiesInv'
    BY <2>1, CopyReplaced DEF i
  <2>3. TypeOK'
    BY <2>1, <2>2 DEF StorageInv, TypeOK, CopiesInv, Ending
  <2>4. \A p \in Operations : p # o => /\ cached'[p] = cached[p]
                                       /\ call'[p] = call[p]
                                       /\ phase'[p] = phase[p]
                                       /\ position'[p] = position[p]
    BY <2>1 DEF StorageInv, TypeOK, Ending
  <2>5. call'[o] = NoCall /\ phase'[o] = "ending" /\ position'[o] = 1
    BY <2>1 DEF StorageInv, TypeOK, Ending
  <2>6. CallsAreMade'
    BY <2>4, <2>5 DEF StorageInv, CallsAreMade
  <2>7. CopiesAreStored'
    <3>1. ASSUME NEW j \in Instances, j \notin InContext(o)
          PROVE  cached'[o][j] = NotRead
      <4>1. cached[o][j] = NotRead /\ j # i
        BY <2>1, <3>1 DEF StorageInv, CopiesAreStored
      <4> QED BY <2>2, <4>1
    <3>2. ASSUME NEW n \in DOMAIN Contexts[o] PROVE ~(n < position'[o])
      BY <2>5, ContextPositions
    <3>3. ASSUME NEW p \in Operations, p # o, NEW j \in Instances
          PROVE  /\ j \notin InContext(p) => cached'[p][j] = NotRead
                 /\ phase'[p] \in {"done", "failed"} => cached'[p][j] = NotRead
                 /\ phase'[p] = "ending" =>
                       \A n \in DOMAIN Contexts[p] :
                          (n < position'[p] /\ Contexts[p][n] = j)
                             => cached'[p][j] = NotRead
      BY <2>4, <3>3 DEF StorageInv, CopiesAreStored
    <3> QED BY <2>5, <3>1, <3>2, <3>3 DEF CopiesAreStored, InContext
  <2> QED BY <2>2, <2>3, <2>6, <2>7 DEF StorageInv, CopiesInv
<1>2. CASE phase[o] # "body"
  <2>1. call' = [call EXCEPT ![o] = NoCall] /\ Ended(o, "failed")
    BY <1>2 DEF Raise
  <2> QED BY <2>1, EndedInv
<1> QED BY <1>1, <1>2

LEMMA UnavailableInv ==
    ASSUME StorageInv, NEW o \in Operations, Unavailable(o) PROVE StorageInv'
<1> DEFINE c == cached[o][call[o].instance]
<1>1. /\ call[o] # NoCall /\ Raise(o, c) /\ UNCHANGED <<stored, endpoint>>
  BY DEF Unavailable
<1>2. c # NotRead /\ GoodCopy(c, call[o].instance)
  BY <1>1, CallMade, CachedGood
<1> HIDE DEF c
<1> QED BY <1>1, <1>2, RaiseInv

LEMMA RefuseInv ==
    ASSUME StorageInv, NEW o \in Operations, Refuse(o) PROVE StorageInv'
<1> DEFINE i == call[o].instance
           mine == call[o].mine
           merging == call[o].merge /\ endpoint = "manager"
<1>1. /\ call[o] # NoCall /\ call[o] \in Calls /\ i \in Instances
      /\ cached[o][i] # NotRead
      /\ UNCHANGED <<stored, endpoint>>
  BY CallMade DEF Refuse
<1>2. \A p \in Evaluated(i) : /\ Fetched(i, p) # NotRead /\ GoodCopy(Fetched(i, p), i)
                               /\ Fetched(i, p).base = p /\ p \in Properties
  BY <1>1, FetchedCopies, FetchedGood, EvaluatedRead DEF StorageInv
<1>3. ASSUME NEW p \in Evaluated(i), Mergeable(mine, p),
             cached' = [cached EXCEPT ![o][i] =
                          [Fetched(i, p) EXCEPT !.properties = Merged(mine, p),
                                                !.dirty = TRUE]],
             UNCHANGED <<call, phase, position, raised>>
      PROVE  StorageInv'
  <2> DEFINE q == Merged(mine, p)
             c == [Fetched(i, p) EXCEPT !.properties = q, !.dirty = TRUE]
  <2>1. /\ cached' = [cached EXCEPT ![o][i] = c]
        /\ UNCHANGED <<call, phase, position, raised>>
    BY <1>3 DEF Refuse
  <2>2. q \in Properties
    BY <1>1, <1>2, MergedProperties DEF StorageInv, TypeOK, Calls
  <2>3. /\ GoodCopy(c, i) /\ c # NotRead
        /\ c.base = p /\ c.properties = q /\ c.dirty = TRUE
    <3> DEFINE n == Fetched(i, p)
    <3> HIDE DEF i, q, n
    <3>1. n # NotRead /\ GoodCopy(n, i) /\ n.base = p
      BY <1>2 DEF n
    <3>2. n \in Copies /\ c = [n EXCEPT !.properties = q, !.dirty = TRUE]
      BY <3>1 DEF n, GoodCopy
    <3>3. /\ c \in Copies /\ c.version = n.version /\ c.base = n.base
          /\ c.state = n.state /\ c.dirty = TRUE /\ c.properties = q
      BY <2>2, <3>2 DEF Copies
    <3> HIDE DEF c
    <3> QED BY <3>1, <3>3, EditedGood
  <2> HIDE DEF c
  <2>4. /\ \A u \in Operations, j \in Instances :
              cached'[u][j] = IF u = o /\ j = i THEN c ELSE cached[u][j]
        /\ CopiesInv'
    BY <1>1, <2>1, <2>3, CopyReplaced
  <2>5. TypeOK'
    BY <1>1, <2>1, <2>4 DEF StorageInv, TypeOK, CopiesInv
  <2>6. CallsAreMade'
    <3>1. ASSUME NEW u \in Operations, u # o, call[u] # NoCall
          PROVE  cached'[u][call[u].instance] = cached[u][call[u].instance]
      BY <2>4, <3>1, CallMade
    <3>2. cached'[o][i] = c
      BY <1>1, <2>4
    <3>3. /\ Mergeable(mine, c.base) /\ c.properties = Merged(mine, c.base)
      BY <1>3, <2>3
    <3> QED BY <2>1, <2>3, <3>1, <3>2, <3>3 DEF StorageInv, CallsAreMade
  <2>7. CopiesAreStored'
    <3> SUFFICES ASSUME NEW u \in Operations, NEW j \in Instances
                 PROVE  cached[u][j] = NotRead => cached'[u][j] = NotRead
      BY <2>1 DEF StorageInv, CopiesAreStored, InContext
    <3> QED BY <1>1, <2>4
  <2> QED BY <2>4, <2>5, <2>6, <2>7 DEF StorageInv, CopiesInv
<1>4. ASSUME NEW c, Raise(o, c),
             c = cached[o][i] \/ \E p \in Evaluated(i) : c = Fetched(i, p)
      PROVE  StorageInv'
  <2>1. c # NotRead /\ GoodCopy(c, i)
    BY <1>1, <1>2, <1>4, CachedGood
  <2> QED BY <1>1, <1>4, <2>1, RaiseInv
<1>5. CASE merging
  <2>1. PICK p \in Evaluated(i) :
           IF Mergeable(mine, p)
             THEN /\ cached' = [cached EXCEPT ![o][i] =
                       [Fetched(i, p) EXCEPT !.properties = Merged(mine, p),
                                             !.dirty = TRUE]]
                  /\ UNCHANGED <<call, phase, position, raised>>
             ELSE Raise(o, Fetched(i, p))
    BY <1>5 DEF Refuse
  <2> QED BY <1>3, <1>4, <2>1
<1>6. CASE ~merging
  <2>1. Raise(o, cached[o][i])
    BY <1>6 DEF Refuse
  <2> QED BY <1>4, <2>1
<1> QED BY <1>5, <1>6

\* Equal versions mean equal contents, a request is for a copy that is there,
\* and finally leaves none behind: the invariant everything else rests on.
THEOREM StorageInvariant == Spec => []StorageInv
<1>1. Init => StorageInv
  BY InitInv
<1>2. StorageInv /\ [Next]_vars => StorageInv'
  <2> SUFFICES ASSUME StorageInv, [Next]_vars PROVE StorageInv'
    OBVIOUS
  <2>1. ASSUME NEW o \in Operations, Body(o) PROVE StorageInv'
    <3>1. ASSUME NEW i \in InContext(o), NEW w \in Writes[o], Edit(o, i, w[1], w[2])
          PROVE  StorageInv'
      BY <3>1, EditInv
    <3>2. ASSUME NEW i \in InContext(o), NEW force \in BOOLEAN, Refresh(o, i, force)
          PROVE  StorageInv'
      BY <3>2, RefreshInv
    <3>3. ASSUME NEW i \in InContext(o), UpdateInBody(o, i) \/ UpdateMerging(o, i)
          PROVE  StorageInv'
      BY <3>3, UpdateInBodyInv, UpdateMergingInv
    <3>4. ASSUME NEW error \in BOOLEAN, BodyEnds(o, error) PROVE StorageInv'
      BY <3>4, BodyEndsInv
    <3> QED BY <2>1, <3>1, <3>2, <3>3, <3>4 DEF Body
  <2>2. ASSUME NEW o \in Operations, Storage(o) PROVE StorageInv'
    BY <2>2, AcceptInv, AcceptUnansweredInv, RefuseInv, UnavailableInv
    DEF Storage
  <2>3. CASE UNCHANGED vars
    <3>1. TypeOK' /\ VersionsTell' /\ CleanIsUnchanged'
      BY <2>3 DEF vars, StorageInv, TypeOK, VersionsTell, Evaluated, Given, CleanIsUnchanged
    <3>2. CallsAreMade'
      BY <2>3 DEF vars, StorageInv, CallsAreMade
    <3>3. CopiesAreStored'
      BY <2>3 DEF vars, StorageInv, CopiesAreStored
    <3> QED BY <3>1, <3>2, <3>3 DEF StorageInv
  <2> QED BY <2>1, <2>2, <2>3, EndingUpdateInv, EndInv, RunAgainInv, SetStateInv
          DEF Next
<1> QED BY <1>1, <1>2, PTL DEF Spec

-----------------------------------------------------------------------------
\* What a step may do to the storage.
Writing(o, i) ==
    /\ call[o] # NoCall /\ Current(o) /\ i = call[o].instance
    /\ stored'[i].properties = cached[o][i].properties
    /\ stored'[i].state = stored[i].state

LEMMA StoredChanges ==
    ASSUME StorageInv, [Next]_vars, NEW i \in Instances
    PROVE  \/ stored'[i] = stored[i]
           \/ \E o \in Operations : Writing(o, i)
           \/ /\ outside' = outside + 1
              /\ stored'[i].properties = stored[i].properties
<1>1. ASSUME NEW o \in Operations, call[o] # NoCall, Current(o), stored' = Written(o)
      PROVE  stored'[i] = stored[i] \/ Writing(o, i)
  <2> DEFINE j == call[o].instance
             s == [version |-> stored[j].version + 1,
                   properties |-> cached[o][j].properties,
                   state |-> stored[j].state]
  <2>1. stored' = [stored EXCEPT ![j] = s] /\ j \in Instances
    BY <1>1, WrittenState, CallMade
  <2>2. stored'[i] = IF i = j THEN s ELSE stored[i]
    BY <2>1 DEF StorageInv, TypeOK
  <2> QED BY <1>1, <2>2 DEF Writing
<1>2. ASSUME NEW j \in Instances, NEW t \in States, SetState(j, t)
      PROVE  /\ outside' = outside + 1
             /\ stored'[i].properties = stored[i].properties
  BY <1>2 DEF SetState, StorageInv, TypeOK
<1>3. ASSUME NEW o \in Operations, Storage(o)
      PROVE  \/ UNCHANGED stored
             \/ call[o] # NoCall /\ Current(o) /\ stored' = Written(o)
  BY <1>3 DEF Storage, Accept, AcceptUnanswered, Refuse, Unavailable
<1>4. ASSUME NEW o \in Operations, Body(o) \/ EndingUpdate(o) \/ End(o) \/ RunAgain(o)
      PROVE  UNCHANGED stored
  BY <1>4 DEF Body, Edit, Unmoved, Refresh, UpdateInBody, UpdateMerging,
              BodyEnds, EndingUpdate, End, RunAgain
<1> QED BY <1>1, <1>2, <1>3, <1>4 DEF Next, vars

\* The state fetched with the properties, which the manager is sent, is never
\* stored over a later one.
THEOREM StatesAreKept == Spec => StateIsKept
<1>1. StorageInv /\ [Next]_vars =>
         [\A i \in Instances :
             stored'[i].state # stored[i].state
                => stored'[i].properties = stored[i].properties
                   /\ outside' = outside + 1]_vars
  BY StoredChanges DEF Writing
<1> QED BY <1>1, StorageInvariant, PTL DEF Spec, StateIsKept

LEMMA GivenPresent ==
    ASSUME NEW v, v # Absent PROVE Absent \notin Given(v)
BY ValuesAssumption DEF Given

\* No property is replaced or removed by an operation whose body was not given
\* it, the merges of update(on_conflict) included; a function may only become
\* what it comes to.
THEOREM NothingIsOverwritten == Spec => NothingOverwritten
<1>1. ASSUME StorageInv, [Next]_vars, NEW i \in Instances, NEW k \in Keys,
             stored[i].properties[k] # Absent,
             stored'[i].properties[k] \notin {stored[i].properties[k]}
                                             \cup Given(stored[i].properties[k])
      PROVE  \E o \in Operations :
                /\ Copy(o, i) # NotRead
                /\ Copy(o, i).read[k] \in Given(stored[i].properties[k])
  <2>1. PICK o \in Operations : Writing(o, i)
    BY <1>1, StoredChanges
  <2> DEFINE c == cached[o][i]
  <2>2. /\ call[o] # NoCall /\ call[o] \in Calls /\ i = call[o].instance
        /\ c \in Copies /\ c # NotRead /\ c.base \in Evaluated(i)
        /\ stored'[i].properties[k] = c.properties[k]
    BY <1>1, <2>1, CallMade, WrittenState DEF Writing
  <2>6. /\ c.base[k] \in Given(stored[i].properties[k])
        /\ c.properties[k] # c.base[k] /\ c.base[k] # Absent
    BY <1>1, <2>2, GivenPresent DEF Evaluated
  <2>3. CASE call[o].merge
    <3>1. ~(Mergeable(call[o].mine, c.base) /\ c.properties = Merged(call[o].mine, c.base))
      BY <2>6 DEF Mergeable, Merged
    <3>2. c.base = call[o].read
      BY <1>1, <2>2, <2>3, <3>1 DEF StorageInv, CallsAreMade
    <3>3. Copy(o, i) = [read |-> call[o].read, edited |-> call[o].mine]
      BY <2>2, <2>3 DEF Copy
    <3>4. Copy(o, i) \in [read : Properties, edited : Properties]
      BY <2>2, <3>3 DEF Calls
    <3> QED BY <2>6, <3>2, <3>3, <3>4, ValuesAssumption
  <2>4. CASE ~call[o].merge
    <3>1. Copy(o, i) = [read |-> c.base, edited |-> c.properties]
      BY <2>2, <2>4 DEF Copy
    <3>2. Copy(o, i) \in [read : Properties, edited : Properties]
      BY <2>2, <3>1 DEF Copies
    <3> QED BY <2>6, <3>1, <3>2, ValuesAssumption
  <2> QED BY <2>3, <2>4
<1>2. StorageInv /\ [Next]_vars =>
         [\A i \in Instances, k \in Keys :
             LET old == stored[i].properties[k]
                 new == stored'[i].properties[k]
             IN  (old # Absent /\ new \notin {old} \cup Given(old))
                    => \E o \in Operations :
                          /\ Copy(o, i) # NotRead
                          /\ Copy(o, i).read[k] \in Given(old)]_vars
  BY <1>1
<1> QED BY <1>2, StorageInvariant, PTL DEF Spec, NothingOverwritten

-----------------------------------------------------------------------------
(* The refinement: every step of the contexts and the storages is a step of *)
(* AtomicProperties, or none.                                               *)

\* Copied changes at one place, or not at all.
LEMMA CopiedAt ==
    ASSUME NEW o \in Operations, NEW i \in Instances,
           \A p \in Operations, j \in Instances :
              (p # o \/ j # i) => Copy(p, j)' = Copy(p, j)
    PROVE  Copied' = [Copied EXCEPT ![o][i] = Copy(o, i)']
BY DEF Copied

LEMMA CopiedSame ==
    ASSUME \A p \in Operations, j \in Instances : Copy(p, j)' = Copy(p, j)
    PROVE  Copied' = Copied
BY DEF Copied

LEMMA CopyTyped ==
    ASSUME StorageInv, NEW o \in Operations, NEW i \in Instances
    PROVE  /\ Copied[o][i] = Copy(o, i)
           /\ cached[o][i] = NotRead => Copy(o, i) = NotRead
           /\ cached[o][i] # NotRead =>
                 /\ Copy(o, i) \in [read : Properties, edited : Properties]
                 /\ Copy(o, i) # NotRead
           /\ (call[o] = NoCall /\ cached[o][i] # NotRead) =>
                 Copy(o, i) = [read |-> cached[o][i].base,
                               edited |-> cached[o][i].properties]
<1>1. Copied[o][i] = Copy(o, i)
  BY DEF Copied
<1>2. ASSUME cached[o][i] # NotRead
      PROVE  Copy(o, i) \in [read : Properties, edited : Properties]
  <2>1. cached[o][i].base \in Properties /\ cached[o][i].properties \in Properties
    BY <1>2 DEF StorageInv, TypeOK, Copies
  <2>2. call[o] # NoCall => call[o].read \in Properties /\ call[o].mine \in Properties
    BY DEF StorageInv, TypeOK, Calls
  <2> QED BY <1>2, <2>1, <2>2 DEF Copy
<1> QED BY <1>1, <1>2, ValuesAssumption DEF Copy

LEMMA OutcomesAt ==
    ASSUME NEW o \in Operations
    PROVE  Outcomes[o] = Outcome(o)
BY DEF Outcomes

\* The body of an operation, between two requests.
LEMMA EditStep ==
    ASSUME StorageInv, NEW o \in Operations, NEW i \in InContext(o),
           NEW w \in Writes[o], Edit(o, i, w[1], w[2])
    PROVE  Atomic!Edit(o, i)
<1>p. PICK p \in Evaluated(i) :
         cached' = [cached EXCEPT ![o][i] =
                      [Needed(o, i, p) EXCEPT !.properties[w[1]] = w[2],
                                              !.dirty = TRUE]]
  BY DEF Edit
<1> DEFINE n == Needed(o, i, p)
           q == [n.properties EXCEPT ![w[1]] = w[2]]
           c == [n EXCEPT !.properties = q, !.dirty = TRUE]
<1>0. i \in Instances
  BY ContextInstances
<1>1. n \in Copies /\ n # NotRead
  BY <1>0, FetchedCopies, CachedGood DEF Needed, StorageInv, GoodCopy
<1>2. q \in Properties
  <2>1. w[1] \in Keys /\ w[2] \in Values \cup {Absent}
    BY BoundsAssumption
  <2> HIDE DEF n
  <2> QED BY <1>1, <2>1 DEF Copies, Properties
<1>3. /\ cached' = [cached EXCEPT ![o][i] = c]
      /\ phase[o] = "body" /\ call[o] = NoCall
      /\ UNCHANGED <<stored, call, phase, position, raised, endpoint>>
  BY <1>p DEF Edit, Unmoved, InBody
<1>4. c \in Copies /\ c.base = n.base /\ c.properties = q
  <2> HIDE DEF n, q
  <2> QED BY <1>1, <1>2 DEF Copies
<1> HIDE DEF c
<1>5. \A u \in Operations, j \in Instances :
         cached'[u][j] = IF u = o /\ j = i THEN c ELSE cached[u][j]
  BY <1>0, <1>3 DEF StorageInv, TypeOK
<1>6. Copy(o, i)' = [read |-> n.base, edited |-> q]
  BY <1>0, <1>3, <1>4, <1>5, ValuesAssumption DEF Copy
<1>7. Copied' = [Copied EXCEPT ![o][i] = [read |-> n.base, edited |-> q]]
  <2>1. \A u \in Operations, j \in Instances :
           (u # o \/ j # i) => Copy(u, j)' = Copy(u, j)
    BY <1>0, <1>3, <1>5 DEF Copy
  <2> QED BY <1>0, <1>6, <2>1, CopiedAt
<1>8. n.base = IF Copied[o][i] = NotRead THEN p ELSE Copied[o][i].read
  <2>1. CASE cached[o][i] = NotRead
    <3>1. n.base = p
      BY <2>1 DEF Needed, Fetched
    <3>2. Copied[o][i] = NotRead
      BY <1>0, <2>1, CopyTyped
    <3> QED BY <3>1, <3>2
  <2>2. CASE cached[o][i] # NotRead
    BY <1>0, <1>3, <2>2, CopyTyped DEF Needed
  <2> QED BY <2>1, <2>2
<1>9. Outcomes[o] = "running" /\ UNCHANGED <<StoredProperties, StoredState, Outcomes>>
  BY <1>3, OutcomesAt DEF Outcome, Outcomes, StoredProperties, StoredState
<1> HIDE DEF n, q
<1>10. Copied' = [Copied EXCEPT ![o][i] =
             [read |-> IF @ = NotRead THEN p ELSE @.read,
              edited |-> q]]
  BY <1>7, <1>8
<1>11. p \in Atomic!Readings(StoredProperties[i])
  BY <1>0, EvaluatedRead DEF StorageInv
<1> QED BY <1>2, <1>9, <1>10, <1>11 DEF Atomic!Edit, Atomic!Properties, Properties

LEMMA RefreshStep ==
    ASSUME StorageInv, NEW o \in Operations, NEW i \in InContext(o),
           NEW force \in BOOLEAN, Refresh(o, i, force)
    PROVE  Atomic!Doom(o) \/ Atomic!Read(o, i)
<1>0. i \in Instances
  BY ContextInstances
<1>1. /\ phase[o] = "body" /\ call[o] = NoCall /\ cached[o][i] # NotRead
      /\ UNCHANGED <<stored, call, endpoint, StoredProperties, StoredState>>
      /\ Outcomes[o] = "running"
  BY OutcomesAt DEF Refresh, InBody, StoredProperties, StoredState, Outcome
<1>2. CASE Dirty(o, i) /\ ~force
  <2>1. Ending(o, TRUE) /\ UNCHANGED cached
    BY <1>2 DEF Refresh
  <2>2. Copied' = Copied
    BY <1>1, <2>1 DEF Copied, Copy
  <2>3. Outcomes' = [Outcomes EXCEPT ![o] = "failing"]
    BY <1>1, <2>1 DEF StorageInv, TypeOK, Ending, Outcomes, Outcome
  <2> QED BY <1>1, <2>2, <2>3 DEF Atomic!Doom
<1>3. CASE ~(Dirty(o, i) /\ ~force)
  <2>1. PICK p \in Evaluated(i) :
           /\ cached' = [cached EXCEPT ![o][i] = Fetched(i, p)]
           /\ UNCHANGED <<phase, position, raised>>
    BY <1>3 DEF Refresh
  <2>2. \A u \in Operations, j \in Instances :
           cached'[u][j] = IF u = o /\ j = i THEN Fetched(i, p) ELSE cached[u][j]
    BY <1>0, <2>1 DEF StorageInv, TypeOK
  <2>8. /\ Fetched(i, p) # NotRead
        /\ Fetched(i, p).base = p /\ Fetched(i, p).properties = p
    BY <1>0, FetchedCopies DEF StorageInv
  <2>3. Copy(o, i)' = [read |-> p, edited |-> p]
    BY <1>0, <1>1, <2>2, <2>8 DEF Copy
  <2>4. \A u \in Operations, j \in Instances :
           (u # o \/ j # i) => Copy(u, j)' = Copy(u, j)
    BY <1>1, <2>2 DEF Copy
  <2>5. Copied' = [Copied EXCEPT ![o][i] = [read |-> p, edited |-> p]]
    BY <1>0, <2>3, <2>4, CopiedAt
  <2>6. Outcomes' = Outcomes
    BY <2>1 DEF Outcomes, Outcome
  <2>7. [read |-> p, edited |-> p] \in Atomic!Present(i)
    BY <1>0, EvaluatedRead DEF Atomic!Present, StorageInv
  <2> QED BY <1>1, <2>5, <2>6, <2>7 DEF Atomic!Read
<1> QED BY <1>2, <1>3

LEMMA RequestStep ==
    ASSUME StorageInv, NEW o \in Operations, NEW i \in Instances,
           NEW merge \in BOOLEAN, call[o] = NoCall, Dirty(o, i),
           Request(o, i, merge, cached[o][i]),
           UNCHANGED <<stored, cached, phase, raised>>
    PROVE  UNCHANGED Atomic!vars
<1> DEFINE r == [instance |-> i, merge |-> merge, read |-> cached[o][i].base,
                 mine |-> cached[o][i].properties]
<1>1. /\ \A p \in Operations : call'[p] = IF p = o THEN r ELSE call[p]
      /\ cached[o][i] # NotRead
  BY DEF StorageInv, TypeOK, Request, Dirty
<1>2. Copied' = Copied
  <2> SUFFICES ASSUME NEW p \in Operations, NEW j \in Instances
               PROVE  Copy(p, j)' = Copy(p, j)
    BY CopiedSame
  <2> QED BY <1>1 DEF Copy
<1>3. UNCHANGED <<StoredProperties, StoredState, Outcomes>>
  BY DEF StoredProperties, StoredState, Outcomes, Outcome
<1> QED BY <1>2, <1>3 DEF Atomic!vars

LEMMA ReleaseStep ==
    ASSUME StorageInv, NEW o \in Operations, NEW i \in Instances,
           call[o] = NoCall, phase[o] \in {"body", "ending"}, ~Dirty(o, i),
           cached' = [cached EXCEPT ![o][i] = NotRead],
           UNCHANGED <<stored, call, phase, raised>>
    PROVE  Atomic!Release(o, i)
<1>1. \A p \in Operations, j \in Instances :
         cached'[p][j] = IF p = o /\ j = i THEN NotRead ELSE cached[p][j]
  BY DEF StorageInv, TypeOK
<1>2. Copied' = [Copied EXCEPT ![o][i] = NotRead]
  <2>1. Copy(o, i)' = NotRead
    BY <1>1 DEF Copy
  <2>2. \A p \in Operations, j \in Instances :
           (p # o \/ j # i) => Copy(p, j)' = Copy(p, j)
    BY <1>1 DEF Copy
  <2> QED BY <2>1, <2>2, CopiedAt
<1>3. Atomic!Clean(Copied[o][i])
  <2>1. cached[o][i] # NotRead => cached[o][i].base = cached[o][i].properties
    BY DEF Dirty, StorageInv, CleanIsUnchanged
  <2> QED BY <2>1, CopyTyped DEF Atomic!Clean
<1>4. Atomic!Running(o)
  BY OutcomesAt DEF Atomic!Running, Outcome
<1>5. UNCHANGED <<StoredProperties, StoredState, Outcomes>>
  BY DEF StoredProperties, StoredState, Outcomes, Outcome
<1> QED BY <1>2, <1>3, <1>4, <1>5 DEF Atomic!Release

LEMMA BodyEndsStep ==
    ASSUME StorageInv, NEW o \in Operations, NEW error \in BOOLEAN,
           BodyEnds(o, error)
    PROVE  Atomic!Doom(o) \/ UNCHANGED Atomic!vars
<1>1. /\ phase[o] = "body" /\ Ending(o, error)
      /\ UNCHANGED <<stored, cached, call>>
  BY DEF BodyEnds, InBody
<1>2. UNCHANGED <<StoredProperties, StoredState, Copied>>
  BY <1>1 DEF StoredProperties, StoredState, Copied, Copy
<1>3. CASE error
  <2>1. Outcomes[o] = "running" /\ Outcomes' = [Outcomes EXCEPT ![o] = "failing"]
    BY <1>1, <1>3 DEF StorageInv, TypeOK, Ending, Outcomes, Outcome
  <2> QED BY <1>2, <2>1 DEF Atomic!Doom
<1>4. CASE ~error
  <2>1. Outcomes' = Outcomes
    BY <1>1, <1>4 DEF StorageInv, TypeOK, Ending, Outcomes, Outcome
  <2> QED BY <1>2, <2>1 DEF Atomic!vars
<1> QED BY <1>3, <1>4

\* An operation's context goes: what is left of its copies is none.
LEMMA ContextGone ==
    ASSUME StorageInv, NEW o \in Operations, NEW how \in {"done", "failed"},
           Ended(o, how), call' \in {call, [call EXCEPT ![o] = NoCall]}
    PROVE  /\ Copied' = [Copied EXCEPT ![o] = [i \in Instances |-> NotRead]]
           /\ Outcomes' = [Outcomes EXCEPT ![o] = how]
<1>1. \A p \in Operations : p # o => cached'[p] = cached[p] /\ call'[p] = call[p]
  BY DEF StorageInv, TypeOK, Ended
<1>2. \A j \in Instances : cached'[o][j] = NotRead
  BY DEF StorageInv, TypeOK, Ended
<1>3. \A p \in Operations, j \in Instances :
         Copy(p, j)' = IF p = o THEN NotRead ELSE Copy(p, j)
  BY <1>1, <1>2 DEF Copy
<1>4. Copied' = [Copied EXCEPT ![o] = [i \in Instances |-> NotRead]]
  BY <1>3 DEF Copied
<1>5. Outcomes' = [Outcomes EXCEPT ![o] = how]
  BY DEF StorageInv, TypeOK, Ended, Outcomes, Outcome
<1> QED BY <1>4, <1>5

LEMMA EndStep ==
    ASSUME StorageInv, NEW o \in Operations, End(o)
    PROVE  Atomic!Finish(o) \/ Atomic!Fail(o)
<1>1. /\ phase[o] = "ending" /\ call[o] = NoCall
      /\ position[o] \notin DOMAIN Contexts[o]
      /\ Ended(o, IF raised[o] THEN "failed" ELSE "done")
      /\ UNCHANGED <<stored, call>>
  BY DEF End
<1>2. UNCHANGED <<StoredProperties, StoredState>>
  BY <1>1 DEF StoredProperties, StoredState
<1>3. CASE raised[o]
  <2>1. /\ Copied' = [Copied EXCEPT ![o] = [i \in Instances |-> NotRead]]
        /\ Outcomes' = [Outcomes EXCEPT ![o] = "failed"]
    BY <1>1, <1>3, ContextGone
  <2>2. Atomic!Running(o)
    BY <1>1, <1>3, OutcomesAt DEF Atomic!Running, Outcome
  <2> QED BY <1>2, <2>1, <2>2 DEF Atomic!Fail
<1>4. CASE ~raised[o]
  <2>1. /\ Copied' = [Copied EXCEPT ![o] = [i \in Instances |-> NotRead]]
        /\ Outcomes' = [Outcomes EXCEPT ![o] = "done"]
    BY <1>1, <1>4, ContextGone
  <2>2. Outcomes[o] = "running"
    BY <1>1, <1>4, OutcomesAt DEF Outcome
  <2>3. ASSUME NEW i \in Instances PROVE Atomic!Clean(Copied[o][i])
    <3>1. ASSUME NEW n \in DOMAIN Contexts[o] PROVE n < position[o]
      <4>1. /\ Contexts[o] \in Seq(Instances) /\ position[o] \in Nat \ {0}
        BY ContextsAssumption DEF StorageInv, TypeOK
      <4>2. /\ DOMAIN Contexts[o] = 1..Len(Contexts[o]) /\ Len(Contexts[o]) \in Nat
        BY <4>1
      <4> QED BY <1>1, <4>1, <4>2
    <3>2. cached[o][i] = NotRead
      BY <1>1, <3>1 DEF StorageInv, CopiesAreStored, InContext
    <3> QED BY <3>2, CopyTyped DEF Atomic!Clean
  <2> QED BY <1>2, <2>1, <2>2, <2>3 DEF Atomic!Finish
<1> QED BY <1>3, <1>4

LEMMA RunAgainStep ==
    ASSUME StorageInv, NEW o \in Operations, RunAgain(o)
    PROVE  Atomic!Retry(o)
<1>1. UNCHANGED <<StoredProperties, StoredState, Copied>>
  BY DEF RunAgain, StoredProperties, StoredState, Copied, Copy
<1>2. Outcomes[o] = "failed" /\ Outcomes' = [Outcomes EXCEPT ![o] = "running"]
  BY DEF StorageInv, TypeOK, RunAgain, Outcomes, Outcome
<1> QED BY <1>1, <1>2 DEF Atomic!Retry

LEMMA SetStateStep ==
    ASSUME StorageInv, NEW i \in Instances, NEW t \in States, SetState(i, t)
    PROVE  Atomic!SetState(i)
<1>1. /\ StoredState' = [StoredState EXCEPT ![i] = t]
      /\ StoredProperties' = StoredProperties
  BY DEF SetState, StorageInv, TypeOK, StoredState, StoredProperties
<1>2. UNCHANGED <<Copied, Outcomes>>
  BY DEF SetState, Copied, Copy, Outcomes, Outcome
<1> QED BY <1>1, <1>2 DEF Atomic!SetState

\* Storing a copy is a commit of what was read, or a merge into what is there.
LEMMA WrittenStep ==
    ASSUME StorageInv, NEW o \in Operations, call[o] # NoCall, Current(o),
           stored' = Written(o), UNCHANGED <<phase, raised>>,
           Copied' \in {Copied, [Copied EXCEPT ![o][call[o].instance] = NotRead]}
    PROVE  LET i == call[o].instance IN Atomic!Commit(o, i) \/ Atomic!Merge(o, i)
<1> DEFINE i == call[o].instance
           c == cached[o][i]
<1>1. /\ call[o] \in Calls /\ i \in Instances /\ c \in Copies /\ c # NotRead
      /\ c.base \in Evaluated(i)
      /\ stored' = [stored EXCEPT ![i] =
                      [version |-> stored[i].version + 1,
                       properties |-> c.properties, state |-> stored[i].state]]
  BY CallMade, WrittenState
<1>2. /\ StoredProperties' = [StoredProperties EXCEPT ![i] = c.properties]
      /\ StoredState' = StoredState
      /\ c.base \in Atomic!Readings(StoredProperties[i])
  <2> HIDE DEF i, c
  <2>1. \A j \in Instances :
           /\ stored'[j].properties = IF j = i THEN c.properties
                                              ELSE stored[j].properties
           /\ stored'[j].state = stored[j].state
    BY <1>1 DEF StorageInv, TypeOK
  <2>2. StoredProperties' = [StoredProperties EXCEPT ![i] = c.properties]
    BY <1>1, <2>1 DEF StoredProperties
  <2>3. StoredState' = StoredState
    BY <2>1 DEF StoredState
  <2>4. c.base \in Atomic!Readings(StoredProperties[i])
    BY <1>1, EvaluatedRead DEF StorageInv
  <2> QED BY <2>2, <2>3, <2>4
<1> HIDE DEF c
<1>3. Outcomes' = Outcomes
  BY DEF Outcomes, Outcome
<1>4. Atomic!Stored(o, i)
  BY <1>2, <1>3 DEF Atomic!Stored
<1>5. Atomic!Running(o)
  BY OutcomesAt DEF Atomic!Running, Outcome, StorageInv, CallsAreMade
<1>6. Copied[o][i] # NotRead /\ Copied[o][i] = Copy(o, i)
  BY <1>1, CopyTyped DEF c
<1>7. CASE Copied[o][i].read = c.base /\ Copied[o][i].edited = c.properties
  BY <1>2, <1>4, <1>5, <1>6, <1>7 DEF Atomic!Commit
<1>8. CASE ~(Copied[o][i].read = c.base /\ Copied[o][i].edited = c.properties)
  <2>1. call[o].merge /\ Copied[o][i] = [read |-> call[o].read, edited |-> call[o].mine]
    BY <1>1, <1>6, <1>8 DEF Copy, c
  <2>2. /\ Mergeable(call[o].mine, c.base)
        /\ c.properties = Merged(call[o].mine, c.base)
    BY <1>8, <2>1 DEF StorageInv, CallsAreMade, c
  <2>3. /\ Atomic!Mergeable(Copied[o][i].edited, c.base)
        /\ c.properties = Atomic!Merged(Copied[o][i].edited, c.base)
    BY <1>2, <2>1, <2>2
    DEF Mergeable, Merged, Atomic!Mergeable, Atomic!Merged
  <2> QED BY <1>2, <1>4, <1>5, <1>6, <2>3 DEF Atomic!Merge
<1> QED BY <1>7, <1>8

\* The request is over and the copy is c: the mapped copies follow.
LEMMA RequestOver ==
    ASSUME StorageInv, NEW o \in Operations, NEW i \in Instances,
           i = call[o].instance,
           NEW c, cached' = [cached EXCEPT ![o][i] = c],
           call' = [call EXCEPT ![o] = NoCall]
    PROVE  /\ c = NotRead => Copied' = [Copied EXCEPT ![o][i] = NotRead]
           /\ c # NotRead =>
                 Copied' = [Copied EXCEPT ![o][i] =
                              [read |-> c.base, edited |-> c.properties]]
<1>1. /\ \A p \in Operations, j \in Instances :
            cached'[p][j] = IF p = o /\ j = i THEN c ELSE cached[p][j]
      /\ \A p \in Operations : call'[p] = IF p = o THEN NoCall ELSE call[p]
  BY DEF StorageInv, TypeOK
<1>2. \A p \in Operations, j \in Instances :
         (p # o \/ j # i) => Copy(p, j)' = Copy(p, j)
  BY <1>1 DEF Copy
<1>3. cached'[o][i] = c /\ call'[o] = NoCall
  BY <1>1
<1>4. CASE c = NotRead
  <2>1. Copy(o, i)' = NotRead
    BY <1>3, <1>4 DEF Copy
  <2> QED BY <1>2, <1>4, <2>1 DEF Copied
<1>5. CASE c # NotRead
  <2> DEFINE d == [read |-> c.base, edited |-> c.properties]
  <2>1. Copy(o, i)' = d
    BY <1>3, <1>5 DEF Copy
  <2> HIDE DEF d
  <2>2. Copied' = [Copied EXCEPT ![o][i] = d]
    BY <1>2, <2>1 DEF Copied
  <2> QED BY <1>5, <2>2 DEF d
<1> QED BY <1>4, <1>5

LEMMA AcceptStep ==
    ASSUME StorageInv, NEW o \in Operations, Accept(o)
    PROVE  \E i \in Instances : Atomic!Commit(o, i) \/ Atomic!Merge(o, i)
<1>1. /\ call[o] # NoCall /\ Current(o) /\ stored' = Written(o)
      /\ cached' = [cached EXCEPT ![o][call[o].instance] = NotRead]
      /\ call' = [call EXCEPT ![o] = NoCall]
      /\ UNCHANGED <<phase, raised>>
  BY DEF Accept
<1>2. PICK i \in Instances : i = call[o].instance
  BY <1>1, CallMade
<1>3. cached' = [cached EXCEPT ![o][i] = NotRead]
  BY <1>1, <1>2
<1>4. Copied' = [Copied EXCEPT ![o][i] = NotRead]
  BY <1>1, <1>2, <1>3, RequestOver
<1> QED BY <1>1, <1>2, <1>4, WrittenStep

LEMMA AcceptUnansweredStep ==
    ASSUME StorageInv, NEW o \in Operations, AcceptUnanswered(o)
    PROVE  \E i \in Instances : Atomic!Commit(o, i) \/ Atomic!Merge(o, i)
<1>1. /\ call[o] # NoCall /\ Current(o) /\ stored' = Written(o)
      /\ UNCHANGED <<cached, call, phase, raised>>
  BY DEF AcceptUnanswered
<1>2. Copied' = Copied
  BY <1>1 DEF Copied, Copy
<1> QED BY <1>1, <1>2, CallMade, WrittenStep

\* An exception of update() dooms the operation, or fails it in finally.
LEMMA RaiseStep ==
    ASSUME StorageInv, NEW o \in Operations, call[o] # NoCall, NEW c,
           \/ c = cached[o][call[o].instance]
           \/ \E p \in Evaluated(call[o].instance) :
                 c = Fetched(call[o].instance, p),
           Raise(o, c), UNCHANGED stored
    PROVE  Atomic!Doom(o) \/ Atomic!Fail(o)
<1>i. PICK i \in Instances : i = call[o].instance
  BY CallMade
<1>1. UNCHANGED <<StoredProperties, StoredState>>
  BY DEF StoredProperties, StoredState
<1>2. /\ call[o] \in Calls /\ i \in Instances /\ cached[o][i] \in Copies
      /\ cached[o][i] # NotRead /\ phase[o] \in {"body", "ending"}
  BY <1>i, CallMade DEF StorageInv, CallsAreMade
<1>3. CASE phase[o] = "body"
  <2>1. /\ call' = [call EXCEPT ![o] = NoCall] /\ Ending(o, TRUE)
        /\ cached' = [cached EXCEPT ![o][i] = c]
    BY <1>i, <1>3 DEF Raise
  <2>2. Outcomes[o] = "running" /\ Outcomes' = [Outcomes EXCEPT ![o] = "failing"]
    BY <1>3, <2>1 DEF StorageInv, TypeOK, Ending, Outcomes, Outcome
  <2>3. c \in Copies /\ c # NotRead
    <3>1. TypeOK
      BY DEF StorageInv
    <3>2. ASSUME NEW p \in Evaluated(i) PROVE Fetched(i, p) \in Copies /\ Fetched(i, p) # NotRead
      BY <1>2, <3>1, FetchedCopies
    <3>3. c = cached[o][i] \/ \E p \in Evaluated(i) : c = Fetched(i, p)
      BY <1>i
    <3> QED BY <1>2, <3>2, <3>3
  <2>4. /\ \A u \in Operations, j \in Instances :
              cached'[u][j] = IF u = o /\ j = i THEN c ELSE cached[u][j]
        /\ \A p \in Operations : call'[p] = IF p = o THEN NoCall ELSE call[p]
    BY <1>2, <2>1 DEF StorageInv, TypeOK
  <2>5. \A p \in Operations, j \in Instances :
           (p # o \/ j # i) => Copy(p, j)' = Copy(p, j)
    BY <1>i, <2>4 DEF Copy
  <2>7. Copied' = [Copied EXCEPT ![o][i] = [read |-> c.base, edited |-> c.properties]]
    BY <1>i, <2>1, <2>3, RequestOver
  <2>8. CASE \E p \in Evaluated(i) : c = Fetched(i, p)
    <3>1. PICK p \in Evaluated(i) : c = Fetched(i, p)
      BY <2>8
    <3>2. [read |-> c.base, edited |-> c.properties] \in Atomic!Present(i)
      <4>1. TypeOK
        BY DEF StorageInv
      <4>2. c.base = p /\ c.properties = p
        BY <1>2, <3>1, <4>1, FetchedCopies
      <4>3. p \in Atomic!Readings(StoredProperties[i])
        BY <1>2, <4>1, EvaluatedRead
      <4> QED BY <4>2, <4>3 DEF Atomic!Present
    <3> QED BY <1>1, <1>2, <2>2, <2>7, <3>2 DEF Atomic!Doom
  <2>9. CASE c = cached[o][i]
    <3>1. CASE Copy(o, i) = [read |-> c.base, edited |-> c.properties]
      <4>1. Copied' = Copied
        <5>1. Copy(o, i)' = Copy(o, i)
          <6>1. cached'[o][i] = c /\ call'[o] = NoCall
            BY <2>4
          <6> QED BY <2>3, <3>1, <6>1 DEF Copy
        <5>2. \A p \in Operations, j \in Instances : Copy(p, j)' = Copy(p, j)
          <6> TAKE p \in Operations, j \in Instances
          <6>1. CASE p = o /\ j = i
            BY <5>1, <6>1
          <6>2. CASE p # o \/ j # i
            BY <2>5, <6>2
          <6> QED BY <6>1, <6>2
        <5> QED BY <5>2, CopiedSame
      <4> QED BY <1>1, <2>2, <4>1 DEF Atomic!Doom
    <3>2. CASE Copy(o, i) # [read |-> c.base, edited |-> c.properties]
      <4>1. call[o].merge /\ Copy(o, i) = [read |-> call[o].read, edited |-> call[o].mine]
        BY <1>i, <1>2, <2>9, <3>2 DEF Copy
      <4>2. /\ Mergeable(call[o].mine, c.base)
            /\ c.properties = Merged(call[o].mine, c.base)
        BY <1>i, <1>2, <2>9, <3>2, <4>1 DEF StorageInv, CallsAreMade
      <4>3. Copied[o][i] = [read |-> call[o].read, edited |-> call[o].mine]
            /\ Copied[o][i] # NotRead
        BY <1>2, <4>1, CopyTyped
      <4>4. /\ Atomic!Mergeable(Copied[o][i].edited, c.base)
            /\ c.properties = Atomic!Merged(Copied[o][i].edited, c.base)
        BY <4>2, <4>3 DEF Mergeable, Merged, Atomic!Mergeable, Atomic!Merged
      <4>5. c.base \in Atomic!Properties
        BY <2>3 DEF Copies, Properties, Atomic!Properties
      <4>6. Copied' = [Copied EXCEPT ![o][i] =
                [read |-> c.base,
                 edited |-> Atomic!Merged(Copied[o][i].edited, c.base)]]
        BY <2>7, <4>4
      <4>7. Copied' = [Copied EXCEPT ![o][i] =
                [read |-> c.base,
                 edited |-> Atomic!Merged(@.edited, c.base)]]
        BY <4>6
      <4> QED BY <1>1, <1>2, <2>2, <4>3, <4>4, <4>5, <4>7 DEF Atomic!Doom
    <3> QED BY <3>1, <3>2
  <2> QED BY <1>i, <2>8, <2>9
<1>4. CASE phase[o] = "ending"
  <2>1. call' = [call EXCEPT ![o] = NoCall] /\ Ended(o, "failed")
    BY <1>4 DEF Raise
  <2>2. /\ Copied' = [Copied EXCEPT ![o] = [j \in Instances |-> NotRead]]
        /\ Outcomes' = [Outcomes EXCEPT ![o] = "failed"]
    BY <2>1, ContextGone
  <2>3. Atomic!Running(o)
    BY <1>4, OutcomesAt DEF Atomic!Running, Outcome
  <2> QED BY <1>1, <2>2, <2>3 DEF Atomic!Fail
<1> QED BY <1>2, <1>3, <1>4

LEMMA RefuseStep ==
    ASSUME StorageInv, NEW o \in Operations, Refuse(o)
    PROVE  UNCHANGED Atomic!vars \/ Atomic!Doom(o) \/ Atomic!Fail(o)
<1> DEFINE i == call[o].instance
           mine == call[o].mine
           merging == call[o].merge /\ endpoint = "manager"
<1>1. /\ call[o] # NoCall /\ i \in Instances /\ cached[o][i] # NotRead
      /\ UNCHANGED stored
  BY CallMade DEF Refuse
<1>2. ASSUME NEW p \in Evaluated(i), Mergeable(mine, p), merging,
             cached' = [cached EXCEPT ![o][i] =
                          [Fetched(i, p) EXCEPT !.properties = Merged(mine, p),
                                                !.dirty = TRUE]],
             UNCHANGED <<call, phase, position, raised>>
      PROVE  UNCHANGED Atomic!vars
  <2> DEFINE c == [Fetched(i, p) EXCEPT !.properties = Merged(mine, p),
                                        !.dirty = TRUE]
  <2>1. /\ cached' = [cached EXCEPT ![o][i] = c]
        /\ UNCHANGED <<call, phase, position, raised>>
    BY <1>2
  <2>2. c # NotRead
    <3>1. Merged(mine, p) \in Properties
      BY <1>1, MergedProperties, EvaluatedRead, CallMade DEF StorageInv, TypeOK, Calls
    <3>2. Fetched(i, p) \in Copies
      BY <1>1, FetchedCopies DEF StorageInv
    <3>3. c \in Copies
      <4> HIDE DEF i, mine
      <4> QED BY <3>1, <3>2 DEF Copies
    <3> HIDE DEF c
    <3> QED BY <3>3, ValuesAssumption
  <2> HIDE DEF c
  <2>3. \A u \in Operations, j \in Instances :
           cached'[u][j] = IF u = o /\ j = i THEN c ELSE cached[u][j]
    BY <1>1, <2>1 DEF StorageInv, TypeOK
  <2>4. Copied' = Copied
    <3> SUFFICES ASSUME NEW u \in Operations, NEW j \in Instances
                 PROVE  Copy(u, j)' = Copy(u, j)
      BY CopiedSame
    <3> QED BY <1>1, <1>2, <2>1, <2>2, <2>3 DEF Copy
  <2>5. UNCHANGED <<StoredProperties, StoredState, Outcomes>>
    BY <1>1, <2>1 DEF StoredProperties, StoredState, Outcomes, Outcome
  <2> QED BY <2>4, <2>5 DEF Atomic!vars
<1>3. CASE merging
  <2>1. PICK p \in Evaluated(i) :
           IF Mergeable(mine, p)
             THEN /\ cached' = [cached EXCEPT ![o][i] =
                       [Fetched(i, p) EXCEPT !.properties = Merged(mine, p),
                                             !.dirty = TRUE]]
                  /\ UNCHANGED <<call, phase, position, raised>>
             ELSE Raise(o, Fetched(i, p))
    BY <1>3 DEF Refuse
  <2>2. CASE Raise(o, Fetched(i, p))
    BY <1>1, <2>2, RaiseStep
  <2> QED BY <1>2, <1>3, <2>1, <2>2
<1>4. CASE ~merging
  <2>1. Raise(o, cached[o][i])
    BY <1>4 DEF Refuse
  <2> QED BY <1>1, <2>1, RaiseStep
<1> QED BY <1>3, <1>4

LEMMA UnavailableStep ==
    ASSUME StorageInv, NEW o \in Operations, Unavailable(o)
    PROVE  Atomic!Doom(o) \/ Atomic!Fail(o)
BY RaiseStep DEF Unavailable

LEMMA EndingUpdateStep ==
    ASSUME StorageInv, NEW o \in Operations, EndingUpdate(o)
    PROVE  \/ UNCHANGED Atomic!vars
           \/ \E i \in Instances : Atomic!Release(o, i)
<1> DEFINE i == Contexts[o][position[o]]
<1>1. /\ phase[o] = "ending" /\ call[o] = NoCall
      /\ position[o] \in DOMAIN Contexts[o]
      /\ UNCHANGED <<stored, phase, raised>>
  BY DEF EndingUpdate
<1>2. i \in Instances
  BY <1>1, ContextInstances DEF InContext
<1>3. CASE Dirty(o, i)
  <2>1. Request(o, i, FALSE, cached[o][i]) /\ UNCHANGED cached
    BY <1>3 DEF EndingUpdate
  <2> HIDE DEF i
  <2> QED BY <1>1, <1>2, <1>3, <2>1, RequestStep
<1>4. CASE ~Dirty(o, i)
  <2>1. cached' = [cached EXCEPT ![o][i] = NotRead] /\ UNCHANGED call
    BY <1>4 DEF EndingUpdate
  <2> HIDE DEF i
  <2> QED BY <1>1, <1>2, <1>4, <2>1, ReleaseStep
<1> QED BY <1>3, <1>4

LEMMA UpdateInBodyStep ==
    ASSUME StorageInv, NEW o \in Operations, NEW i \in InContext(o),
           UpdateInBody(o, i)
    PROVE  UNCHANGED Atomic!vars \/ Atomic!Release(o, i)
<1>1. /\ phase[o] = "body" /\ call[o] = NoCall /\ i \in Instances
      /\ UNCHANGED <<stored, phase, raised>>
  BY ContextInstances DEF UpdateInBody, Unmoved, InBody
<1>2. CASE Dirty(o, i)
  <2>1. Request(o, i, FALSE, cached[o][i]) /\ UNCHANGED cached
    BY <1>2 DEF UpdateInBody
  <2> QED BY <1>1, <1>2, <2>1, RequestStep
<1>3. CASE ~Dirty(o, i)
  <2>1. cached' = [cached EXCEPT ![o][i] = NotRead] /\ UNCHANGED call
    BY <1>3 DEF UpdateInBody
  <2> QED BY <1>1, <1>3, <2>1, ReleaseStep
<1> QED BY <1>2, <1>3

LEMMA UpdateMergingStep ==
    ASSUME StorageInv, NEW o \in Operations, NEW i \in InContext(o),
           UpdateMerging(o, i)
    PROVE  UNCHANGED Atomic!vars
<1>1. /\ call[o] = NoCall /\ i \in Instances /\ Dirty(o, i)
      /\ Request(o, i, TRUE, cached[o][i])
      /\ UNCHANGED <<stored, cached, phase, raised>>
  BY ContextInstances DEF UpdateMerging, Unmoved, InBody
<1> QED BY <1>1, RequestStep

\* Operations that share instances store as AtomicProperties says: each copy
\* at once, over what was read or merged into what is there, and an operation
\* is done only with all of it stored.
THEOREM Refinement == Spec => ImplementsAtomic
<1>1. Init => Atomic!Init
  <2> SUFFICES ASSUME Init PROVE Atomic!Init
    OBVIOUS
  <2>1. StorageInv
    BY InitInv
  <2>2. \A o \in Operations, i \in Instances : Copy(o, i) = NotRead
    BY DEF Init, Copy
  <2>3. Copied = [o \in Operations |-> [i \in Instances |-> NotRead]]
    BY <2>2 DEF Copied
  <2>4. Outcomes = [o \in Operations |-> "running"]
    BY DEF Init, Outcomes, Outcome
  <2>5. /\ StoredProperties \in [Instances -> Atomic!Properties]
        /\ StoredState \in [Instances -> States]
    BY <2>1 DEF StorageInv, TypeOK, StoredProperties, StoredState,
                Atomic!Properties, Properties
  <2> QED BY <2>3, <2>4, <2>5 DEF Atomic!Init
<1>2. StorageInv /\ [Next]_vars => [Atomic!Next]_(Atomic!vars)
  <2> SUFFICES ASSUME StorageInv, [Next]_vars
               PROVE  Atomic!Next \/ UNCHANGED Atomic!vars
    OBVIOUS
  <2>1. ASSUME NEW o \in Operations, Body(o)
        PROVE  Atomic!Next \/ UNCHANGED Atomic!vars
    <3>1. ASSUME NEW i \in InContext(o), NEW w \in Writes[o], Edit(o, i, w[1], w[2])
          PROVE  Atomic!Next
      BY <3>1, EditStep, ContextInstances DEF Atomic!Next
    <3>2. ASSUME NEW i \in InContext(o), NEW force \in BOOLEAN, Refresh(o, i, force)
          PROVE  Atomic!Next
      BY <3>2, RefreshStep, ContextInstances DEF Atomic!Next
    <3>3. ASSUME NEW i \in InContext(o), UpdateInBody(o, i)
          PROVE  Atomic!Next \/ UNCHANGED Atomic!vars
      BY <3>3, UpdateInBodyStep, ContextInstances DEF Atomic!Next
    <3>4. ASSUME NEW i \in InContext(o), UpdateMerging(o, i)
          PROVE  UNCHANGED Atomic!vars
      BY <3>4, UpdateMergingStep
    <3>5. ASSUME NEW error \in BOOLEAN, BodyEnds(o, error)
          PROVE  Atomic!Next \/ UNCHANGED Atomic!vars
      BY <3>5, BodyEndsStep DEF Atomic!Next
    <3> QED BY <2>1, <3>1, <3>2, <3>3, <3>4, <3>5 DEF Body
  <2>2. ASSUME NEW o \in Operations, Storage(o)
        PROVE  Atomic!Next \/ UNCHANGED Atomic!vars
    BY <2>2, AcceptStep, AcceptUnansweredStep, RefuseStep, UnavailableStep
    DEF Storage, Atomic!Next
  <2>3. ASSUME NEW o \in Operations, EndingUpdate(o)
        PROVE  Atomic!Next \/ UNCHANGED Atomic!vars
    BY <2>3, EndingUpdateStep DEF Atomic!Next
  <2>4. ASSUME NEW o \in Operations, End(o) \/ RunAgain(o) PROVE Atomic!Next
    BY <2>4, EndStep, RunAgainStep DEF Atomic!Next
  <2>5. ASSUME NEW i \in Instances, NEW t \in States, SetState(i, t) PROVE Atomic!Next
    BY <2>5, SetStateStep DEF Atomic!Next
  <2>6. CASE UNCHANGED vars
    BY <2>6 DEF vars, Atomic!vars, StoredProperties, StoredState, Copied, Copy,
                Outcomes, Outcome
  <2> QED BY <2>1, <2>2, <2>3, <2>4, <2>5, <2>6 DEF Next
<1> QED BY <1>1, <1>2, StorageInvariant, PTL DEF Spec, ImplementsAtomic, Atomic!Spec
=============================================================================
