----------------------- MODULE BuiltinWorkflowsProofs -----------------------
(***************************************************************************)
(* Theorems about the built-in workflows, for every deployment and every   *)
(* number of workflows and failures, and about the modifications of a      *)
(* deployment that scaling makes (MultiInstance), for every plan.          *)
(*                                                                         *)
(* Of the workflows: an assertion says what is known of an instance: its   *)
(* state, what is sure to be in force and what may be. Each plan is shown  *)
(* to lead from what the state it was made for says to what its graph is   *)
(* for, with the state true at every task in between (Works). The          *)
(* inductive invariant is that the tasks which are left of each plan still *)
(* do, and that what the state of an intact instance says is so.           *)
(***************************************************************************)
EXTENDS BuiltinWorkflows, MultiInstance, FiniteSetTheorems, WellFoundedInduction,
        TLAPS

-----------------------------------------------------------------------------
(* Selections, by induction over the length of a sequence *)

\* Induction over the naturals, for a set: from well-foundedness.
LEMMA Induction ==
    ASSUME NEW S, 0 \in S, \A n \in Nat : n \in S => n + 1 \in S
    PROVE  \A n \in Nat : n \in S
<1> SUFFICES ASSUME NEW m \in Nat, m \notin S
             PROVE  FALSE
  OBVIOUS
<1> DEFINE below == OpToRel(<, Nat)
           T     == {n \in Nat : n \notin S}
<1>1. IsWellFoundedOn(below, Nat)
  BY NatLessThanWellFounded
<1>2. below = {p \in Nat \X Nat : p[1] < p[2]}
  BY DEF OpToRel
<1>3. T \subseteq Nat /\ T # {}
  OBVIOUS
<1> HIDE DEF below, T
<1>4. PICK x \in T : \A y \in T : <<y, x>> \notin below
  BY <1>1, <1>3, WFMin
<1>5. x \in Nat /\ x \notin S
  BY <1>4 DEF T
<1>6. x # 0 /\ x - 1 \in Nat
  BY <1>5
<1>7. <<x - 1, x>> \in below
  BY <1>2, <1>5, <1>6
<1>8. x - 1 \in S
  BY <1>4, <1>6, <1>7 DEF T
<1> QED
  BY <1>5, <1>6, <1>8

\* The equation of that function.
AmongStep(s, D, f, n) ==
    f[n] = IF n = 0 THEN <<>>
           ELSE IF s[n] \in D THEN Append(f[n - 1], s[n]) ELSE f[n - 1]

\* The function behind Among is the one its equation describes.
LEMMA AmongIsDefined ==
    ASSUME NEW s, Len(s) \in Nat, NEW D
    PROVE  \E f : /\ DOMAIN f = 0 .. Len(s)
                  /\ \A n \in 0 .. Len(s) : AmongStep(s, D, f, n)
                  /\ Among(s, D) = f[Len(s)]
<1> DEFINE Upto(f, m) == /\ f = [n \in 0 .. m |-> f[n]]
                         /\ \A n \in 0 .. m : AmongStep(s, D, f, n)
           S == {m \in Nat : \E f : Upto(f, m)}
<1>1. 0 \in S
  <2>1. Upto([n \in 0 .. 0 |-> <<>>], 0)
    BY DEF AmongStep
  <2> QED
    BY <2>1
<1>2. ASSUME NEW m \in Nat, m \in S
      PROVE  m + 1 \in S
  <2>1. PICK f : Upto(f, m)
    BY <1>2
  <2> DEFINE g == [n \in 0 .. m + 1 |->
                      IF n <= m THEN f[n]
                      ELSE IF s[n] \in D THEN Append(f[m], s[n]) ELSE f[m]]
  <2>2. \A n \in 0 .. m + 1 : AmongStep(s, D, g, n)
    <3> SUFFICES ASSUME NEW n \in 0 .. m + 1
                 PROVE  AmongStep(s, D, g, n)
      OBVIOUS
    <3>1. CASE n <= m
      BY <2>1, <3>1 DEF AmongStep
    <3>2. CASE n = m + 1
      BY <3>2 DEF AmongStep
    <3> QED
      BY <3>1, <3>2
  <2>3. g = [n \in 0 .. m + 1 |-> g[n]]
    OBVIOUS
  <2> HIDE DEF g
  <2> QED
    BY <2>2, <2>3
<1>3. \A n \in Nat : n \in S
  <2> HIDE DEF S
  <2> QED
    BY <1>1, <1>2, Induction
<1>4. PICK f : Upto(f, Len(s))
  BY <1>3
<1>5. f = [n \in 0 .. Len(s) |->
             IF n = 0 THEN <<>>
             ELSE IF s[n] \in D THEN Append(f[n - 1], s[n]) ELSE f[n - 1]]
  BY <1>4 DEF AmongStep
<1> DEFINE Rec(h) == h = [n \in 0 .. Len(s) |->
             IF n = 0 THEN <<>>
             ELSE IF s[n] \in D THEN Append(h[n - 1], s[n]) ELSE h[n - 1]]
<1>6. \E h : Rec(h)
  BY <1>5
<1>7. Rec(CHOOSE h : Rec(h))
  <2> HIDE DEF Rec
  <2> QED BY <1>6
<1>8. Among(s, D) = (CHOOSE h : Rec(h))[Len(s)]
  BY DEF Among
<1> DEFINE h == CHOOSE h : Rec(h)
<1>9. Rec(h) /\ Among(s, D) = h[Len(s)]
  BY <1>7, <1>8
<1> HIDE DEF h
<1>10. DOMAIN h = 0 .. Len(s) /\ \A n \in 0 .. Len(s) : AmongStep(s, D, h, n)
  BY <1>9 DEF AmongStep
<1> QED
  BY <1>9, <1>10

\* The selection keeps the members that are in D, and no others.
LEMMA AmongKeeps ==
    ASSUME NEW T, NEW s \in Seq(T), NEW D
    PROVE  /\ Among(s, D) \in Seq(T)
           /\ ToSet(Among(s, D)) = ToSet(s) \cap D
<1>1. PICK f : /\ DOMAIN f = 0 .. Len(s)
               /\ \A n \in 0 .. Len(s) : AmongStep(s, D, f, n)
               /\ Among(s, D) = f[Len(s)]
  BY AmongIsDefined
<1> DEFINE Good(n) == /\ f[n] \in Seq(T)
                      /\ ToSet(f[n]) = {s[k] : k \in 1 .. n} \cap D
           S == {n \in Nat : n <= Len(s) => Good(n)}
<1>2. 0 \in S
  <2>1. f[0] = <<>>
    BY <1>1 DEF AmongStep
  <2>2. 1 .. 0 = {} /\ DOMAIN <<>> = {}
    OBVIOUS
  <2>3. f[0] \in Seq(T)
    BY <2>1
  <2>4. ToSet(f[0]) = {} /\ {s[k] : k \in 1 .. 0} = {}
    <3>1. ToSet(<<>>) = {}
      BY DEF ToSet
    <3> QED
      BY <2>1, <2>2, <3>1
  <2> QED
    BY <2>3, <2>4
<1>3. ASSUME NEW n \in Nat, n \in S
      PROVE  n + 1 \in S
  <2> SUFFICES ASSUME n + 1 <= Len(s)
               PROVE  Good(n + 1)
    OBVIOUS
  <2>1. Good(n)
    BY <1>3
  <2>2. n + 1 \in 0 .. Len(s) /\ (n + 1) - 1 = n /\ n + 1 # 0
    OBVIOUS
  <2>3. f[n + 1] = IF s[n + 1] \in D THEN Append(f[n], s[n + 1]) ELSE f[n]
    BY <1>1, <2>2 DEF AmongStep
  <2>4. s[n + 1] \in T
    BY <2>2
  <2>5. f[n + 1] \in Seq(T)
    BY <2>1, <2>3, <2>4
  <2>6. {s[k] : k \in 1 .. n + 1} = {s[k] : k \in 1 .. n} \cup {s[n + 1]}
    OBVIOUS
  <2>7. ToSet(Append(f[n], s[n + 1])) = ToSet(f[n]) \cup {s[n + 1]}
    <3> DEFINE a == Append(f[n], s[n + 1])
    <3>1. /\ DOMAIN a = 1 .. Len(f[n]) + 1
          /\ DOMAIN f[n] = 1 .. Len(f[n]) /\ Len(f[n]) \in Nat
          /\ \A k \in 1 .. Len(f[n]) : a[k] = f[n][k]
          /\ a[Len(f[n]) + 1] = s[n + 1]
      BY <2>1, <2>4
    <3> HIDE DEF a
    <3> QED
      BY <3>1 DEF ToSet, a
  <2> QED
    BY <2>1, <2>3, <2>5, <2>6, <2>7
<1>4. \A n \in Nat : n \in S
  <2> HIDE DEF S
  <2> QED
    BY <1>2, <1>3, Induction
<1>5. Good(Len(s))
  <2>1. Len(s) \in Nat
    OBVIOUS
  <2>2. Len(s) \in S
    BY <1>4, <2>1
  <2> QED
    BY <2>1, <2>2
<1> QED
  BY <1>1, <1>5 DEF ToSet

-----------------------------------------------------------------------------
(* What a plan of tasks leads to *)

\* What can be in force of an instance: what an operation made, or a link.
Whats == Made \cup Instances

\* What is known of an instance at a point of its plan: its state, what is sure
\* to be in force (or is known not to be recorded), and what may be in force
\* with nobody having been told so.
Assertions == [st : States, sure : SUBSET Whats, may : SUBSET Whats]

\* What the state says is in force, what it says is not, and that both are so.
Claims(i, ts, st) ==
    (Real[i] \cap {op \in Made : \/ op = "create" /\ st \in CreatedBefore
                                 \/ op = "configure" /\ st \in ConfiguredBefore
                                 \/ op = "start" /\ st = "started"})
    \cup (IF st = "started" THEN ts ELSE {})
Denied(st) == IF st \in NotThere THEN Whats
              ELSE IF st \in NotStarted THEN {"start"} ELSE {}
Holds(i, ts, a) == /\ Claims(i, ts, a.st) \subseteq a.sure
                   /\ Denied(a.st) \cap a.may = {}
\* a is at least as well known as b.
Entails(a, b) == a.st = b.st /\ b.sure \subseteq a.sure /\ a.may \subseteq b.may

\* What a task brings about, undoes and writes over.
Gains(i, task) == CASE task.do = "establish" -> {task.what}
                    [] task.do = "operation" -> {task.what} \cap Real[i]
                    [] OTHER -> {}
Loses(task) == CASE task.do = "unlink" -> {task.what}
                 [] task.do = "operation" -> Undone(task.what)
                 [] OTHER -> {}
Exempt(kind, task) ==
    IF task \in CASE kind = "install"  -> ToSet(SetState("configured"))
                  [] kind = "rollback" ->
                       ToSet(SetState("deleting") \o SetState("uninitialized"))
                  [] OTHER -> {}
      THEN {"start"} ELSE {}
\* What is known after a task of which it was known before that a holds.
Post(i, kind, task, a) ==
    [st   |-> IF task.do = "set_state" THEN task.what ELSE a.st,
     sure |-> (a.sure \ Loses(task)) \cup Gains(i, task),
     may  |-> ((a.may \ Loses(task)) \cup Gains(i, task)) \ Exempt(kind, task)]

\* The tasks a plan of each kind of graph can be made of.
UndoTasks(ts) == [do : {"set_state"}, what : States]
                 \cup [do : {"unlink"}, what : ts]
                 \cup [do : {"operation"}, what : {"stop", "delete"}]
DoTasks(ts) == [do : {"establish"}, what : ts]
               \cup [do : {"operation"}, what : Made]
TasksOf(kind, ts) == IF kind = "install" THEN UndoTasks(ts) \cup DoTasks(ts)
                                         ELSE UndoTasks(ts)

\* The tasks s lead from a to b, and what the state says is true all the way.
Outline(i, kind, ts, a, s, b) ==
    \E c \in [0 .. Len(s) -> Assertions] :
       /\ c[0] = a /\ c[Len(s)] = b
       /\ \A k \in 0 .. Len(s) : Holds(i, ts, c[k])
       /\ \A k \in 1 .. Len(s) : Entails(Post(i, kind, s[k], c[k - 1]), c[k])

\* No tasks, one task, and the tasks of two plans one after the other.
LEMMA OutlineEmpty ==
    ASSUME NEW i, NEW kind, NEW ts, NEW a \in Assertions, Holds(i, ts, a)
    PROVE  Outline(i, kind, ts, a, <<>>, a)
<1> DEFINE c == [k \in 0 .. 0 |-> a]
<1>1. Len(<<>>) = 0 /\ 1 .. 0 = {}
  OBVIOUS
<1>2. c \in [0 .. 0 -> Assertions] /\ \A k \in 0 .. 0 : c[k] = a
  OBVIOUS
<1> HIDE DEF c
<1> QED
  BY <1>1, <1>2 DEF Outline

LEMMA OutlineOne ==
    ASSUME NEW i, NEW kind, NEW ts, NEW a \in Assertions, NEW b \in Assertions,
           NEW t, Holds(i, ts, a), Holds(i, ts, b),
           Entails(Post(i, kind, t, a), b)
    PROVE  Outline(i, kind, ts, a, <<t>>, b)
<1> DEFINE c == [k \in 0 .. 1 |-> IF k = 0 THEN a ELSE b]
           s == <<t>>
<1>1. Len(s) = 1 /\ s[1] = t
  OBVIOUS
<1>2. c \in [0 .. 1 -> Assertions] /\ c[0] = a /\ c[1] = b
  OBVIOUS
<1>3. \A k \in 0 .. 1 : k = 0 \/ k = 1
  OBVIOUS
<1>4. \A k \in 1 .. 1 : k = 1 /\ k - 1 = 0
  OBVIOUS
<1> HIDE DEF c, s
<1>5. \A k \in 0 .. 1 : Holds(i, ts, c[k])
  BY <1>2, <1>3
<1>6. \A k \in 1 .. 1 : Entails(Post(i, kind, s[k], c[k - 1]), c[k])
  BY <1>1, <1>2, <1>4
<1>7. Outline(i, kind, ts, a, s, b)
  BY <1>1, <1>2, <1>5, <1>6 DEF Outline
<1> QED
  BY <1>7 DEF s

LEMMA OutlineConcat ==
    ASSUME NEW i, NEW kind, NEW ts, NEW a, NEW b, NEW d, NEW S,
           NEW s \in Seq(S), NEW t \in Seq(S),
           Outline(i, kind, ts, a, s, b), Outline(i, kind, ts, b, t, d)
    PROVE  Outline(i, kind, ts, a, s \o t, d)
<1>1. PICK c \in [0 .. Len(s) -> Assertions] :
         /\ c[0] = a /\ c[Len(s)] = b
         /\ \A k \in 0 .. Len(s) : Holds(i, ts, c[k])
         /\ \A k \in 1 .. Len(s) : Entails(Post(i, kind, s[k], c[k - 1]), c[k])
  BY DEF Outline
<1>2. PICK e \in [0 .. Len(t) -> Assertions] :
         /\ e[0] = b /\ e[Len(t)] = d
         /\ \A k \in 0 .. Len(t) : Holds(i, ts, e[k])
         /\ \A k \in 1 .. Len(t) : Entails(Post(i, kind, t[k], e[k - 1]), e[k])
  BY DEF Outline
<1> DEFINE m == Len(s)
           n == Len(t)
           st == s \o t
           f == [k \in 0 .. m + n |-> IF k <= m THEN c[k] ELSE e[k - m]]
<1>3. /\ m \in Nat /\ n \in Nat /\ Len(st) = m + n
      /\ \A k \in 1 .. m : st[k] = s[k]
      /\ \A k \in 1 .. n : st[m + k] = t[k]
  OBVIOUS
<1>4. \A k \in 0 .. n : f[m + k] = e[k]
  <2> SUFFICES ASSUME NEW k \in 0 .. n
               PROVE  f[m + k] = e[k]
    OBVIOUS
  <2>1. CASE k = 0
    BY <1>1, <1>2, <1>3, <2>1
  <2>2. CASE k > 0
    <3>1. m + k \in 0 .. m + n /\ ~(m + k <= m) /\ (m + k) - m = k
      BY <1>3, <2>2
    <3> QED
      BY <3>1
  <2> QED
    BY <1>3, <2>1, <2>2
<1>5. \A k \in 0 .. m : f[k] = c[k]
  BY <1>3
<1>6. \A k \in 0 .. m + n : k \in 0 .. m \/ \E l \in 1 .. n : k = m + l
  <2> SUFFICES ASSUME NEW k \in 0 .. m + n, k \notin 0 .. m
               PROVE  \E l \in 1 .. n : k = m + l
    OBVIOUS
  <2>1. k - m \in 1 .. n /\ k = m + (k - m)
    BY <1>3
  <2> QED
    BY <2>1
<1> HIDE DEF f, st, m, n
<1>7. \A k \in 0 .. m + n : f[k] \in Assertions /\ Holds(i, ts, f[k])
  <2> SUFFICES ASSUME NEW k \in 0 .. m + n
               PROVE  f[k] \in Assertions /\ Holds(i, ts, f[k])
    OBVIOUS
  <2>1. CASE k \in 0 .. m
    BY <1>1, <1>5, <2>1 DEF m
  <2>2. ASSUME NEW l \in 1 .. n, k = m + l
        PROVE  f[k] \in Assertions /\ Holds(i, ts, f[k])
    <3>1. l \in 0 .. n
      BY <1>3
    <3>2. f[k] = e[l]
      BY <1>4, <2>2, <3>1
    <3> QED
      BY <1>2, <3>1, <3>2 DEF n
  <2> QED
    BY <1>6, <2>1, <2>2
<1>8. \A k \in 1 .. m + n : Entails(Post(i, kind, st[k], f[k - 1]), f[k])
  <2> SUFFICES ASSUME NEW k \in 1 .. m + n
               PROVE  Entails(Post(i, kind, st[k], f[k - 1]), f[k])
    OBVIOUS
  <2>1. CASE k \in 0 .. m
    <3>1. k \in 1 .. m /\ k - 1 \in 0 .. m
      BY <1>3, <2>1
    <3>2. f[k] = c[k] /\ f[k - 1] = c[k - 1] /\ st[k] = s[k]
      BY <1>3, <1>5, <2>1, <3>1
    <3> QED
      BY <1>1, <3>1, <3>2 DEF m
  <2>2. ASSUME NEW l \in 1 .. n, k = m + l
        PROVE  Entails(Post(i, kind, st[k], f[k - 1]), f[k])
    <3>1. l \in 0 .. n /\ l - 1 \in 0 .. n /\ k - 1 = m + (l - 1)
      BY <1>3, <2>2
    <3>2. f[k] = e[l] /\ f[k - 1] = e[l - 1] /\ st[k] = t[l]
      BY <1>3, <1>4, <2>2, <3>1
    <3> QED
      BY <1>2, <3>2 DEF n
  <2> QED
    BY <1>3, <1>6, <2>1, <2>2
<1>9. f \in [0 .. m + n -> Assertions]
  <2>1. f = [k \in 0 .. m + n |-> f[k]]
    BY DEF f
  <2> QED
    BY <1>7, <2>1
<1>10. f[0] = a /\ f[m + n] = d
  <2>1. 0 \in 0 .. m /\ n \in 0 .. n
    BY <1>3
  <2> QED
    BY <1>1, <1>2, <1>4, <1>5, <2>1 DEF n
<1>11. Outline(i, kind, ts, a, st, d)
  <2>1. f \in [0 .. Len(st) -> Assertions] /\ f[Len(st)] = d
    BY <1>3, <1>9, <1>10
  <2> QED
    BY <1>3, <1>7, <1>8, <1>10, <2>1 DEF Outline
<1> QED
  BY <1>11 DEF st

\* The first task of a plan done, the rest leads on from there.
LEMMA OutlineTail ==
    ASSUME NEW i, NEW kind, NEW ts, NEW a, NEW b, NEW S, NEW s \in Seq(S),
           s # <<>>, Outline(i, kind, ts, a, s, b)
    PROVE  \E d \in Assertions : /\ Entails(Post(i, kind, Head(s), a), d)
                                 /\ Outline(i, kind, ts, d, Tail(s), b)
<1>1. PICK c \in [0 .. Len(s) -> Assertions] :
         /\ c[0] = a /\ c[Len(s)] = b
         /\ \A k \in 0 .. Len(s) : Holds(i, ts, c[k])
         /\ \A k \in 1 .. Len(s) : Entails(Post(i, kind, s[k], c[k - 1]), c[k])
  BY DEF Outline
<1> DEFINE t == Tail(s)
           n == Len(t)
           f == [k \in 0 .. n |-> c[k + 1]]
<1>2. /\ n \in Nat /\ Len(s) = n + 1 /\ Head(s) = s[1]
      /\ \A k \in 1 .. n : t[k] = s[k + 1]
  OBVIOUS
<1>3. /\ f \in [0 .. n -> Assertions] /\ f[0] = c[1] /\ f[n] = b
      /\ \A k \in 0 .. n : f[k] = c[k + 1] /\ k + 1 \in 0 .. Len(s)
  BY <1>1, <1>2
<1> HIDE DEF f, t
<1>4. Outline(i, kind, ts, c[1], t, b)
  <2>1. \A k \in 0 .. n : Holds(i, ts, f[k])
    BY <1>1, <1>3
  <2>2. \A k \in 1 .. n : Entails(Post(i, kind, t[k], f[k - 1]), f[k])
    <3> SUFFICES ASSUME NEW k \in 1 .. n
                 PROVE  Entails(Post(i, kind, t[k], f[k - 1]), f[k])
      OBVIOUS
    <3>1. k \in 0 .. n /\ k - 1 \in 0 .. n /\ (k - 1) + 1 = k /\ (k + 1) - 1 = k
          /\ k + 1 \in 1 .. Len(s)
      BY <1>2
    <3>2. f[k] = c[k + 1] /\ f[k - 1] = c[k] /\ t[k] = s[k + 1]
      BY <1>2, <1>3, <3>1
    <3>3. Entails(Post(i, kind, s[k + 1], c[(k + 1) - 1]), c[k + 1])
      BY <1>1, <3>1
    <3> QED
      BY <3>1, <3>2, <3>3
  <2> QED
    BY <1>3, <2>1, <2>2 DEF Outline
<1>5. Entails(Post(i, kind, Head(s), a), c[1]) /\ c[1] \in Assertions
  <2>1. 1 \in 1 .. Len(s) /\ 1 \in 0 .. Len(s) /\ 1 - 1 = 0
    BY <1>2
  <2>2. Entails(Post(i, kind, s[1], c[1 - 1]), c[1])
    BY <1>1, <2>1
  <2> QED
    BY <1>1, <1>2, <2>1, <2>2
<1> QED
  BY <1>4, <1>5 DEF t

\* Where an outline begins and ends.
LEMMA OutlineEnds ==
    ASSUME NEW i, NEW kind, NEW ts, NEW a, NEW b, NEW S, NEW s \in Seq(S),
           Outline(i, kind, ts, a, s, b)
    PROVE  /\ a \in Assertions /\ b \in Assertions
           /\ Holds(i, ts, a) /\ Holds(i, ts, b)
           /\ s = <<>> => a = b
<1>1. PICK c \in [0 .. Len(s) -> Assertions] :
         /\ c[0] = a /\ c[Len(s)] = b
         /\ \A k \in 0 .. Len(s) : Holds(i, ts, c[k])
  BY DEF Outline
<1>2. 0 \in 0 .. Len(s) /\ Len(s) \in 0 .. Len(s) /\ (s = <<>> => Len(s) = 0)
  OBVIOUS
<1> QED
  BY <1>1, <1>2

\* An outline of tasks that a graph of that kind may have.
Leads(i, kind, ts, a, s, b) == /\ s \in Seq(TasksOf(kind, ts))
                               /\ Outline(i, kind, ts, a, s, b)

\* No tasks lead from an assertion to itself, and plans can be joined.
LEMMA LeadsNowhere ==
    ASSUME NEW i, NEW kind, NEW ts, NEW a \in Assertions, Holds(i, ts, a)
    PROVE  Leads(i, kind, ts, a, <<>>, a)
BY OutlineEmpty DEF Leads

LEMMA LeadsOn ==
    ASSUME NEW i, NEW kind, NEW ts, NEW a, NEW b, NEW d, NEW s, NEW t,
           Leads(i, kind, ts, a, s, b), Leads(i, kind, ts, b, t, d)
    PROVE  Leads(i, kind, ts, a, s \o t, d)
<1> DEFINE S == TasksOf(kind, ts)
<1>1. s \in Seq(S) /\ t \in Seq(S)
  BY DEF Leads
<1>2. Outline(i, kind, ts, a, s, b) /\ Outline(i, kind, ts, b, t, d)
  BY DEF Leads
<1> HIDE DEF S
<1>3. s \o t \in Seq(S) /\ Outline(i, kind, ts, a, s \o t, d)
  BY <1>1, <1>2, OutlineConcat
<1> QED
  BY <1>3 DEF Leads, S

\* A state is set that makes no promise that is not kept.
LEMMA SetStateLeads ==
    ASSUME NEW i, NEW kind, NEW ts, NEW a \in Assertions, NEW b \in Assertions,
           NEW p \in States, Holds(i, ts, a), Holds(i, ts, b),
           b.st = p, b.sure \subseteq a.sure,
           a.may \ Exempt(kind, [do |-> "set_state", what |-> p]) \subseteq b.may
    PROVE  Leads(i, kind, ts, a, SetState(p), b)
<1> DEFINE t == [do |-> "set_state", what |-> p]
<1>1. t \in TasksOf(kind, ts)
  BY DEF TasksOf, UndoTasks
<1>2. Entails(Post(i, kind, t, a), b)
  <2>1. Gains(i, t) = {} /\ Loses(t) = {}
    BY DEF Gains, Loses
  <2> HIDE DEF t
  <2>2. t.do = "set_state" /\ t.what = p
    BY DEF t
  <2> QED
    BY <2>1, <2>2 DEF Entails, Post, t
<1> HIDE DEF t
<1>3. Outline(i, kind, ts, a, <<t>>, b)
  BY <1>2, OutlineOne
<1>4. <<t>> \in Seq(TasksOf(kind, ts))
  BY <1>1
<1> QED
  BY <1>3, <1>4 DEF Leads, SetState, t

\* An operation that is done leads on.
LEMMA OperationLeads ==
    ASSUME NEW i, NEW kind, NEW ts, NEW a \in Assertions, NEW b \in Assertions,
           NEW op, [do |-> "operation", what |-> op] \in TasksOf(kind, ts),
           Holds(i, ts, a), Holds(i, ts, b),
           b.st = a.st,
           b.sure \subseteq (a.sure \ Undone(op)) \cup ({op} \cap Real[i]),
           (a.may \ Undone(op)) \cup ({op} \cap Real[i]) \subseteq b.may
    PROVE  Leads(i, kind, ts, a, Operation(op), b)
<1> DEFINE t == [do |-> "operation", what |-> op]
<1>1. Entails(Post(i, kind, t, a), b)
  <2>1. Gains(i, t) = {op} \cap Real[i] /\ Loses(t) = Undone(op) /\ t.do # "set_state"
    BY DEF Gains, Loses
  <2> HIDE DEF t
  <2> QED
    BY <2>1 DEF Entails, Post
<1>2. <<t>> \in Seq(TasksOf(kind, ts))
  OBVIOUS
<1> HIDE DEF t
<1>3. Outline(i, kind, ts, a, <<t>>, b)
  BY <1>1, OutlineOne
<1> QED
  BY <1>2, <1>3 DEF Leads, Operation, t

\* The members of sequences that are joined or reversed.
LEMMA ToSetSeq ==
    ASSUME NEW S, NEW s \in Seq(S), NEW t \in Seq(S)
    PROVE  /\ ToSet(s) \subseteq S
           /\ ToSet(s \o t) = ToSet(s) \cup ToSet(t)
           /\ Reverse(s) \in Seq(S) /\ ToSet(Reverse(s)) = ToSet(s)
           /\ s = <<>> <=> ToSet(s) = {}
<1>1. ToSet(s) \subseteq S
  BY DEF ToSet
<1>2. ToSet(s \o t) = ToSet(s) \cup ToSet(t)
  <2>1. DOMAIN (s \o t) = 1 .. Len(s) + Len(t) /\ DOMAIN s = 1 .. Len(s)
        /\ DOMAIN t = 1 .. Len(t) /\ Len(s) \in Nat /\ Len(t) \in Nat
    OBVIOUS
  <2>2. \A k \in 1 .. Len(s) : (s \o t)[k] = s[k] /\ k \in 1 .. Len(s) + Len(t)
    OBVIOUS
  <2>3. \A k \in 1 .. Len(t) : (s \o t)[Len(s) + k] = t[k]
                               /\ Len(s) + k \in 1 .. Len(s) + Len(t)
    OBVIOUS
  <2>4. \A k \in 1 .. Len(s) + Len(t) : k \in 1 .. Len(s)
                               \/ \E l \in 1 .. Len(t) : k = Len(s) + l
    <3> SUFFICES ASSUME NEW k \in 1 .. Len(s) + Len(t), k \notin 1 .. Len(s)
                 PROVE  \E l \in 1 .. Len(t) : k = Len(s) + l
      OBVIOUS
    <3>1. k - Len(s) \in 1 .. Len(t) /\ k = Len(s) + (k - Len(s))
      OBVIOUS
    <3> QED
      BY <3>1
  <2>5. ToSet(s \o t) \subseteq ToSet(s) \cup ToSet(t)
    BY <2>1, <2>2, <2>3, <2>4 DEF ToSet
  <2>6. ToSet(s) \subseteq ToSet(s \o t)
    BY <2>1, <2>2 DEF ToSet
  <2>7. ToSet(t) \subseteq ToSet(s \o t)
    BY <2>1, <2>3 DEF ToSet
  <2> QED
    BY <2>5, <2>6, <2>7
<1>3. Reverse(s) \in Seq(S) /\ ToSet(Reverse(s)) = ToSet(s)
  <2> DEFINE r == [k \in 1 .. Len(s) |-> s[(Len(s) - k) + 1]]
  <2>1. Reverse(s) = r
    BY DEF Reverse
  <2>2. \A k \in 1 .. Len(s) : (Len(s) - k) + 1 \in 1 .. Len(s)
                               /\ (Len(s) - ((Len(s) - k) + 1)) + 1 = k
    OBVIOUS
  <2>3. r \in Seq(S) /\ DOMAIN r = DOMAIN s
    BY <2>2
  <2>4. ToSet(r) \subseteq ToSet(s)
    BY <2>2 DEF ToSet
  <2>5. ToSet(s) \subseteq ToSet(r)
    <3> SUFFICES ASSUME NEW k \in 1 .. Len(s)
                 PROVE  s[k] \in ToSet(r)
      BY DEF ToSet
    <3> DEFINE l == (Len(s) - k) + 1
    <3>1. l \in 1 .. Len(s) /\ r[l] = s[k]
      BY <2>2
    <3> HIDE DEF l, r
    <3> QED
      BY <2>3, <3>1 DEF ToSet
  <2> QED
    BY <2>1, <2>3, <2>4, <2>5
<1>4. s = <<>> <=> ToSet(s) = {}
  <2>1. s # <<>> => s[1] \in ToSet(s)
    BY DEF ToSet
  <2>2. s = <<>> => ToSet(s) = {}
    BY DEF ToSet
  <2> QED
    BY <2>1, <2>2
<1> QED
  BY <1>1, <1>2, <1>3, <1>4

\* A task for each target.
LEMMA RelateIsSeq ==
    ASSUME NEW do, NEW S, NEW tt \in Seq(S),
           NEW A, \A t \in S : [do |-> do, what |-> t] \in A
    PROVE  Relate(do, tt) \in Seq(A)
BY DEF Relate

LEMMA RelateIs ==
    ASSUME NEW do, NEW S, NEW tt \in Seq(S)
    PROVE  /\ Len(Relate(do, tt)) = Len(tt)
           /\ \A k \in 1 .. Len(tt) :
                 Relate(do, tt)[k] = [do |-> do, what |-> tt[k]]
           /\ ToSet(Relate(do, tt)) = {[do |-> do, what |-> t] : t \in ToSet(tt)}
           /\ Relate(do, tt) = <<>> <=> ToSet(tt) = {}
<1> DEFINE r == Relate(do, tt)
           A == [do : {do}, what : S]
<1>1. r = [n \in 1 .. Len(tt) |-> [do |-> do, what |-> tt[n]]]
  BY DEF Relate
<1> HIDE DEF r
<1>2. r \in Seq(A) /\ Len(r) = Len(tt)
      /\ \A k \in 1 .. Len(tt) : r[k] = [do |-> do, what |-> tt[k]]
  BY <1>1
<1>3. ToSet(r) = {[do |-> do, what |-> t] : t \in ToSet(tt)}
  <2>1. DOMAIN r = 1 .. Len(tt) /\ DOMAIN tt = 1 .. Len(tt)
    BY <1>1
  <2> QED
    BY <1>2, <2>1 DEF ToSet
<1>4. r = <<>> <=> ToSet(tt) = {}
  <2>1. r = <<>> <=> ToSet(r) = {}
    <3> HIDE DEF A
    <3> QED
      BY <1>2, ToSetSeq
  <2> QED
    BY <1>3, <2>1
<1> QED
  BY <1>2, <1>3, <1>4 DEF r

\* The names of operations are no instances.
LEMMA MadeAreNotInstances ==
    /\ Instances \cap Made = {} /\ Made \subseteq Whats
    /\ Instances \subseteq Whats
    /\ \A i \in Instances : Real[i] \subseteq Made /\ Targets[i] \in Seq(Instances)
BY InstancesAssumption DEF Whats

LEMMA SeqWiden ==
    ASSUME NEW A, NEW B, A \subseteq B, NEW s \in Seq(A)
    PROVE  s \in Seq(B)
OBVIOUS

\* To unlink takes away the links, whatever else there is.
LEMMA UnlinkLeads ==
    ASSUME NEW i \in Instances, NEW kind, NEW ts \in SUBSET Instances,
           NEW a \in Assertions, Holds(i, ts, a), a.st # "started",
           NEW tt \in Seq(ts)
    PROVE  Leads(i, kind, ts, a, Relate("unlink", tt),
                 [st |-> a.st, sure |-> a.sure \ ToSet(tt),
                  may |-> a.may \ ToSet(tt)])
<1> DEFINE U(k) == {tt[n] : n \in 1 .. k}
           s == Relate("unlink", tt)
           c == [k \in 0 .. Len(s) |-> [st |-> a.st, sure |-> a.sure \ U(k),
                                        may |-> a.may \ U(k)]]
<1>1. /\ Len(s) = Len(tt) /\ Len(tt) \in Nat
      /\ \A k \in 1 .. Len(tt) : s[k] = [do |-> "unlink", what |-> tt[k]]
      /\ s \in Seq(TasksOf(kind, ts))
  <2>1. \A t \in ts : [do |-> "unlink", what |-> t] \in TasksOf(kind, ts)
    BY DEF TasksOf, UndoTasks
  <2>2. Len(tt) \in Nat
    OBVIOUS
  <2>3. PICK d : d = "unlink"
    OBVIOUS
  <2>4. \A t \in ts : [do |-> d, what |-> t] \in TasksOf(kind, ts)
    BY <2>1, <2>3
  <2>5. Relate(d, tt) \in Seq(TasksOf(kind, ts))
    BY <2>4, RelateIsSeq
  <2>6. /\ Len(Relate(d, tt)) = Len(tt)
        /\ \A k \in 1 .. Len(tt) : Relate(d, tt)[k] = [do |-> d, what |-> tt[k]]
    BY RelateIs
  <2> QED
    BY <2>2, <2>3, <2>5, <2>6
<1>2. s \in Seq(TasksOf(kind, ts))
  BY <1>1
<1> HIDE DEF s
<1>3. a.sure \subseteq Whats /\ a.may \subseteq Whats /\ a.st \in States
      /\ a = [st |-> a.st, sure |-> a.sure, may |-> a.may]
  BY DEF Assertions
<1>4. c \in [0 .. Len(s) -> Assertions]
  BY <1>3 DEF Assertions
<1>5. /\ U(0) = {} /\ U(Len(tt)) = ToSet(tt)
      /\ \A k \in 0 .. Len(tt) : U(k) \subseteq ts
      /\ \A k \in 1 .. Len(tt) : U(k) = U(k - 1) \cup {tt[k]}
  <2>1. U(0) = {}
    OBVIOUS
  <2>2. U(Len(tt)) = ToSet(tt)
    BY DEF ToSet
  <2>3. \A k \in 0 .. Len(tt) : U(k) \subseteq ts
    OBVIOUS
  <2>4. \A k \in 1 .. Len(tt) : U(k) = U(k - 1) \cup {tt[k]}
    OBVIOUS
  <2> QED
    BY <2>1, <2>2, <2>3, <2>4
<1> HIDE DEF U
<1>6. c[0] = a /\ c[Len(s)] = [st |-> a.st, sure |-> a.sure \ ToSet(tt),
                               may |-> a.may \ ToSet(tt)]
  BY <1>1, <1>3, <1>5
<1>7. \A k \in 0 .. Len(s) : Holds(i, ts, c[k])
  <2> SUFFICES ASSUME NEW k \in 0 .. Len(s)
               PROVE  Holds(i, ts, c[k])
    OBVIOUS
  <2>1. /\ c[k].st = a.st /\ c[k].sure = a.sure \ U(k)
        /\ c[k].may = a.may \ U(k)
    OBVIOUS
  <2>2. Claims(i, ts, a.st) \cap U(k) = {}
    BY <1>1, <1>5, MadeAreNotInstances DEF Claims
  <2> HIDE DEF c
  <2> QED
    BY <2>1, <2>2 DEF Holds
<1>8. \A k \in 1 .. Len(s) : Entails(Post(i, kind, s[k], c[k - 1]), c[k])
  <2> SUFFICES ASSUME NEW k \in 1 .. Len(s)
               PROVE  Entails(Post(i, kind, s[k], c[k - 1]), c[k])
    OBVIOUS
  <2>1. k \in 0 .. Len(s) /\ k - 1 \in 0 .. Len(s)
    BY <1>1
  <2>2. /\ c[k].st = a.st /\ c[k].sure = a.sure \ U(k) /\ c[k].may = a.may \ U(k)
        /\ c[k - 1].st = a.st /\ c[k - 1].sure = a.sure \ U(k - 1)
        /\ c[k - 1].may = a.may \ U(k - 1)
    BY <2>1
  <2>3. Gains(i, s[k]) = {} /\ Loses(s[k]) = {tt[k]} /\ s[k].do = "unlink"
    <3>1. k \in 1 .. Len(tt)
      BY <1>1
    <3>2. s[k] = [do |-> "unlink", what |-> tt[k]]
      BY <1>1, <3>1
    <3>3. s[k].do = "unlink" /\ s[k].what = tt[k]
      BY <3>2
    <3> HIDE DEF c
    <3>4. Gains(i, s[k]) = {} /\ Loses(s[k]) = {s[k].what}
      BY <3>3 DEF Gains, Loses
    <3> QED
      BY <3>3, <3>4
  <2> HIDE DEF c
  <2> QED
    BY <1>1, <1>5, <2>2, <2>3 DEF Entails, Post
<1> HIDE DEF c
<1>9. Outline(i, kind, ts, a, s, c[Len(s)])
  BY <1>4, <1>6, <1>7, <1>8 DEF Outline
<1> QED
  BY <1>2, <1>6, <1>9 DEF Leads, s

-----------------------------------------------------------------------------
(* The plan of an install *)

\* All that is in force is known, up to what the state denies.
At(st, sure) == [st |-> st, sure |-> sure, may |-> Whats \ Denied(st)]

LEMMA AtIs ==
    ASSUME NEW st \in States, NEW sure \in SUBSET Whats
    PROVE  /\ At(st, sure) \in Assertions
           /\ At(st, sure).st = st /\ At(st, sure).sure = sure
           /\ At(st, sure).may = Whats \ Denied(st)
BY DEF At, Assertions

\* To establish the links makes them sure.
LEMMA EstablishLeads ==
    ASSUME NEW i \in Instances, NEW ts \in SUBSET Instances,
           NEW p \in States, NEW u \in SUBSET Whats,
           p \notin NotThere, Claims(i, ts, p) \subseteq u,
           NEW tt \in Seq(ts)
    PROVE  Leads(i, "install", ts, At(p, u), Relate("establish", tt),
                 At(p, u \cup ToSet(tt)))
<1> DEFINE U(k) == {tt[n] : n \in 1 .. k}
           s == Relate("establish", tt)
           c == [k \in 0 .. Len(s) |-> At(p, u \cup U(k))]
<1>1. /\ Len(s) = Len(tt) /\ Len(tt) \in Nat
      /\ \A k \in 1 .. Len(tt) : s[k] = [do |-> "establish", what |-> tt[k]]
      /\ s \in Seq(TasksOf("install", ts))
  <2>1. \A t \in ts : [do |-> "establish", what |-> t] \in TasksOf("install", ts)
    BY DEF TasksOf, DoTasks
  <2>2. Len(tt) \in Nat
    OBVIOUS
  <2>3. PICK d : d = "establish"
    OBVIOUS
  <2>4. \A t \in ts : [do |-> d, what |-> t] \in TasksOf("install", ts)
    BY <2>1, <2>3
  <2>5. Relate(d, tt) \in Seq(TasksOf("install", ts))
    BY <2>4, RelateIsSeq
  <2>6. /\ Len(Relate(d, tt)) = Len(tt)
        /\ \A k \in 1 .. Len(tt) : Relate(d, tt)[k] = [do |-> d, what |-> tt[k]]
    BY RelateIs
  <2> QED
    BY <2>2, <2>3, <2>5, <2>6
<1> HIDE DEF s
<1>2. /\ U(0) = {} /\ U(Len(tt)) = ToSet(tt)
      /\ \A k \in 0 .. Len(tt) : U(k) \subseteq Instances
      /\ \A k \in 1 .. Len(tt) : U(k) = U(k - 1) \cup {tt[k]} /\ tt[k] \in Instances
  <2>1. U(0) = {}
    OBVIOUS
  <2>2. U(Len(tt)) = ToSet(tt)
    BY DEF ToSet
  <2>3. \A k \in 0 .. Len(tt) : U(k) \subseteq Instances
    OBVIOUS
  <2>4. \A k \in 1 .. Len(tt) : U(k) = U(k - 1) \cup {tt[k]} /\ tt[k] \in Instances
    OBVIOUS
  <2> QED
    BY <2>1, <2>2, <2>3, <2>4
<1> HIDE DEF U
<1>3. \A k \in 0 .. Len(s) :
         /\ c[k] = At(p, u \cup U(k)) /\ c[k] \in Assertions
         /\ c[k].st = p /\ c[k].sure = u \cup U(k) /\ c[k].may = Whats \ Denied(p)
  <2> SUFFICES ASSUME NEW k \in 0 .. Len(s)
               PROVE  /\ c[k] = At(p, u \cup U(k)) /\ c[k] \in Assertions
                      /\ c[k].st = p /\ c[k].sure = u \cup U(k)
                      /\ c[k].may = Whats \ Denied(p)
    OBVIOUS
  <2>1. c[k] = At(p, u \cup U(k))
    OBVIOUS
  <2>2. u \cup U(k) \in SUBSET Whats
    BY <1>1, <1>2, MadeAreNotInstances
  <2>3. PICK v : v = u \cup U(k)
    OBVIOUS
  <2> HIDE DEF c
  <2> QED
    BY <2>1, <2>2, <2>3, AtIs
<1>4. c \in [0 .. Len(s) -> Assertions]
  BY <1>3
<1>5. c[0] = At(p, u) /\ c[Len(s)] = At(p, u \cup ToSet(tt))
  <2>1. 0 \in 0 .. Len(s) /\ Len(s) \in 0 .. Len(s) /\ u \cup U(0) = u
    BY <1>1, <1>2
  <2> HIDE DEF c
  <2> QED
    BY <1>1, <1>2, <1>3, <2>1
<1> HIDE DEF c
<1>6. \A k \in 0 .. Len(s) : Holds(i, ts, c[k])
  BY <1>3 DEF Holds
<1>7. \A k \in 1 .. Len(s) : Entails(Post(i, "install", s[k], c[k - 1]), c[k])
  <2> SUFFICES ASSUME NEW k \in 1 .. Len(s)
               PROVE  Entails(Post(i, "install", s[k], c[k - 1]), c[k])
    OBVIOUS
  <2>1. k \in 0 .. Len(s) /\ k - 1 \in 0 .. Len(s) /\ k \in 1 .. Len(tt)
    BY <1>1
  <2>2. s[k].do = "establish" /\ s[k].what = tt[k]
    <3>1. s[k] = [do |-> "establish", what |-> tt[k]]
      BY <1>1, <2>1
    <3> QED
      BY <3>1
  <2>3. Gains(i, s[k]) = {tt[k]} /\ Loses(s[k]) = {}
    BY <2>2 DEF Gains, Loses
  <2>4. tt[k] \notin Denied(p) /\ tt[k] \in Whats
    BY <1>2, <2>1, MadeAreNotInstances DEF Denied, Made
  <2> DEFINE x == Post(i, "install", s[k], c[k - 1])
  <2>5. /\ x.st = c[k - 1].st /\ x.sure = c[k - 1].sure \cup {tt[k]}
        /\ x.may \subseteq c[k - 1].may \cup {tt[k]}
    BY <2>2, <2>3 DEF Post
  <2>6. /\ c[k - 1].st = p /\ c[k - 1].sure = u \cup U(k - 1)
        /\ c[k - 1].may = Whats \ Denied(p)
        /\ c[k].st = p /\ c[k].sure = u \cup U(k) /\ c[k].may = Whats \ Denied(p)
    BY <1>3, <2>1
  <2>7. U(k) = U(k - 1) \cup {tt[k]}
    BY <1>2, <2>1
  <2> HIDE DEF x
  <2>8. Entails(x, c[k])
    BY <2>4, <2>5, <2>6, <2>7 DEF Entails
  <2> QED
    BY <2>8 DEF x
<1>8. Outline(i, "install", ts, c[0], s, c[Len(s)])
  BY <1>4, <1>6, <1>7 DEF Outline
<1> QED
  BY <1>1, <1>5, <1>8 DEF Leads, s

\* What installs undoes nothing.
LEMMA DoesNotUndo ==
    \A op \in Made : Undone(op) = {}
BY DEF Made, Undone

LEMMA AtSetState ==
    ASSUME NEW i \in Instances, NEW ts \in SUBSET Instances,
           NEW p \in States, NEW r \in States, NEW u \in SUBSET Whats,
           Holds(i, ts, At(p, u)), Claims(i, ts, r) \subseteq u,
           Denied(r) \subseteq Exempt("install", [do |-> "set_state", what |-> r])
    PROVE  Leads(i, "install", ts, At(p, u), SetState(r), At(r, u))
<1> DEFINE a == At(p, u)
           b == At(r, u)
<1>1. /\ a \in Assertions /\ a.sure = u /\ a.may = Whats \ Denied(p)
      /\ b \in Assertions /\ b.st = r /\ b.sure = u /\ b.may = Whats \ Denied(r)
  BY AtIs
<1>2. Holds(i, ts, a)
  OBVIOUS
<1> HIDE DEF a, b
<1>3. Holds(i, ts, b)
  BY <1>1 DEF Holds
<1>4. a.may \ Exempt("install", [do |-> "set_state", what |-> r]) \subseteq b.may
  BY <1>1
<1>5. Leads(i, "install", ts, a, SetState(r), b)
  BY <1>1, <1>2, <1>3, <1>4, SetStateLeads
<1> QED
  BY <1>5 DEF a, b

\* An operation of an install, with the state before it and what follows it.
LEMMA AroundLeads ==
    ASSUME NEW i \in Instances, NEW ts \in SUBSET Instances, NEW op \in Made,
           NEW p \in States, NEW q \in States, NEW u \in SUBSET Whats,
           NEW post, NEW d, Holds(i, ts, At(p, u)),
           op \in Real[i] =>
              /\ Denied(q) = {} /\ Claims(i, ts, q) \subseteq u
              /\ Leads(i, "install", ts, At(q, u \cup {op}), post, d)
    PROVE  Leads(i, "install", ts, At(p, u), Around(SetState(q), i, op, post),
                 IF op \in Real[i] THEN d ELSE At(p, u))
<1>1. IsNop(i, op) <=> op \notin Real[i]
  BY DoesNotUndo DEF IsNop
<1>2. CASE op \notin Real[i]
  <2>1. At(p, u) \in Assertions
    BY AtIs
  <2>2. Leads(i, "install", ts, At(p, u), <<>>, At(p, u))
    BY <2>1, LeadsNowhere
  <2>3. Around(SetState(q), i, op, post) = <<>>
    BY <1>1, <1>2 DEF Around
  <2> QED
    BY <1>2, <2>2, <2>3
<1>3. CASE op \in Real[i]
  <2> DEFINE a == At(p, u)
             b == At(q, u)
             c == At(q, u \cup {op})
  <2>1. u \cup {op} \in SUBSET Whats /\ op \in Whats
    BY MadeAreNotInstances
  <2>2. b \in Assertions /\ b.st = q /\ b.sure = u /\ b.may = Whats \ Denied(q)
    BY AtIs
  <2>3. /\ c \in Assertions /\ c.st = q /\ c.sure = u \cup {op}
        /\ c.may = Whats \ Denied(q)
    <3>1. PICK v : v = u \cup {op}
      OBVIOUS
    <3>2. v \in SUBSET Whats
      BY <2>1, <3>1
    <3> QED
      BY <3>1, <3>2, AtIs
  <2>4. Holds(i, ts, b) /\ Holds(i, ts, c)
    <3> HIDE DEF b, c
    <3> QED
      BY <1>3, <2>2, <2>3 DEF Holds
  <2>5. Leads(i, "install", ts, a, SetState(q), b)
    BY <1>3, AtSetState
  <2>6. Leads(i, "install", ts, b, Operation(op), c)
    <3>1. [do |-> "operation", what |-> op] \in TasksOf("install", ts)
      BY DEF TasksOf, DoTasks
    <3>2. Undone(op) = {}
      BY DoesNotUndo
    <3>3. (b.may \ Undone(op)) \cup ({op} \cap Real[i]) \subseteq c.may
      BY <1>3, <2>1, <2>2, <2>3
    <3>4. c.sure \subseteq (b.sure \ Undone(op)) \cup ({op} \cap Real[i])
      BY <1>3, <2>2, <2>3, <3>2
    <3> HIDE DEF b, c
    <3> QED
      BY <2>2, <2>3, <2>4, <3>1, <3>3, <3>4, OperationLeads
  <2>7. Leads(i, "install", ts, c, post, d)
    BY <1>3
  <2>8. Leads(i, "install", ts, a, SetState(q) \o Operation(op) \o post, d)
    <3> HIDE DEF a, b, c
    <3>1. Leads(i, "install", ts, a, SetState(q) \o Operation(op), c)
      BY <2>5, <2>6, LeadsOn
    <3> QED
      BY <2>7, <3>1, LeadsOn
  <2>9. Around(SetState(q), i, op, post) = SetState(q) \o Operation(op) \o post
    BY <1>1, <1>3 DEF Around
  <2> QED
    BY <1>3, <2>8, <2>9
<1> QED
  BY <1>2, <1>3

\* The tasks of an install lead to a started instance, from any state that
\* tells the truth of what is skipped.
LEMMA InstallLeads ==
    ASSUME NEW i \in Instances, NEW ts \in SUBSET Instances, NEW tt \in Seq(ts),
           ToSet(tt) = ts, NEW s \in States,
           NEW a \in Assertions, Holds(i, ts, a),
           s \in CreatedBefore => {"create"} \cap Real[i] \subseteq a.sure,
           s \in ConfiguredBefore => {"configure"} \cap Real[i] \subseteq a.sure,
           s = "started" => ({"start"} \cap Real[i]) \cup ts \subseteq a.sure
    PROVE  \E b : Leads(i, "install", ts, a, Install(i, s, tt), b)
                  /\ b.st = "started"
<1> DEFINE X == TasksOf("install", ts)
           v0 == a.sure
           v1 == v0 \cup ({"create"} \cap Real[i])
           v2 == v1 \cup ({"configure"} \cap Real[i])
           v3 == v2 \cup ({"start"} \cap Real[i])
           v4 == v3 \cup ts
<1> DEFINE create == IF s \in CreatedBefore THEN <<>>
                     ELSE Around(SetState("creating"), i, "create",
                                 SetState("created"))
           configure == IF s \in ConfiguredBefore THEN <<>>
                        ELSE Around(SetState("configuring"), i, "configure",
                                    SetState("configured"))
           start == IF s = "started" THEN <<>>
                    ELSE Around(SetState("starting"), i, "start", <<>>)
           establish == IF s = "started" THEN <<>> ELSE Relate("establish", tt)
           work == create \o configure \o start \o establish
           first == IF work = <<>> THEN <<>> ELSE SetState("initializing")
<1>1. Install(i, s, tt) = first \o work \o SetState("started")
  BY DEF Install
<1>2. /\ {"initializing", "creating", "created", "configuring", "configured",
          "starting", "started"} \subseteq States
      /\ {"create", "configure", "start"} = Made
      /\ Real[i] \subseteq Made
      /\ \A st \in {"initializing", "creating", "created", "configuring",
                     "starting", "started"} : Denied(st) = {}
      /\ Denied("configured") = {"start"}
      /\ "start" \in Exempt("install", [do |-> "set_state", what |-> "configured"])
  <2>1. Real[i] \subseteq Made
    BY MadeAreNotInstances
  <2>2. "start" \in Exempt("install", [do |-> "set_state", what |-> "configured"])
    BY DEF Exempt, SetState, ToSet
  <2>3. \A st \in {"initializing", "creating", "created", "configuring",
                   "starting", "started"} : Denied(st) = {}
    BY DEF Denied, NotThere, NotStarted, StoppedBefore
  <2>4. Denied("configured") = {"start"}
    BY DEF Denied, NotThere, NotStarted, StoppedBefore
  <2> QED
    BY <2>1, <2>2, <2>3, <2>4 DEF States, Made
<1>3. /\ Claims(i, ts, "initializing") = {} /\ Claims(i, ts, "creating") = {}
      /\ Claims(i, ts, "created") = {"create"} \cap Real[i]
      /\ Claims(i, ts, "configuring") = {"create"} \cap Real[i]
      /\ Claims(i, ts, "configured") = {"create", "configure"} \cap Real[i]
      /\ Claims(i, ts, "starting") = {"create", "configure"} \cap Real[i]
      /\ Claims(i, ts, "started") = Real[i] \cup ts
  BY <1>2 DEF Claims, CreatedBefore, ConfiguredBefore
<1>4. {v0, v1, v2, v3, v4} \subseteq SUBSET Whats
  BY <1>2, MadeAreNotInstances DEF Assertions
<1> HIDE DEF create, configure, start, establish, v0, v1, v2, v3, v4
<1>5. Holds(i, ts, At("initializing", v0))
  <2>1. v0 \in SUBSET Whats /\ "initializing" \in States
    BY <1>2, <1>4
  <2>2. PICK p : p = "initializing"
    OBVIOUS
  <2>3. At(p, v0).st = p /\ At(p, v0).sure = v0 /\ At(p, v0).may = Whats \ Denied(p)
    BY <2>1, <2>2, AtIs
  <2> QED
    BY <1>3, <2>2, <2>3 DEF Holds
\* What the state set before an operation, and after it, says.
<1>6. \A p \in {"initializing", "created", "configured", "starting"} :
         \A u \in SUBSET Whats :
            /\ At(p, u) \in Assertions
            /\ Claims(i, ts, p) \subseteq u => Holds(i, ts, At(p, u))
  <2> TAKE p \in {"initializing", "created", "configured", "starting"}
  <2> TAKE u \in SUBSET Whats
  <2>1. p \in States
    BY <1>2
  <2>2. /\ At(p, u) \in Assertions /\ At(p, u).st = p /\ At(p, u).sure = u
        /\ At(p, u).may = Whats \ Denied(p)
    BY <2>1, AtIs
  <2> QED
    BY <2>2 DEF Holds
<1>7. \E p \in {"initializing", "created"} :
         Leads(i, "install", ts, At("initializing", v0), create, At(p, v1))
  <2> DEFINE x == At("initializing", v0)
  <2>1. CASE s \in CreatedBefore
    <3>1. create = <<>> /\ v1 = v0
      BY <2>1 DEF create, v1, v0
    <3>2. x \in Assertions
      BY <1>4, <1>6
    <3>3. Leads(i, "install", ts, x, <<>>, x)
      BY <1>5, <3>2, LeadsNowhere
    <3> QED
      BY <3>1, <3>3
  <2>2. CASE s \notin CreatedBefore
    <3>1. PICK op, q, r : op = "create" /\ q = "creating" /\ r = "created"
      OBVIOUS
    <3>2. /\ op \in Made /\ q \in States /\ r \in States /\ "initializing" \in States
          /\ v0 \in SUBSET Whats
      BY <1>2, <1>4, <3>1
    <3>3. ASSUME op \in Real[i]
          PROVE  /\ Denied(q) = {} /\ Claims(i, ts, q) \subseteq v0
                 /\ Leads(i, "install", ts, At(q, v0 \cup {op}), SetState(r),
                          At(r, v1))
      <4>1. v0 \cup {op} = v1
        BY <3>1, <3>3 DEF v1
      <4>2. Holds(i, ts, At(q, v1))
        <5>1. /\ At(q, v1).st = q /\ At(q, v1).sure = v1
              /\ At(q, v1).may = Whats \ Denied(q)
          BY <1>4, <3>2, AtIs
        <5> QED
          BY <1>3, <3>1, <5>1 DEF Holds
      <4>3. Claims(i, ts, r) \subseteq v1 /\ Denied(r) = {}
        BY <1>2, <1>3, <3>1 DEF v1
      <4>4. Leads(i, "install", ts, At(q, v1), SetState(r), At(r, v1))
        BY <1>4, <3>2, <4>2, <4>3, AtSetState
      <4> QED
        BY <1>2, <1>3, <3>1, <4>1, <4>4
    <3>4. PICK d : d = At(r, v1)
      OBVIOUS
    <3>5. PICK post : post = SetState(r)
      OBVIOUS
    <3>6. Leads(i, "install", ts, x, Around(SetState(q), i, op, post),
                IF op \in Real[i] THEN d ELSE x)
      BY <1>5, <3>2, <3>3, <3>4, <3>5, AroundLeads
    <3>7. create = Around(SetState(q), i, op, post)
      BY <2>2, <3>1, <3>5 DEF create
    <3>8. op \notin Real[i] => v1 = v0
      BY <3>1 DEF v1
    <3> QED
      BY <3>1, <3>4, <3>6, <3>7, <3>8
  <2> QED
    BY <2>1, <2>2
<1>8. PICK p1 \in {"initializing", "created"} :
         Leads(i, "install", ts, At("initializing", v0), create, At(p1, v1))
  BY <1>7
<1>9. PICK p2 \in {"initializing", "created", "configured"} :
         Leads(i, "install", ts, At(p1, v1), configure, At(p2, v2))
  <2> DEFINE x == At(p1, v1)
  <2>0. /\ x \in Assertions /\ Holds(i, ts, x)
    <3>1. Claims(i, ts, p1) \subseteq v1
      BY <1>3 DEF v1
    <3> QED
      BY <1>4, <1>6, <3>1
  <2>1. CASE s \in ConfiguredBefore
    <3>1. configure = <<>> /\ v2 = v1
      BY <2>1 DEF configure, v2, v1, v0
    <3>3. Leads(i, "install", ts, x, <<>>, x)
      BY <2>0, LeadsNowhere
    <3> QED
      BY <3>1, <3>3
  <2>2. CASE s \notin ConfiguredBefore
    <3>1. PICK op, q, r : op = "configure" /\ q = "configuring" /\ r = "configured"
      OBVIOUS
    <3>2. /\ op \in Made /\ q \in States /\ r \in States /\ p1 \in States
          /\ v1 \in SUBSET Whats
      BY <1>2, <1>4, <3>1
    <3>3. ASSUME op \in Real[i]
          PROVE  /\ Denied(q) = {} /\ Claims(i, ts, q) \subseteq v1
                 /\ Leads(i, "install", ts, At(q, v1 \cup {op}), SetState(r),
                          At(r, v2))
      <4>1. v1 \cup {op} = v2
        BY <3>1, <3>3 DEF v2
      <4>2. Holds(i, ts, At(q, v2))
        <5>1. /\ At(q, v2).st = q /\ At(q, v2).sure = v2
              /\ At(q, v2).may = Whats \ Denied(q)
          BY <1>4, <3>2, AtIs
        <5> QED
          BY <1>2, <1>3, <3>1, <5>1 DEF Holds, v2, v1
      <4>3. Claims(i, ts, r) \subseteq v2
            /\ Denied(r) \subseteq Exempt("install", [do |-> "set_state", what |-> r])
        BY <1>2, <1>3, <3>1 DEF v2, v1
      <4>4. Leads(i, "install", ts, At(q, v2), SetState(r), At(r, v2))
        BY <1>4, <3>2, <4>2, <4>3, AtSetState
      <4> QED
        BY <1>2, <1>3, <3>1, <4>1, <4>4 DEF v1
    <3>4. PICK d : d = At(r, v2)
      OBVIOUS
    <3>5. PICK post : post = SetState(r)
      OBVIOUS
    <3>6. Leads(i, "install", ts, x, Around(SetState(q), i, op, post),
                IF op \in Real[i] THEN d ELSE x)
      BY <2>0, <3>2, <3>3, <3>4, <3>5, AroundLeads
    <3>7. configure = Around(SetState(q), i, op, post)
      BY <2>2, <3>1, <3>5 DEF configure
    <3>8. op \notin Real[i] => v2 = v1
      BY <3>1 DEF v2
    <3> QED
      BY <3>1, <3>4, <3>6, <3>7, <3>8
  <2> QED
    BY <2>1, <2>2
<1>10. PICK p3 \in {"initializing", "created", "configured", "starting"} :
         Leads(i, "install", ts, At(p2, v2), start, At(p3, v3))
  <2> DEFINE x == At(p2, v2)
  <2>0. /\ x \in Assertions /\ Holds(i, ts, x)
    <3>1. Claims(i, ts, p2) \subseteq v2
      BY <1>3 DEF v2, v1
    <3> QED
      BY <1>4, <1>6, <3>1
  <2>1. CASE s = "started"
    <3>1. start = <<>> /\ v3 = v2
      BY <2>1 DEF start, v3, v2, v1, v0
    <3>3. Leads(i, "install", ts, x, <<>>, x)
      BY <2>0, LeadsNowhere
    <3> QED
      BY <3>1, <3>3
  <2>2. CASE s # "started"
    <3>1. PICK op, q : op = "start" /\ q = "starting"
      OBVIOUS
    <3>2. /\ op \in Made /\ q \in States /\ p2 \in States /\ v2 \in SUBSET Whats
      BY <1>2, <1>4, <3>1
    <3>4. PICK d : d = At(q, v3)
      OBVIOUS
    <3>3. ASSUME op \in Real[i]
          PROVE  /\ Denied(q) = {} /\ Claims(i, ts, q) \subseteq v2
                 /\ Leads(i, "install", ts, At(q, v2 \cup {op}), <<>>, d)
      <4>1. v2 \cup {op} = v3
        BY <3>1, <3>3 DEF v3
      <4>2. d \in Assertions /\ Holds(i, ts, d)
        <5>1. Claims(i, ts, q) \subseteq v3
          BY <1>3, <3>1 DEF v3, v2, v1
        <5> QED
          BY <1>4, <1>6, <3>1, <3>4, <5>1
      <4>4. Leads(i, "install", ts, d, <<>>, d)
        BY <4>2, LeadsNowhere
      <4> QED
        BY <1>2, <1>3, <3>1, <3>4, <4>1, <4>4 DEF v2, v1
    <3>5. PICK post : post = <<>>
      OBVIOUS
    <3>6. Leads(i, "install", ts, x, Around(SetState(q), i, op, post),
                IF op \in Real[i] THEN d ELSE x)
      BY <2>0, <3>2, <3>3, <3>5, AroundLeads
    <3>7. start = Around(SetState(q), i, op, post)
      BY <2>2, <3>1, <3>5 DEF start
    <3>8. op \notin Real[i] => v3 = v2
      BY <3>1 DEF v3
    <3> QED
      BY <3>1, <3>4, <3>6, <3>7, <3>8
  <2> QED
    BY <2>1, <2>2
<1>11. Leads(i, "install", ts, At(p3, v3), establish, At(p3, v4))
  <2> DEFINE x == At(p3, v3)
  <2>0. Claims(i, ts, p3) \subseteq v3
    BY <1>3 DEF v3, v2, v1
  <2>1. CASE s = "started"
    <3>1. establish = <<>> /\ v4 = v3
      BY <2>1 DEF establish, v4, v3, v2, v1, v0
    <3>2. x \in Assertions /\ Holds(i, ts, x)
      BY <1>4, <1>6, <2>0
    <3>3. Leads(i, "install", ts, x, <<>>, x)
      BY <3>2, LeadsNowhere
    <3> QED
      BY <3>1, <3>3
  <2>2. CASE s # "started"
    <3>1. p3 \in States /\ p3 \notin NotThere /\ v3 \in SUBSET Whats
      BY <1>2, <1>4 DEF NotThere
    <3>2. Leads(i, "install", ts, At(p3, v3), Relate("establish", tt),
                At(p3, v3 \cup ToSet(tt)))
      BY <2>0, <3>1, EstablishLeads
    <3> QED
      BY <2>2, <3>2 DEF establish, v4
  <2> QED
    BY <2>1, <2>2
<1>12. Leads(i, "install", ts, At("initializing", v0), work, At(p3, v4))
  <2> HIDE DEF work
  <2>1. PICK x0, x1, x2, x3, x4 :
           /\ x0 = At("initializing", v0) /\ x1 = At(p1, v1) /\ x2 = At(p2, v2)
           /\ x3 = At(p3, v3) /\ x4 = At(p3, v4)
    OBVIOUS
  <2>2. /\ Leads(i, "install", ts, x0, create, x1)
        /\ Leads(i, "install", ts, x1, configure, x2)
        /\ Leads(i, "install", ts, x2, start, x3)
        /\ Leads(i, "install", ts, x3, establish, x4)
    BY <1>8, <1>9, <1>10, <1>11, <2>1
  <2>3. Leads(i, "install", ts, x0, create \o configure, x2)
    BY <2>2, LeadsOn
  <2>4. Leads(i, "install", ts, x0, (create \o configure) \o start, x3)
    BY <2>2, <2>3, LeadsOn
  <2>5. Leads(i, "install", ts, x0, ((create \o configure) \o start) \o establish, x4)
    BY <2>2, <2>4, LeadsOn
  <2> QED
    BY <2>1, <2>5 DEF work
<1>13. /\ create \in Seq(X) /\ configure \in Seq(X) /\ start \in Seq(X)
       /\ establish \in Seq(X)
  BY <1>8, <1>9, <1>10, <1>11 DEF Leads
<1>14. CASE work = <<>>
  <2>1. create = <<>> /\ configure = <<>> /\ start = <<>> /\ establish = <<>>
    <3> HIDE DEF X
    <3> QED
      BY <1>13, <1>14 DEF work
  <2>2. Real[i] \cup ts \subseteq a.sure
    <3>1. \A op \in Made : op \in Real[i] => ~IsNop(i, op)
      BY DEF IsNop
    <3>2. s \notin CreatedBefore => "create" \notin Real[i]
      <4> SUFFICES ASSUME s \notin CreatedBefore, "create" \in Real[i]
                   PROVE  FALSE
        OBVIOUS
      <4>1. create = SetState("creating") \o Operation("create") \o SetState("created")
        BY <1>2, <3>1 DEF create, Around
      <4> QED
        BY <2>1, <4>1 DEF SetState, Operation
    <3>3. s \notin ConfiguredBefore => "configure" \notin Real[i]
      <4> SUFFICES ASSUME s \notin ConfiguredBefore, "configure" \in Real[i]
                   PROVE  FALSE
        OBVIOUS
      <4>1. configure = SetState("configuring") \o Operation("configure")
                        \o SetState("configured")
        BY <1>2, <3>1 DEF configure, Around
      <4> QED
        BY <2>1, <4>1 DEF SetState, Operation
    <3>4. s # "started" => "start" \notin Real[i]
      <4> SUFFICES ASSUME s # "started", "start" \in Real[i]
                   PROVE  FALSE
        OBVIOUS
      <4>1. start = SetState("starting") \o Operation("start") \o <<>>
        BY <1>2, <3>1 DEF start, Around
      <4> QED
        BY <2>1, <4>1 DEF SetState, Operation
    <3>5. s # "started" => ts = {}
      <4> SUFFICES ASSUME s # "started"
                   PROVE  ts = {}
        OBVIOUS
      <4>1. Relate("establish", tt) = <<>>
        BY <2>1 DEF establish
      <4>2. PICK d : d = "establish"
        OBVIOUS
      <4>3. Relate(d, tt) = <<>>
        BY <4>1, <4>2
      <4> QED
        BY <4>3, RelateIs
    <3> QED
      BY <1>2, <3>2, <3>3, <3>4, <3>5
  <2>3. Install(i, s, tt) = SetState("started")
    <3>1. first = <<>>
      BY <1>14 DEF first
    <3> HIDE DEF work
    <3>2. <<>> \o <<>> \o SetState("started") = SetState("started")
      BY DEF SetState
    <3> QED
      BY <1>1, <1>14, <3>1, <3>2
  <2>4. PICK p : p = "started"
    OBVIOUS
  <2> DEFINE b == At(p, a.sure)
  <2>5. /\ b \in Assertions /\ b.st = p /\ b.sure = a.sure /\ b.may = Whats
    <3>1. a.sure \in SUBSET Whats
      BY DEF Assertions
    <3>2. PICK u : u = a.sure
      OBVIOUS
    <3>3. /\ At(p, u) \in Assertions /\ At(p, u).st = p /\ At(p, u).sure = u
          /\ At(p, u).may = Whats \ Denied(p)
      BY <1>2, <2>4, <3>1, <3>2, AtIs
    <3> QED
      BY <1>2, <2>4, <3>2, <3>3
  <2> HIDE DEF b
  <2>6. Holds(i, ts, b)
    BY <1>2, <1>3, <2>2, <2>4, <2>5 DEF Holds
  <2>7. a.may \subseteq Whats
    BY DEF Assertions
  <2>8. Leads(i, "install", ts, a, SetState(p), b)
    BY <1>2, <2>4, <2>5, <2>6, <2>7, SetStateLeads
  <2> QED
    BY <2>3, <2>4, <2>5, <2>8
<1>15. CASE work # <<>>
  <2>1. Install(i, s, tt) = SetState("initializing") \o work \o SetState("started")
    BY <1>1, <1>15 DEF first
  <2>2. PICK p, q : p = "initializing" /\ q = "started"
    OBVIOUS
  <2> DEFINE b == At(p, v0)
             e == At(q, v4)
  <2>3. /\ b \in Assertions /\ b.st = p /\ b.sure = v0 /\ b.may = Whats
        /\ e \in Assertions /\ e.st = q
    <3>1. v0 \in SUBSET Whats /\ v4 \in SUBSET Whats
      BY <1>4
    <3>2. p \in States /\ q \in States /\ Denied(p) = {}
      BY <1>2, <2>2
    <3>3. /\ b \in Assertions /\ b.st = p /\ b.sure = v0
          /\ b.may = Whats \ Denied(p)
      BY <3>1, <3>2, AtIs
    <3>4. e \in Assertions /\ e.st = q
      BY <3>1, <3>2, AtIs
    <3> HIDE DEF b, e
    <3> QED
      BY <3>2, <3>3, <3>4
  <2>4. Leads(i, "install", ts, a, SetState(p), b)
    <3>1. a.may \subseteq Whats /\ v0 = a.sure
      BY DEF Assertions, v0
    <3>2. Holds(i, ts, b)
      BY <1>5, <2>2
    <3> HIDE DEF b
    <3> QED
      BY <1>2, <2>2, <2>3, <3>1, <3>2, SetStateLeads
  <2>5. Leads(i, "install", ts, At(p3, v4), SetState(q), e)
    <3>1. Claims(i, ts, p3) \subseteq v4 /\ Claims(i, ts, q) \subseteq v4
      BY <1>2, <1>3, <2>2 DEF v4, v3, v2, v1
    <3>2. Holds(i, ts, At(p3, v4))
      BY <1>4, <1>6, <3>1
    <3>3. p3 \in States /\ q \in States /\ Denied(q) = {} /\ v4 \in SUBSET Whats
      BY <1>2, <1>4, <2>2
    <3> QED
      BY <3>1, <3>2, <3>3, AtSetState
  <2>6. PICK x : x = At(p3, v4)
    OBVIOUS
  <2> HIDE DEF b, e, work
  <2>7. Leads(i, "install", ts, b, work, x)
    BY <1>12, <2>2, <2>6 DEF b
  <2>8. Leads(i, "install", ts, a, SetState(p) \o work, x)
    BY <2>4, <2>7, LeadsOn
  <2>9. Leads(i, "install", ts, a, (SetState(p) \o work) \o SetState(q), e)
    BY <2>5, <2>6, <2>8, LeadsOn
  <2> QED
    BY <2>1, <2>2, <2>3, <2>9
<1> QED
  BY <1>14, <1>15

-----------------------------------------------------------------------------
(* The plans of an uninstall and of a rollback *)

\* Nothing is known to be in force.
May(st, may) == [st |-> st, sure |-> {}, may |-> may]

LEMMA MayIs ==
    ASSUME NEW st \in States, NEW may \in SUBSET Whats
    PROVE  /\ May(st, may) \in Assertions
           /\ May(st, may).st = st /\ May(st, may).sure = {}
           /\ May(st, may).may = may
BY DEF May, Assertions

\* What the states of an uninstall deny.
LEMMA StatesOfUndoing ==
    /\ {"stopping", "stopped", "deleting", "deleted", "uninitialized",
        "configured", "starting", "creating", "configuring"} \subseteq States
    /\ Denied("stopping") = {} /\ Denied("stopped") = {"start"}
    /\ Denied("deleting") = {"start"} /\ Denied("deleted") = Whats
    /\ Denied("uninitialized") = Whats /\ Denied("configured") = {"start"}
    /\ \A i, ts : \A st \in {"stopping", "stopped", "deleting", "deleted",
                             "uninitialized"} : Claims(i, ts, st) = {}
BY DEF States, Denied, NotThere, NotStarted, StoppedBefore, Claims,
       CreatedBefore, ConfiguredBefore

\* One task that undoes sets the state p, or nothing at all happens.
LEMMA UndoStateLeads ==
    ASSUME NEW i \in Instances, NEW kind, NEW ts, NEW a \in Assertions,
           Holds(i, ts, a),
           NEW p \in {"stopping", "stopped", "deleting", "deleted",
                      "uninitialized"},
           NEW m \in SUBSET Whats, Denied(p) \cap m = {},
           a.may \ Exempt(kind, [do |-> "set_state", what |-> p]) \subseteq m
    PROVE  Leads(i, kind, ts, a, SetState(p), May(p, m))
<1> DEFINE b == May(p, m)
<1>1. p \in States /\ Claims(i, ts, p) = {}
  BY StatesOfUndoing
<1>2. b \in Assertions /\ b.st = p /\ b.sure = {} /\ b.may = m
  BY <1>1, MayIs
<1> HIDE DEF b
<1>3. Holds(i, ts, b)
  BY <1>1, <1>2 DEF Holds
<1>4. Leads(i, kind, ts, a, SetState(p), b)
  BY <1>1, <1>2, <1>3, SetStateLeads
<1> QED
  BY <1>4 DEF b

\* An operation that undoes takes away what it undoes.
LEMMA UndoOperationLeads ==
    ASSUME NEW i \in Instances, NEW kind, NEW ts, NEW op \in {"stop", "delete"},
           NEW p \in {"stopping", "deleting"},
           NEW m \in SUBSET Whats, Denied(p) \cap m = {}
    PROVE  Leads(i, kind, ts, May(p, m), Operation(op), May(p, m \ Undone(op)))
<1> DEFINE a == May(p, m)
           b == May(p, m \ Undone(op))
<1>1. p \in States /\ Claims(i, ts, p) = {}
  BY StatesOfUndoing
<1>2. a \in Assertions /\ a.st = p /\ a.sure = {} /\ a.may = m
  BY <1>1, MayIs
<1>3. b \in Assertions /\ b.st = p /\ b.sure = {} /\ b.may = m \ Undone(op)
  <2>1. PICK n : n = m \ Undone(op)
    OBVIOUS
  <2>2. n \in SUBSET Whats
    BY <2>1
  <2> QED
    BY <1>1, <2>1, <2>2, MayIs
<1> HIDE DEF a, b
<1>4. Holds(i, ts, a) /\ Holds(i, ts, b)
  BY <1>1, <1>2, <1>3 DEF Holds
<1>5. [do |-> "operation", what |-> op] \in TasksOf(kind, ts)
  BY DEF TasksOf, UndoTasks
<1>6. {op} \cap Real[i] = {}
  BY MadeAreNotInstances DEF Made
<1>7. Leads(i, kind, ts, a, Operation(op), b)
  BY <1>2, <1>3, <1>4, <1>5, <1>6, OperationLeads
<1> QED
  BY <1>7 DEF a, b

\* The kinds of graphs, and what stopping and deleting come to.
Kinds == {"install", "uninstall", "rollback"}
Stops(a, b) == b.may = a.may \ {"start"} /\ a.sure \ {"start"} \subseteq b.sure
Stop(i) == SetState("stopping") \o Around(<<>>, i, "stop", <<>>)
Delete(i, tt) == Relate("unlink", Reverse(tt))
                 \o Around(SetState("deleting"), i, "delete", <<>>)

\* Stopped; what else is in force stays so.
LEMMA StopLeads ==
    ASSUME NEW i \in Instances, NEW kind, NEW ts \in SUBSET Instances,
           NEW a \in Assertions, Holds(i, ts, a), a.may \subseteq Real[i] \cup ts,
           kind \in Kinds
    PROVE  \E b : /\ Leads(i, kind, ts, a, Stop(i), b)
                  /\ b \in Assertions /\ Holds(i, ts, b)
                  /\ Stops(a, b)
<1>1. PICK p, op : p = "stopping" /\ op = "stop"
  OBVIOUS
<1> DEFINE b == [st |-> p, sure |-> a.sure, may |-> a.may]
           c == [st |-> p, sure |-> a.sure \ {"start"}, may |-> a.may \ {"start"}]
<1>2. p \in States /\ Denied(p) = {} /\ Undone(op) = {"start"}
      /\ Claims(i, ts, p) = {} /\ {op} \cap Real[i] = {}
  BY <1>1, StatesOfUndoing, MadeAreNotInstances DEF Undone, Made
<1>3. /\ b \in Assertions /\ b.st = p /\ b.sure = a.sure /\ b.may = a.may
      /\ c \in Assertions /\ c.st = p /\ c.sure = a.sure \ {"start"}
      /\ c.may = a.may \ {"start"}
  BY <1>2 DEF Assertions
<1> HIDE DEF b, c
<1>4. Holds(i, ts, b) /\ Holds(i, ts, c)
  BY <1>2, <1>3 DEF Holds
<1>5. Leads(i, kind, ts, a, SetState(p), b)
  BY <1>2, <1>3, <1>4, SetStateLeads
<1>6. CASE IsNop(i, op)
  <2>1. "start" \notin Real[i]
    BY <1>2, <1>6 DEF IsNop
  <2>2. b.may = a.may \ {"start"}
    BY <1>3, <2>1, MadeAreNotInstances DEF Made
  <2>3. SetState(p) \o Around(<<>>, i, op, <<>>) = SetState(p)
    BY <1>6 DEF Around, SetState
  <2> QED
    BY <1>1, <1>3, <1>4, <1>5, <2>2, <2>3 DEF Stop, Stops
<1>7. CASE ~IsNop(i, op)
  <2>1. Around(<<>>, i, op, <<>>) = Operation(op)
    BY <1>7 DEF Around, Operation
  <2>2. [do |-> "operation", what |-> op] \in TasksOf(kind, ts)
    BY <1>1 DEF TasksOf, UndoTasks
  <2>3. Leads(i, kind, ts, b, Operation(op), c)
    BY <1>2, <1>3, <1>4, <2>2, OperationLeads
  <2>4. Leads(i, kind, ts, a, SetState(p) \o Operation(op), c)
    BY <1>5, <2>3, LeadsOn
  <2> QED
    BY <1>1, <1>3, <1>4, <2>1, <2>4 DEF Stop, Stops
<1> QED
  BY <1>6, <1>7

\* Unlinked and deleted, whatever is set after.
LEMMA DeleteLeads ==
    ASSUME NEW i \in Instances, NEW kind, NEW ts \in SUBSET Instances,
           NEW tt \in Seq(ts), ToSet(tt) = ts,
           NEW a \in Assertions, Holds(i, ts, a), a.st # "started",
           kind \in Kinds,
           NEW z, z = Exempt(kind, [do |-> "set_state", what |-> "deleting"]),
           a.may \ z \subseteq (Real[i] \ {"start"}) \cup ts
    PROVE  \E b : /\ Leads(i, kind, ts, a, Delete(i, tt), b)
                  /\ b \in Assertions /\ Holds(i, ts, b)
                  /\ b.may \subseteq a.may \cap z
                  /\ b.st \in {a.st, "deleting"}
<1> DEFINE x == Exempt(kind, [do |-> "set_state", what |-> "deleting"])
           rr == Reverse(tt)
           c == [st |-> a.st, sure |-> a.sure \ ToSet(rr), may |-> a.may \ ToSet(rr)]
           unlink == Relate("unlink", rr)
           delete == Around(SetState("deleting"), i, "delete", <<>>)
<1>1. rr \in Seq(ts) /\ ToSet(rr) = ts
  BY ToSetSeq
<1> HIDE DEF rr
<1>2. Leads(i, kind, ts, a, unlink, c)
  BY <1>1, UnlinkLeads
<1>3. /\ c \in Assertions /\ c.st = a.st /\ c.may = a.may \ ts
  BY <1>1 DEF Assertions
<1>4. Holds(i, ts, c)
  <2>1. unlink \in Seq(TasksOf(kind, ts)) /\ Outline(i, kind, ts, a, unlink, c)
    BY <1>2 DEF Leads
  <2> HIDE DEF unlink, c
  <2>2. PICK T : T = TasksOf(kind, ts)
    OBVIOUS
  <2>3. unlink \in Seq(T)
    BY <2>1, <2>2
  <2> QED
    BY <2>1, <2>3, OutlineEnds
<1> HIDE DEF c, unlink
<1>5. CASE IsNop(i, "delete")
  <2>1. delete = <<>>
    BY <1>5 DEF Around
  <2>2. {"create", "configure"} \cap Real[i] = {}
    BY <1>5 DEF IsNop, Undone
  <2>3. c.may \subseteq a.may \cap x
    <3>1. Real[i] \ {"start"} = {}
      BY <2>2, MadeAreNotInstances DEF Made
    <3> HIDE DEF x
    <3>2. a.may \ x \subseteq ts
      BY <3>1 DEF x
    <3> QED
      BY <1>3, <3>2
  <2>4. unlink \o <<>> = unlink
    <3>1. unlink \in Seq(TasksOf(kind, ts))
      BY <1>2 DEF Leads
    <3> QED
      BY <3>1
  <2> QED
    BY <1>2, <1>3, <1>4, <2>1, <2>3, <2>4 DEF rr, unlink, Delete
<1>6. CASE ~IsNop(i, "delete")
  <2>1. PICK p, op, m, n : /\ p = "deleting" /\ op = "delete" /\ m = c.may \ x
                           /\ n = (c.may \ x) \ {"create", "configure"}
    OBVIOUS
  <2>2. m \subseteq Real[i] \ {"start"}
    <3> HIDE DEF x
    <3>1. a.may \ x \subseteq (Real[i] \ {"start"}) \cup ts
      BY DEF x
    <3> QED
      BY <1>3, <2>1, <3>1
  <2>3. n = {} /\ n \in SUBSET Whats /\ m \in SUBSET Whats /\ Denied(p) \cap m = {}
        /\ Undone(op) = {"create", "configure"}
    <3>1. n = {}
      BY <2>1, <2>2, MadeAreNotInstances DEF Made
    <3>2. m \in SUBSET Whats
      BY <2>2, MadeAreNotInstances
    <3>3. Denied(p) \cap m = {}
      BY <2>1, <2>2, StatesOfUndoing
    <3> QED
      BY <2>1, <3>1, <3>2, <3>3 DEF Undone
  <2>4. Leads(i, kind, ts, c, SetState(p), May(p, m))
    <3>1. c.may \ Exempt(kind, [do |-> "set_state", what |-> p]) \subseteq m
      BY <2>1
    <3> QED
      BY <1>3, <1>4, <2>1, <2>3, <3>1, UndoStateLeads
  <2>5. Leads(i, kind, ts, May(p, m), Operation(op), May(p, m \ Undone(op)))
    BY <2>1, <2>3, UndoOperationLeads
  <2>6. PICK d, b : d = May(p, m) /\ b = May(p, n)
    OBVIOUS
  <2>7. m \ Undone(op) = n
    BY <2>1, <2>3
  <2>8. /\ Leads(i, kind, ts, c, SetState(p), d)
        /\ Leads(i, kind, ts, d, Operation(op), b)
    BY <2>4, <2>5, <2>6, <2>7
  <2>9. Leads(i, kind, ts, c, SetState(p) \o Operation(op), b)
    BY <2>8, LeadsOn
  <2>10. delete = SetState(p) \o Operation(op)
    BY <1>6, <2>1 DEF Around, SetState, Operation
  <2> HIDE DEF delete
  <2>11. Leads(i, kind, ts, a, unlink \o delete, b)
    BY <1>2, <2>9, <2>10, LeadsOn
  <2>12. b \in Assertions /\ b.may = {} /\ b.st = "deleting"
    BY <2>1, <2>3, <2>6, StatesOfUndoing, MayIs
  <2>13. Holds(i, ts, b)
    <3>1. p \in {"stopping", "stopped", "deleting", "deleted", "uninitialized"}
      BY <2>1
    <3>2. Claims(i, ts, p) = {}
      BY <3>1, StatesOfUndoing
    <3> QED
      BY <2>1, <2>12, <3>2 DEF Holds
  <2> QED
    BY <2>11, <2>12, <2>13 DEF unlink, delete, rr, Delete
<1> QED
  BY <1>5, <1>6

LEMMA LeadsHolds ==
    ASSUME NEW i, NEW kind, NEW ts, NEW a, NEW s, NEW b,
           Leads(i, kind, ts, a, s, b)
    PROVE  b \in Assertions /\ Holds(i, ts, b)
<1>1. PICK T : T = TasksOf(kind, ts)
  OBVIOUS
<1>2. s \in Seq(T) /\ Outline(i, kind, ts, a, s, b)
  BY <1>1 DEF Leads
<1> QED
  BY <1>2, OutlineEnds

\* The tasks of an uninstall, made for a state s that lets nothing out which
\* the present state asks for, leave nothing.
LEMMA UninstallLeads ==
    ASSUME NEW i \in Instances, NEW kind \in Kinds, NEW ts \in SUBSET Instances,
           NEW tt \in Seq(ts), ToSet(tt) = ts,
           NEW s \in States, NEW a \in Assertions, Holds(i, ts, a),
           a.may \subseteq Real[i] \cup ts,
           s \in NotStarted => "start" \notin a.may,
           s \in NotThere => a.may = {},
           s \in StoppedBefore => a.st \in StoppedBefore,
           s = "deleted" => a.st = "deleted"
    PROVE  \E b : /\ Leads(i, kind, ts, a, Uninstall(i, s, tt), b)
                  /\ b.st = "deleted" /\ b.may = {}
<1> DEFINE m == a.may \ {"start"}
           stop == IF s \in NotStarted THEN <<>>
                   ELSE Stop(i)
           stopped == IF s \in StoppedBefore THEN <<>> ELSE SetState("stopped")
           delete == IF s \in NotThere THEN <<>>
                     ELSE Delete(i, tt)
           deleted == IF s = "deleted" THEN <<>> ELSE SetState("deleted")
           At1(b) == /\ b \in Assertions /\ Holds(i, ts, b) /\ b.may = m
                     /\ s \in NotStarted => b = a
           At2(b) == /\ b \in Assertions /\ Holds(i, ts, b) /\ b.may = m
                     /\ b.st \in StoppedBefore
                     /\ s = "deleted" => b.st = "deleted"
           At3(b) == /\ b \in Assertions /\ Holds(i, ts, b) /\ b.may = {}
                     /\ s = "deleted" => b.st = "deleted"
<1>1. Uninstall(i, s, tt) = stop \o stopped \o delete \o deleted
  BY DEF Uninstall, Stop, Delete
<1>2. m \in SUBSET Whats /\ m \subseteq (Real[i] \ {"start"}) \cup ts
      /\ "start" \notin m /\ (s \in NotStarted => m = a.may)
      /\ (s \in NotThere => m = {})
  BY DEF Assertions
<1>3. \E b : Leads(i, kind, ts, a, stop, b) /\ At1(b)
  <2>1. CASE s \in NotStarted
    <3>1. Leads(i, kind, ts, a, <<>>, a)
      BY LeadsNowhere
    <3> QED
      BY <1>2, <2>1, <3>1
  <2>2. CASE s \notin NotStarted
    <3> HIDE DEF stop
    <3>1. PICK b : /\ Leads(i, kind, ts, a, stop, b)
                   /\ b \in Assertions /\ Holds(i, ts, b) /\ b.may = m
      <4>1. stop = Stop(i)
        BY <2>2 DEF stop
      <4>2. a.may \subseteq Real[i] \cup ts
        OBVIOUS
      <4> HIDE DEF m
      <4>3. \E b : /\ Leads(i, kind, ts, a, Stop(i), b)
                   /\ b \in Assertions /\ Holds(i, ts, b)
                   /\ Stops(a, b)
        BY <4>2, StopLeads
      <4> QED
        BY <4>1, <4>3 DEF m, Stops
    <3> QED
      BY <2>2, <3>1
  <2> QED
    BY <2>1, <2>2
<1>4. PICK b1 : Leads(i, kind, ts, a, stop, b1) /\ At1(b1)
  BY <1>3
<1>5. \E b : Leads(i, kind, ts, b1, stopped, b) /\ At2(b)
  <2>1. CASE s \in StoppedBefore
    <3>1. b1 = a
      BY <1>4, <2>1 DEF NotStarted
    <3>2. Leads(i, kind, ts, a, <<>>, a)
      BY LeadsNowhere
    <3> QED
      BY <1>4, <2>1, <3>1, <3>2
  <2>2. CASE s \notin StoppedBefore
    <3>1. PICK p : p = "stopped"
      OBVIOUS
    <3>2. Denied(p) \cap m = {}
      BY <1>2, <3>1, StatesOfUndoing
    <3>3. Leads(i, kind, ts, b1, SetState(p), May(p, m))
      BY <1>2, <1>4, <3>1, <3>2, UndoStateLeads
    <3>4. May(p, m) \in Assertions /\ May(p, m).st = p /\ May(p, m).may = m
      BY <1>2, <3>1, StatesOfUndoing, MayIs
    <3>5. Holds(i, ts, May(p, m))
      <4>1. PICK b : b = May(p, m)
        OBVIOUS
      <4>2. PICK c : c = SetState(p)
        OBVIOUS
      <4> QED
        BY <3>3, <4>1, <4>2, LeadsHolds
    <3> QED
      BY <2>2, <3>1, <3>3, <3>4, <3>5 DEF StoppedBefore
  <2> QED
    BY <2>1, <2>2
<1>6. PICK b2 : Leads(i, kind, ts, b1, stopped, b2) /\ At2(b2)
  BY <1>5
<1>7. \E b : Leads(i, kind, ts, b2, delete, b) /\ At3(b)
  <2>1. CASE s \in NotThere
    <3>1. Leads(i, kind, ts, b2, <<>>, b2)
      BY <1>6, LeadsNowhere
    <3> QED
      BY <1>2, <1>6, <2>1, <3>1
  <2>2. CASE s \notin NotThere
    <3> DEFINE x == Exempt(kind, [do |-> "set_state", what |-> "deleting"])
    <3>1. b2.may \ x \subseteq (Real[i] \ {"start"}) \cup ts /\ b2.st # "started"
      BY <1>2, <1>6 DEF StoppedBefore
    <3>2. PICK b : /\ Leads(i, kind, ts, b2,
                           Delete(i, tt), b)
                   /\ b \in Assertions /\ Holds(i, ts, b)
                   /\ b.may \subseteq b2.may \cap x
      BY <1>6, <3>1, DeleteLeads
    <3>3. x \subseteq {"start"}
      BY DEF Exempt
    <3> HIDE DEF x
    <3>4. s # "deleted"
      BY <2>2 DEF NotThere
    <3>5. b.may = {}
      BY <1>2, <1>6, <3>2, <3>3
    <3> QED
      BY <2>2, <3>2, <3>4, <3>5
  <2> QED
    BY <2>1, <2>2
<1>8. PICK b3 : Leads(i, kind, ts, b2, delete, b3) /\ At3(b3)
  BY <1>7
<1>9. \E b : Leads(i, kind, ts, b3, deleted, b) /\ b.st = "deleted" /\ b.may = {}
  <2>1. CASE s = "deleted"
    <3>1. Leads(i, kind, ts, b3, <<>>, b3)
      BY <1>8, LeadsNowhere
    <3> QED
      BY <1>8, <2>1, <3>1
  <2>2. CASE s # "deleted"
    <3>1. PICK p, n : p = "deleted" /\ n = {}
      OBVIOUS
    <3>2. Leads(i, kind, ts, b3, SetState(p), May(p, n))
      BY <1>8, <3>1, UndoStateLeads
    <3>3. May(p, n).st = p /\ May(p, n).may = n
      BY <3>1, StatesOfUndoing, MayIs
    <3> QED
      BY <2>2, <3>1, <3>2, <3>3
  <2> QED
    BY <2>1, <2>2
<1> HIDE DEF stop, stopped, delete, deleted
<1>10. PICK b : Leads(i, kind, ts, b3, deleted, b) /\ b.st = "deleted" /\ b.may = {}
  BY <1>9
<1>11. Leads(i, kind, ts, a, stop \o stopped, b2)
  BY <1>4, <1>6, LeadsOn
<1>12. Leads(i, kind, ts, a, (stop \o stopped) \o delete, b3)
  BY <1>8, <1>11, LeadsOn
<1>13. Leads(i, kind, ts, a, ((stop \o stopped) \o delete) \o deleted, b)
  BY <1>10, <1>12, LeadsOn
<1> QED
  BY <1>1, <1>10, <1>13

\* The tasks of a rollback keep to what the states say.
LEMMA RollbackLeads ==
    ASSUME NEW i \in Instances, NEW ts \in SUBSET Instances,
           NEW tt \in Seq(ts), ToSet(tt) = ts,
           NEW a \in Assertions, Holds(i, ts, a), a.may \subseteq Real[i] \cup ts
    PROVE  \E b : Leads(i, "rollback", ts, a, Rollback(i, a.st, tt), b)
<1> DEFINE s == a.st
           m == a.may \ {"start"}
<1>1. m \in SUBSET Whats /\ "start" \notin m
  BY DEF Assertions
<1>2. CASE s = "starting"
  <2> DEFINE stop == Stop(i)
  <2>1. Rollback(i, s, tt) = (stop \o SetState("configured")) \o <<>>
    BY <1>2 DEF Rollback, Stop, Delete
  <2>2. PICK b : /\ Leads(i, "rollback", ts, a, stop, b)
                 /\ b \in Assertions /\ Holds(i, ts, b)
                 /\ b.may = m /\ a.sure \ {"start"} \subseteq b.sure
    <3>1. PICK kind \in Kinds : kind = "rollback"
      BY DEF Kinds
    <3> HIDE DEF m
    <3>2. \E b : /\ Leads(i, kind, ts, a, Stop(i), b)
                 /\ b \in Assertions /\ Holds(i, ts, b)
                 /\ Stops(a, b)
      BY StopLeads
    <3> QED
      BY <3>1, <3>2 DEF m, Stops
  <2>3. PICK p : p = "configured"
    OBVIOUS
  <2> DEFINE c == [st |-> p, sure |-> b.sure, may |-> m]
  <2>4. c \in Assertions /\ c.st = p /\ c.sure = b.sure /\ c.may = m
    BY <1>1, <2>2, <2>3, StatesOfUndoing DEF Assertions
  <2> HIDE DEF c
  <2>5. Claims(i, ts, p) \subseteq Claims(i, ts, s) \ {"start"} /\ Denied(p) = {"start"}
    BY <1>2, <2>3, StatesOfUndoing DEF Claims, CreatedBefore, ConfiguredBefore
  <2>6. Holds(i, ts, c)
    BY <1>1, <2>2, <2>4, <2>5 DEF Holds
  <2>7. Leads(i, "rollback", ts, b, SetState(p), c)
    BY <2>2, <2>3, <2>4, <2>6, StatesOfUndoing, SetStateLeads
  <2> HIDE DEF stop
  <2>8. Leads(i, "rollback", ts, a, stop \o SetState(p), c)
    BY <2>2, <2>7, LeadsOn
  <2>9. (stop \o SetState(p)) \o <<>> = stop \o SetState(p)
    BY <2>8 DEF Leads
  <2> QED
    BY <2>1, <2>3, <2>8, <2>9
<1>3. CASE s \in {"creating", "configuring"}
  <2> DEFINE delete == Delete(i, tt)
  <2>1. Rollback(i, s, tt) = <<>> \o (delete \o SetState("uninitialized"))
    BY <1>3 DEF Rollback, Stop, Delete
  <2>2. Exempt("rollback", [do |-> "set_state", what |-> "deleting"]) = {"start"}
        /\ Exempt("rollback", [do |-> "set_state", what |-> "uninitialized"]) = {"start"}
    BY DEF Exempt, SetState, ToSet
  <2>3. PICK b : /\ Leads(i, "rollback", ts, a, delete, b)
                 /\ b \in Assertions /\ Holds(i, ts, b) /\ b.may \subseteq {"start"}
    <3>1. a.may \ Exempt("rollback", [do |-> "set_state", what |-> "deleting"])
             \subseteq (Real[i] \ {"start"}) \cup ts /\ a.st # "started"
      BY <1>3, <2>2
    <3>2. PICK kind \in Kinds : kind = "rollback"
      BY DEF Kinds
    <3>3. PICK z : z = Exempt(kind, [do |-> "set_state", what |-> "deleting"])
      OBVIOUS
    <3>4. \E b : /\ Leads(i, kind, ts, a, Delete(i, tt), b)
                 /\ b \in Assertions /\ Holds(i, ts, b)
                 /\ b.may \subseteq a.may \cap z
      BY <3>1, <3>2, <3>3, DeleteLeads
    <3> QED
      BY <2>2, <3>2, <3>3, <3>4
  <2>4. PICK p, n : p = "uninitialized" /\ n = {}
    OBVIOUS
  <2>5. Leads(i, "rollback", ts, b, SetState(p), May(p, n))
    BY <2>2, <2>3, <2>4, UndoStateLeads
  <2>6. PICK c : c = May(p, n)
    OBVIOUS
  <2> HIDE DEF delete
  <2>7. Leads(i, "rollback", ts, a, delete \o SetState(p), c)
    BY <2>3, <2>5, <2>6, LeadsOn
  <2>8. <<>> \o (delete \o SetState(p)) = delete \o SetState(p)
    BY <2>7 DEF Leads
  <2> QED
    BY <2>1, <2>4, <2>7, <2>8
<1>4. CASE s \notin {"starting", "creating", "configuring"}
  <2>1. Leads(i, "rollback", ts, a, <<>>, a)
    BY LeadsNowhere
  <2>2. Rollback(i, s, tt) = <<>>
    BY <1>4 DEF Rollback, Stop, Delete
  <2> QED
    BY <2>1, <2>2
<1> QED
  BY <1>2, <1>3, <1>4

-----------------------------------------------------------------------------
(* Plans as sets of tasks *)

\* Plans as sets of tasks, for the comparison of a plan with the one that the
\* present state asks for.
Setting(p) == [do |-> "set_state", what |-> p]
Operating(op) == [do |-> "operation", what |-> op]
Relating(do, ts) == {[do |-> do, what |-> t] : t \in ts}
AnyTask(ts) == UndoTasks(ts) \cup DoTasks(ts)

\* The tasks of an operation and of what goes with it.
AroundSet(pre, i, op, post) ==
    IF IsNop(i, op) THEN {} ELSE pre \cup {Operating(op)} \cup post
UninstallSet(i, s, ts) ==
    (IF s \in NotStarted THEN {}
       ELSE {Setting("stopping")} \cup AroundSet({}, i, "stop", {}))
    \cup (IF s \in StoppedBefore THEN {} ELSE {Setting("stopped")})
    \cup (IF s \in NotThere THEN {}
            ELSE Relating("unlink", ts)
                 \cup AroundSet({Setting("deleting")}, i, "delete", {}))
    \cup (IF s = "deleted" THEN {} ELSE {Setting("deleted")})
WorkSet(i, s, ts) ==
    (IF s \in CreatedBefore THEN {}
       ELSE AroundSet({Setting("creating")}, i, "create", {Setting("created")}))
    \cup (IF s \in ConfiguredBefore THEN {}
            ELSE AroundSet({Setting("configuring")}, i, "configure",
                           {Setting("configured")}))
    \cup (IF s = "started" THEN {}
            ELSE AroundSet({Setting("starting")}, i, "start", {}))
    \cup (IF s = "started" THEN {} ELSE Relating("establish", ts))

LEMMA ConcatIsSet ==
    ASSUME NEW S, NEW s, NEW t, s \in Seq(S), t \in Seq(S)
    PROVE  s \o t \in Seq(S) /\ ToSet(s \o t) = ToSet(s) \cup ToSet(t)
<1>1. PICK u : u = s \o t
  OBVIOUS
<1>2. /\ DOMAIN u = 1 .. Len(s) + Len(t) /\ DOMAIN s = 1 .. Len(s)
      /\ DOMAIN t = 1 .. Len(t) /\ Len(s) \in Nat /\ Len(t) \in Nat
      /\ u \in Seq(S)
  BY <1>1
<1>3. \A k \in 1 .. Len(s) : u[k] = s[k] /\ k \in 1 .. Len(s) + Len(t)
  BY <1>1
<1>4. \A k \in 1 .. Len(t) : u[Len(s) + k] = t[k]
                              /\ Len(s) + k \in 1 .. Len(s) + Len(t)
  BY <1>1
<1>5. \A k \in 1 .. Len(s) + Len(t) : k \in 1 .. Len(s)
                              \/ \E l \in 1 .. Len(t) : k = Len(s) + l
  <2> SUFFICES ASSUME NEW k \in 1 .. Len(s) + Len(t), k \notin 1 .. Len(s)
               PROVE  \E l \in 1 .. Len(t) : k = Len(s) + l
    OBVIOUS
  <2>1. k - Len(s) \in 1 .. Len(t) /\ k = Len(s) + (k - Len(s))
    BY <1>2
  <2> QED
    BY <2>1
<1>6. ToSet(u) \subseteq ToSet(s) \cup ToSet(t)
  <2> SUFFICES ASSUME NEW k \in 1 .. Len(s) + Len(t)
               PROVE  u[k] \in ToSet(s) \cup ToSet(t)
    BY <1>2 DEF ToSet
  <2>1. CASE k \in 1 .. Len(s)
    BY <1>2, <1>3, <2>1 DEF ToSet
  <2>2. ASSUME NEW l \in 1 .. Len(t), k = Len(s) + l
        PROVE  u[k] \in ToSet(s) \cup ToSet(t)
    BY <1>2, <1>4, <2>2 DEF ToSet
  <2> QED
    BY <1>5, <2>1, <2>2
<1>7. ToSet(s) \subseteq ToSet(u)
  BY <1>2, <1>3 DEF ToSet
<1>8. ToSet(t) \subseteq ToSet(u)
  BY <1>2, <1>4 DEF ToSet
<1> QED
  BY <1>1, <1>2, <1>6, <1>7, <1>8

LEMMA AroundIsSet ==
    ASSUME NEW S, NEW pre, NEW post, NEW i, NEW op, pre \in Seq(S),
           post \in Seq(S), Operating(op) \in S
    PROVE  /\ Around(pre, i, op, post) \in Seq(S)
           /\ ToSet(Around(pre, i, op, post))
                = AroundSet(ToSet(pre), i, op, ToSet(post))
<1>1. CASE IsNop(i, op)
  <2>1. ToSet(<<>>) = {}
    BY DEF ToSet
  <2> QED
    BY <1>1, <2>1 DEF Around, AroundSet
<1>2. CASE ~IsNop(i, op)
  <2> DEFINE o == Operation(op)
  <2>1. o = <<Operating(op)>>
    BY DEF Operation, Operating
  <2>2. o \in Seq(S) /\ ToSet(o) = {Operating(op)}
    <3> HIDE DEF o
    <3>1. PICK t \in S : t = Operating(op)
      OBVIOUS
    <3>2. <<t>> \in Seq(S) /\ ToSet(<<t>>) = {t}
      BY DEF ToSet
    <3> QED
      BY <2>1, <3>1, <3>2
  <2> HIDE DEF o
  <2>3. pre \o o \in Seq(S) /\ ToSet(pre \o o) = ToSet(pre) \cup ToSet(o)
    BY <2>2, ConcatIsSet
  <2>4. PICK x \in Seq(S) : x = pre \o o
    BY <2>3
  <2>5. x \o post \in Seq(S) /\ ToSet(x \o post) = ToSet(x) \cup ToSet(post)
    BY ConcatIsSet
  <2> QED
    BY <1>2, <2>2, <2>3, <2>4, <2>5 DEF Around, AroundSet, o
<1> QED
  BY <1>1, <1>2

LEMMA SetStateIsSet ==
    ASSUME NEW ts, NEW p \in States
    PROVE  SetState(p) \in Seq(AnyTask(ts)) /\ ToSet(SetState(p)) = {Setting(p)}
<1>1. PICK t : t = Setting(p)
  OBVIOUS
<1>2. SetState(p) = <<t>>
  BY <1>1 DEF SetState, Setting
<1>3. t \in AnyTask(ts)
  BY <1>1 DEF AnyTask, UndoTasks, Setting
<1>4. <<t>> \in Seq(AnyTask(ts)) /\ ToSet(<<t>>) = {t}
  BY <1>3 DEF ToSet
<1> QED
  BY <1>1, <1>2, <1>4

LEMMA RelateIsSet ==
    ASSUME NEW ts, NEW do \in {"unlink", "establish"}, NEW tt \in Seq(ts)
    PROVE  /\ Relate(do, tt) \in Seq(AnyTask(ts))
           /\ ToSet(Relate(do, tt)) = Relating(do, ToSet(tt))
<1>1. \A t \in ts : [do |-> do, what |-> t] \in AnyTask(ts)
  BY DEF AnyTask, UndoTasks, DoTasks
<1>2. PICK A : A = AnyTask(ts)
  OBVIOUS
<1>3. Relate(do, tt) \in Seq(A)
  BY <1>1, <1>2, RelateIsSeq
<1>4. ToSet(Relate(do, tt)) = {[do |-> do, what |-> t] : t \in ToSet(tt)}
  BY RelateIs
<1> QED
  BY <1>2, <1>3, <1>4 DEF Relating

\* The tasks of an uninstall and of an install, as sets.
LEMMA UninstallIsSet ==
    ASSUME NEW i \in Instances, NEW s, NEW ts \in SUBSET Instances,
           NEW tt \in Seq(ts), ToSet(tt) = ts
    PROVE  ToSet(Uninstall(i, s, tt)) = UninstallSet(i, s, ts)
<1> DEFINE S == AnyTask(ts)
           stop == IF s \in NotStarted THEN <<>>
                   ELSE SetState("stopping") \o Around(<<>>, i, "stop", <<>>)
           stopped == IF s \in StoppedBefore THEN <<>> ELSE SetState("stopped")
           unlink == Relate("unlink", Reverse(tt))
           around == Around(SetState("deleting"), i, "delete", <<>>)
           delete == IF s \in NotThere THEN <<>> ELSE unlink \o around
           deleted == IF s = "deleted" THEN <<>> ELSE SetState("deleted")
<1>1. <<>> \in Seq(S) /\ ToSet(<<>>) = {}
  BY DEF ToSet
<1>2. Operating("stop") \in S /\ Operating("delete") \in S
  BY DEF AnyTask, UndoTasks, Operating
<1>3. \A p \in {"stopping", "stopped", "deleting", "deleted"} :
         SetState(p) \in Seq(S) /\ ToSet(SetState(p)) = {Setting(p)}
  BY StatesOfUndoing, SetStateIsSet
<1>4. stop \in Seq(S)
      /\ ToSet(stop) = IF s \in NotStarted THEN {}
                       ELSE {Setting("stopping")} \cup AroundSet({}, i, "stop", {})
  <2>1. PICK n, x, o : n = <<>> /\ x = SetState("stopping") /\ o = "stop"
    OBVIOUS
  <2> HIDE DEF S
  <2>9. n \in Seq(S) /\ Operating(o) \in S
    BY <1>1, <1>2, <2>1
  <2>2. /\ Around(n, i, o, n) \in Seq(S)
        /\ ToSet(Around(n, i, o, n)) = AroundSet(ToSet(n), i, o, ToSet(n))
    BY <2>9, AroundIsSet
  <2>3. x \in Seq(S) /\ ToSet(x) = {Setting("stopping")}
    BY <1>3, <2>1
  <2>4. PICK y : y = Around(n, i, o, n)
    OBVIOUS
  <2>5. x \o y \in Seq(S) /\ ToSet(x \o y) = ToSet(x) \cup ToSet(y)
    BY <2>2, <2>3, <2>4, ConcatIsSet
  <2> QED
    BY <1>1, <2>1, <2>2, <2>3, <2>4, <2>5
<1>5. stopped \in Seq(S)
      /\ ToSet(stopped) = IF s \in StoppedBefore THEN {} ELSE {Setting("stopped")}
  BY <1>1, <1>3
<1>6. delete \in Seq(S)
      /\ ToSet(delete) = IF s \in NotThere THEN {}
            ELSE Relating("unlink", ts)
                 \cup AroundSet({Setting("deleting")}, i, "delete", {})
  <2>1. PICK n, x, o, u : n = <<>> /\ x = SetState("deleting") /\ o = "delete"
                          /\ u = "unlink"
    OBVIOUS
  <2> HIDE DEF S
  <2>2. x \in Seq(S) /\ ToSet(x) = {Setting("deleting")}
    BY <1>3, <2>1
  <2>9. n \in Seq(S) /\ Operating(o) \in S
    BY <1>1, <1>2, <2>1
  <2>3. /\ Around(x, i, o, n) \in Seq(S)
        /\ ToSet(Around(x, i, o, n)) = AroundSet(ToSet(x), i, o, ToSet(n))
    <3>1. x \in Seq(S)
      BY <2>2
    <3> QED
      BY <2>9, <3>1, AroundIsSet
  <2>4. PICK r : r = Reverse(tt)
    OBVIOUS
  <2>5. r \in Seq(ts) /\ ToSet(r) = ts
    BY <2>4, ToSetSeq
  <2>6. Relate(u, r) \in Seq(S) /\ ToSet(Relate(u, r)) = Relating(u, ToSet(r))
    BY <2>1, <2>5, RelateIsSet DEF S
  <2>7. PICK y, z : y = Relate(u, r) /\ z = Around(x, i, o, n)
    OBVIOUS
  <2>8. y \o z \in Seq(S) /\ ToSet(y \o z) = ToSet(y) \cup ToSet(z)
    BY <2>3, <2>6, <2>7, ConcatIsSet
  <2> QED
    BY <1>1, <2>1, <2>2, <2>3, <2>4, <2>5, <2>6, <2>7, <2>8
<1>7. deleted \in Seq(S)
      /\ ToSet(deleted) = IF s = "deleted" THEN {} ELSE {Setting("deleted")}
  BY <1>1, <1>3
<1>8. Uninstall(i, s, tt) = ((stop \o stopped) \o delete) \o deleted
  BY DEF Uninstall
<1> HIDE DEF S, stop, stopped, delete, deleted
<1>0. /\ stop \in Seq(S) /\ stopped \in Seq(S) /\ delete \in Seq(S)
      /\ deleted \in Seq(S)
  BY <1>4, <1>5, <1>6, <1>7
<1>9. stop \o stopped \in Seq(S)
      /\ ToSet(stop \o stopped) = ToSet(stop) \cup ToSet(stopped)
  BY <1>0, ConcatIsSet
<1>10. PICK x \in Seq(S) : x = stop \o stopped
  BY <1>9
<1>11. x \o delete \in Seq(S) /\ ToSet(x \o delete) = ToSet(x) \cup ToSet(delete)
  BY <1>0, ConcatIsSet
<1>12. PICK y \in Seq(S) : y = x \o delete
  BY <1>11
<1>13. y \o deleted \in Seq(S) /\ ToSet(y \o deleted) = ToSet(y) \cup ToSet(deleted)
  BY <1>0, ConcatIsSet
<1>14. Uninstall(i, s, tt) = y \o deleted
  BY <1>8, <1>10, <1>12
<1> QED
  BY <1>4, <1>5, <1>6, <1>7, <1>9, <1>10, <1>11, <1>12, <1>13, <1>14
     DEF UninstallSet

LEMMA InstallIsSet ==
    ASSUME NEW i \in Instances, NEW s, NEW ts \in SUBSET Instances,
           NEW tt \in Seq(ts), ToSet(tt) = ts
    PROVE  /\ ToSet(Install(i, s, tt)) \subseteq
                WorkSet(i, s, ts) \cup {Setting("initializing"), Setting("started")}
           /\ WorkSet(i, s, ts) \subseteq ToSet(Install(i, s, tt))
<1> DEFINE S == AnyTask(ts)
           create == IF s \in CreatedBefore THEN <<>>
                     ELSE Around(SetState("creating"), i, "create",
                                 SetState("created"))
           configure == IF s \in ConfiguredBefore THEN <<>>
                        ELSE Around(SetState("configuring"), i, "configure",
                                    SetState("configured"))
           start == IF s = "started" THEN <<>>
                    ELSE Around(SetState("starting"), i, "start", <<>>)
           establish == IF s = "started" THEN <<>> ELSE Relate("establish", tt)
           work == create \o configure \o start \o establish
           first == IF work = <<>> THEN <<>> ELSE SetState("initializing")
           end == SetState("started")
<1>1. <<>> \in Seq(S) /\ ToSet(<<>>) = {}
  BY DEF ToSet
<1>2. \A op \in Made : Operating(op) \in S
  BY DEF AnyTask, DoTasks, Operating
<1>3. \A p \in {"initializing", "creating", "created", "configuring",
                 "configured", "starting", "started"} :
         SetState(p) \in Seq(S) /\ ToSet(SetState(p)) = {Setting(p)}
  <2>1. {"initializing", "creating", "created", "configuring",
         "configured", "starting", "started"} \subseteq States
    BY DEF States
  <2> QED
    BY <2>1, SetStateIsSet
<1>4. create \in Seq(S)
      /\ ToSet(create) = IF s \in CreatedBefore THEN {}
           ELSE AroundSet({Setting("creating")}, i, "create", {Setting("created")})
  <2>1. PICK x, o, y : x = SetState("creating") /\ o = "create" /\ y = SetState("created")
    OBVIOUS
  <2> HIDE DEF S
  <2>2. x \in Seq(S) /\ ToSet(x) = {Setting("creating")}
    BY <1>3, <2>1
  <2>3. y \in Seq(S) /\ ToSet(y) = {Setting("created")}
    BY <1>3, <2>1
  <2>4. x \in Seq(S) /\ y \in Seq(S) /\ Operating(o) \in S
    BY <1>2, <2>1, <2>2, <2>3 DEF Made
  <2>5. /\ Around(x, i, o, y) \in Seq(S)
        /\ ToSet(Around(x, i, o, y)) = AroundSet(ToSet(x), i, o, ToSet(y))
    BY <2>4, AroundIsSet
  <2> QED
    BY <1>1, <2>1, <2>2, <2>3, <2>5
<1>5. configure \in Seq(S)
      /\ ToSet(configure) = IF s \in ConfiguredBefore THEN {}
           ELSE AroundSet({Setting("configuring")}, i, "configure",
                          {Setting("configured")})
  <2>1. PICK x, o, y : /\ x = SetState("configuring") /\ o = "configure"
                       /\ y = SetState("configured")
    OBVIOUS
  <2> HIDE DEF S
  <2>2. x \in Seq(S) /\ ToSet(x) = {Setting("configuring")}
    BY <1>3, <2>1
  <2>3. y \in Seq(S) /\ ToSet(y) = {Setting("configured")}
    BY <1>3, <2>1
  <2>4. x \in Seq(S) /\ y \in Seq(S) /\ Operating(o) \in S
    BY <1>2, <2>1, <2>2, <2>3 DEF Made
  <2>5. /\ Around(x, i, o, y) \in Seq(S)
        /\ ToSet(Around(x, i, o, y)) = AroundSet(ToSet(x), i, o, ToSet(y))
    BY <2>4, AroundIsSet
  <2> QED
    BY <1>1, <2>1, <2>2, <2>3, <2>5
<1>6. start \in Seq(S)
      /\ ToSet(start) = IF s = "started" THEN {}
           ELSE AroundSet({Setting("starting")}, i, "start", {})
  <2>1. PICK x, o, y : x = SetState("starting") /\ o = "start" /\ y = <<>>
    OBVIOUS
  <2> HIDE DEF S
  <2>2. x \in Seq(S) /\ ToSet(x) = {Setting("starting")}
    BY <1>3, <2>1
  <2>3. y \in Seq(S) /\ ToSet(y) = {}
    BY <1>1, <2>1
  <2>4. x \in Seq(S) /\ y \in Seq(S) /\ Operating(o) \in S
    BY <1>2, <2>1, <2>2, <2>3 DEF Made
  <2>5. /\ Around(x, i, o, y) \in Seq(S)
        /\ ToSet(Around(x, i, o, y)) = AroundSet(ToSet(x), i, o, ToSet(y))
    BY <2>4, AroundIsSet
  <2> QED
    BY <1>1, <2>1, <2>2, <2>3, <2>5
<1>7. establish \in Seq(S)
      /\ ToSet(establish) = IF s = "started" THEN {} ELSE Relating("establish", ts)
  <2>1. PICK u : u = "establish"
    OBVIOUS
  <2>2. Relate(u, tt) \in Seq(S) /\ ToSet(Relate(u, tt)) = Relating(u, ToSet(tt))
    BY <2>1, RelateIsSet
  <2> QED
    BY <1>1, <2>1, <2>2
<1>8. end \in Seq(S) /\ ToSet(end) = {Setting("started")}
  BY <1>3
<1>9. first \in Seq(S) /\ ToSet(first) \subseteq {Setting("initializing")}
  <2> HIDE DEF work
  <2> QED
    BY <1>1, <1>3
<1>10. Install(i, s, tt) = (first \o work) \o end
  BY DEF Install
<1>11. work = ((create \o configure) \o start) \o establish
  OBVIOUS
<1> HIDE DEF S, create, configure, start, establish, work, first, end
<1>0. /\ create \in Seq(S) /\ configure \in Seq(S) /\ start \in Seq(S)
      /\ establish \in Seq(S) /\ first \in Seq(S) /\ end \in Seq(S)
  BY <1>4, <1>5, <1>6, <1>7, <1>8, <1>9
<1>12. create \o configure \in Seq(S)
       /\ ToSet(create \o configure) = ToSet(create) \cup ToSet(configure)
  BY <1>0, ConcatIsSet
<1>13. PICK x \in Seq(S) : x = create \o configure
  BY <1>12
<1>14. x \o start \in Seq(S) /\ ToSet(x \o start) = ToSet(x) \cup ToSet(start)
  BY <1>0, ConcatIsSet
<1>15. PICK y \in Seq(S) : y = x \o start
  BY <1>14
<1>16. y \o establish \in Seq(S)
       /\ ToSet(y \o establish) = ToSet(y) \cup ToSet(establish)
  BY <1>0, ConcatIsSet
<1>17. work = y \o establish
  BY <1>11, <1>13, <1>15
<1>18. work \in Seq(S)
  BY <1>16, <1>17
<1>19. first \o work \in Seq(S)
       /\ ToSet(first \o work) = ToSet(first) \cup ToSet(work)
  BY <1>0, <1>18, ConcatIsSet
<1>20. PICK z \in Seq(S) : z = first \o work
  BY <1>19
<1>21. z \o end \in Seq(S) /\ ToSet(z \o end) = ToSet(z) \cup ToSet(end)
  BY <1>0, ConcatIsSet
<1>22. ToSet(work) = WorkSet(i, s, ts)
  BY <1>4, <1>5, <1>6, <1>7, <1>12, <1>13, <1>14, <1>15, <1>16, <1>17
     DEF WorkSet
<1>23. Install(i, s, tt) = z \o end
  BY <1>10, <1>20
<1> QED
  BY <1>8, <1>9, <1>19, <1>20, <1>21, <1>22, <1>23

-----------------------------------------------------------------------------
(* Plans that do what their graph is for *)

\* What a plan has to lead to, in a graph of that kind.
Meets(kind, b) == /\ kind = "install" => b.st = "started"
                  /\ kind = "uninstall" => b.st = "deleted" /\ b.may = {}
Works(i, kind, ts, a, s) ==
    \E b \in Assertions : Leads(i, kind, ts, a, s, b) /\ Meets(kind, b)

\* The plan of an instance of a graph, the one that is built again after a
\* failure, and whether that one lacks what the present state asks for.
SubgraphOf(i, kind, s, tt) ==
    CASE kind = "install" -> Install(i, s, tt)
      [] kind = "uninstall" -> Uninstall(i, s, tt)
      [] OTHER -> Rollback(i, s, tt)
RebuiltOf(i, kind, s, tt) ==
    IF kind = "install" THEN Reinstall(i, s, tt) ELSE Uninstall(i, s, tt)
LacksOf(i, kind, st, s, tt) ==
    \/ ~(ToSet(Uninstall(i, st, tt)) \subseteq ToSet(Uninstall(i, s, tt)))
    \/ /\ kind = "install"
       /\ ~(ToSet(Install(i, "deleted", tt)) \subseteq ToSet(Install(i, s, tt)))

LEMMA WorksIs ==
    ASSUME NEW i, NEW kind, NEW ts, NEW a, NEW s, NEW b,
           Leads(i, kind, ts, a, s, b), Meets(kind, b)
    PROVE  Works(i, kind, ts, a, s)
BY LeadsHolds DEF Works

\* The plan for the state that an instance is in does what its graph is for.
LEMMA SubgraphWorks ==
    ASSUME NEW i \in Instances, NEW kind \in Kinds, NEW ts \in SUBSET Instances,
           NEW tt \in Seq(ts), ToSet(tt) = ts,
           NEW a \in Assertions, Holds(i, ts, a), a.may \subseteq Real[i] \cup ts
    PROVE  Works(i, kind, ts, a, SubgraphOf(i, kind, a.st, tt))
<1>1. a.st \in States /\ Claims(i, ts, a.st) \subseteq a.sure
      /\ Denied(a.st) \cap a.may = {}
  BY DEF Holds, Assertions
<1>2. CASE kind = "install"
  <2>1. a.st \in CreatedBefore => {"create"} \cap Real[i] \subseteq a.sure
    BY <1>1 DEF Claims, Made
  <2>2. a.st \in ConfiguredBefore => {"configure"} \cap Real[i] \subseteq a.sure
    BY <1>1 DEF Claims, Made
  <2>3. a.st = "started" => ({"start"} \cap Real[i]) \cup ts \subseteq a.sure
    BY <1>1 DEF Claims, Made
  <2>4. PICK s \in States : s = a.st
    BY <1>1
  <2>5. PICK b : Leads(i, "install", ts, a, Install(i, s, tt), b)
                 /\ b.st = "started"
    BY <2>1, <2>2, <2>3, <2>4, InstallLeads
  <2>6. Meets(kind, b)
    BY <1>2, <2>5 DEF Meets
  <2>7. SubgraphOf(i, kind, a.st, tt) = Install(i, s, tt)
    BY <1>2, <2>4 DEF SubgraphOf
  <2> QED
    BY <1>2, <2>5, <2>6, <2>7, WorksIs
<1>3. CASE kind = "uninstall"
  <2>1. a.st \in NotStarted => "start" \notin a.may
    BY <1>1 DEF Denied, Whats, Made
  <2>2. a.st \in NotThere => a.may = {}
    BY <1>1 DEF Denied, Assertions
  <2>4. PICK s \in States : s = a.st
    BY <1>1
  <2>5. PICK b : /\ Leads(i, kind, ts, a, Uninstall(i, s, tt), b)
                 /\ b.st = "deleted" /\ b.may = {}
    BY <2>1, <2>2, <2>4, UninstallLeads
  <2>6. Meets(kind, b)
    BY <1>3, <2>5 DEF Meets
  <2>7. SubgraphOf(i, kind, a.st, tt) = Uninstall(i, s, tt)
    BY <1>3, <2>4 DEF SubgraphOf
  <2> QED
    BY <2>5, <2>6, <2>7, WorksIs
<1>4. CASE kind = "rollback"
  <2>1. PICK b : Leads(i, "rollback", ts, a, Rollback(i, a.st, tt), b)
    BY RollbackLeads
  <2>2. Meets(kind, b)
    BY <1>4 DEF Meets
  <2>3. SubgraphOf(i, kind, a.st, tt) = Rollback(i, a.st, tt)
    BY <1>4 DEF SubgraphOf
  <2> QED
    BY <1>4, <2>1, <2>2, <2>3, WorksIs
<1> QED
  BY <1>2, <1>3, <1>4 DEF Kinds

\* Rebuilt by a state that lacks nothing which the present one asks for.
LEMMA UninstallWorks ==
    ASSUME NEW i \in Instances, NEW kind \in Kinds, NEW ts \in SUBSET Instances,
           NEW tt \in Seq(ts), ToSet(tt) = ts, NEW s \in States,
           NEW a \in Assertions, Holds(i, ts, a), a.may \subseteq Real[i] \cup ts,
           ToSet(Uninstall(i, a.st, tt)) \subseteq ToSet(Uninstall(i, s, tt))
    PROVE  \E b : /\ Leads(i, kind, ts, a, Uninstall(i, s, tt), b)
                  /\ b.st = "deleted" /\ b.may = {}
<1>1. a.st \in States /\ Denied(a.st) \cap a.may = {} /\ a.may \subseteq Whats
  BY DEF Holds, Assertions
<1>2. PICK st \in States : st = a.st
  BY <1>1
<1>3. UninstallSet(i, st, ts) \subseteq UninstallSet(i, s, ts)
  BY <1>2, UninstallIsSet
<1>4. s \in NotStarted => st \in NotStarted
  <2>1. st \notin NotStarted => Setting("stopping") \in UninstallSet(i, st, ts)
    BY DEF UninstallSet
  <2>2. Setting("stopping") \in UninstallSet(i, s, ts) => s \notin NotStarted
    BY DEF UninstallSet, AroundSet, Setting, Operating, Relating
  <2> QED
    BY <1>3, <2>1, <2>2
<1>5. s \in StoppedBefore => st \in StoppedBefore
  <2>1. st \notin StoppedBefore => Setting("stopped") \in UninstallSet(i, st, ts)
    BY DEF UninstallSet
  <2>2. Setting("stopped") \in UninstallSet(i, s, ts) => s \notin StoppedBefore
    BY DEF UninstallSet, AroundSet, Setting, Operating, Relating
  <2> QED
    BY <1>3, <2>1, <2>2
<1>6. s = "deleted" => st = "deleted"
  <2>1. st # "deleted" => Setting("deleted") \in UninstallSet(i, st, ts)
    BY DEF UninstallSet
  <2>2. Setting("deleted") \in UninstallSet(i, s, ts) => s # "deleted"
    BY DEF UninstallSet, AroundSet, Setting, Operating, Relating
  <2> QED
    BY <1>3, <2>1, <2>2
<1>7. s \in NotStarted => "start" \notin a.may
  BY <1>1, <1>2, <1>4 DEF Denied, Whats, Made
<1>8. s \in NotThere => a.may = {}
  <2> SUFFICES ASSUME s \in NotThere
               PROVE  a.may = {}
    OBVIOUS
  <2>1. CASE st \in NotThere
    BY <1>1, <1>2, <2>1 DEF Denied
  <2>2. CASE st \notin NotThere
    <3>1. Relating("unlink", ts) \subseteq UninstallSet(i, st, ts)
          /\ (~IsNop(i, "delete") => Operating("delete") \in UninstallSet(i, st, ts))
      BY <2>2 DEF UninstallSet, AroundSet
    <3>2. \A x \in UninstallSet(i, s, ts) : x.do # "unlink" /\ x # Operating("delete")
      BY DEF UninstallSet, AroundSet, Setting, Operating, Relating
    <3>3. ts = {}
      <4>1. \A t \in ts : [do |-> "unlink", what |-> t] \in UninstallSet(i, s, ts)
        BY <1>3, <3>1 DEF Relating
      <4> QED
        BY <3>2, <4>1
    <3>4. "create" \notin Real[i] /\ "configure" \notin Real[i]
      BY <1>3, <3>1, <3>2 DEF IsNop, Undone
    <3>5. "start" \notin a.may
      BY <1>7 DEF NotStarted, NotThere, StoppedBefore
    <3> QED
      BY <3>3, <3>4, <3>5, MadeAreNotInstances DEF Made
  <2> QED
    BY <2>1, <2>2
<1> QED
  BY <1>2, <1>5, <1>6, <1>7, <1>8, UninstallLeads

\* The plan built again does too, unless it lacks something.
LEMMA RebuiltWorks ==
    ASSUME NEW i \in Instances, NEW kind \in Kinds, NEW ts \in SUBSET Instances,
           NEW tt \in Seq(ts), ToSet(tt) = ts, NEW s \in States,
           NEW a \in Assertions, Holds(i, ts, a), a.may \subseteq Real[i] \cup ts,
           ~LacksOf(i, kind, a.st, s, tt)
    PROVE  Works(i, kind, ts, a, RebuiltOf(i, kind, s, tt))
<1>1. ToSet(Uninstall(i, a.st, tt)) \subseteq ToSet(Uninstall(i, s, tt))
  BY DEF LacksOf
<1>2. PICK b : /\ Leads(i, kind, ts, a, Uninstall(i, s, tt), b)
               /\ b.st = "deleted" /\ b.may = {}
  BY <1>1, UninstallWorks
<1>3. CASE kind # "install"
  BY <1>2, <1>3, WorksIs DEF Meets, RebuiltOf
<1>4. CASE kind = "install"
  <2>1. b \in Assertions /\ Holds(i, ts, b)
    BY <1>2, LeadsHolds
  <2>2. ToSet(Install(i, "deleted", tt)) \subseteq ToSet(Install(i, s, tt))
    BY <1>4 DEF LacksOf
  <2>3. WorkSet(i, "deleted", ts) \subseteq
          WorkSet(i, s, ts) \cup {Setting("initializing"), Setting("started")}
    BY <2>2, InstallIsSet
  <2>4. s \in CreatedBefore => {"create"} \cap Real[i] \subseteq b.sure
    <3>1. "create" \in Real[i] => Operating("create") \in WorkSet(i, "deleted", ts)
      BY DEF WorkSet, AroundSet, IsNop, CreatedBefore
    <3>2. Operating("create") \in WorkSet(i, s, ts) => s \notin CreatedBefore
      BY DEF WorkSet, AroundSet, Setting, Operating, Relating
    <3>3. Operating("create") \notin {Setting("initializing"), Setting("started")}
      BY DEF Setting, Operating
    <3> QED
      BY <2>3, <3>1, <3>2, <3>3
  <2>5. s \in ConfiguredBefore => {"configure"} \cap Real[i] \subseteq b.sure
    <3>1. "configure" \in Real[i] => Operating("configure") \in WorkSet(i, "deleted", ts)
      BY DEF WorkSet, AroundSet, IsNop, ConfiguredBefore
    <3>2. Operating("configure") \in WorkSet(i, s, ts) => s \notin ConfiguredBefore
      BY DEF WorkSet, AroundSet, Setting, Operating, Relating
    <3>3. Operating("configure") \notin {Setting("initializing"), Setting("started")}
      BY DEF Setting, Operating
    <3> QED
      BY <2>3, <3>1, <3>2, <3>3
  <2>6. s = "started" => ({"start"} \cap Real[i]) \cup ts \subseteq b.sure
    <3> SUFFICES ASSUME s = "started"
                 PROVE  "start" \notin Real[i] /\ ts = {}
      OBVIOUS
    <3>1. "start" \in Real[i] => Operating("start") \in WorkSet(i, "deleted", ts)
      BY DEF WorkSet, AroundSet, IsNop
    <3>2. Relating("establish", ts) \subseteq WorkSet(i, "deleted", ts)
      BY DEF WorkSet
    <3>3. \A x \in WorkSet(i, s, ts) \cup {Setting("initializing"), Setting("started")} :
             x.do # "establish" /\ x # Operating("start")
      BY DEF WorkSet, AroundSet, Setting, Operating, Relating
    <3>4. ts = {}
      <4>1. \A t \in ts : [do |-> "establish", what |-> t]
               \in WorkSet(i, s, ts) \cup {Setting("initializing"), Setting("started")}
        BY <2>3, <3>2 DEF Relating
      <4> QED
        BY <3>3, <4>1
    <3> QED
      BY <2>3, <3>1, <3>3, <3>4
  <2>7. PICK c : Leads(i, "install", ts, b, Install(i, s, tt), c) /\ c.st = "started"
    BY <2>1, <2>4, <2>5, <2>6, InstallLeads
  <2>8. PICK x, y : x = Uninstall(i, s, tt) /\ y = Install(i, s, tt)
    OBVIOUS
  <2>9. Leads(i, kind, ts, a, x, b) /\ Leads(i, kind, ts, b, y, c)
    BY <1>2, <1>4, <2>7, <2>8
  <2>10. Leads(i, kind, ts, a, x \o y, c)
    BY <2>9, LeadsOn
  <2>11. Meets(kind, c)
    BY <1>4, <2>7 DEF Meets
  <2>12. RebuiltOf(i, kind, s, tt) = x \o y
    BY <1>4, <2>8 DEF RebuiltOf, Reinstall
  <2> QED
    BY <2>10, <2>11, <2>12, WorksIs
<1> QED
  BY <1>3, <1>4

LEMMA EntailsHolds ==
    ASSUME NEW i, NEW ts, NEW x, NEW y, Entails(x, y), Holds(i, ts, y)
    PROVE  Holds(i, ts, x)
BY DEF Entails, Holds

\* Fewer relationships, fewer claims.
LEMMA HoldsOfFewer ==
    ASSUME NEW i, NEW ts, NEW us, us \subseteq ts, NEW x, Holds(i, ts, x)
    PROVE  Holds(i, us, x)
BY DEF Holds, Claims

\* A plan that works is a plan, and the state it starts from is true.
LEMMA WorksHolds ==
    ASSUME NEW i, NEW kind, NEW ts, NEW a, NEW s, Works(i, kind, ts, a, s)
    PROVE  a \in Assertions /\ Holds(i, ts, a) /\ s \in Seq(TasksOf(kind, ts))
<1>1. PICK b \in Assertions : Leads(i, kind, ts, a, s, b)
  BY DEF Works
<1>2. PICK T : T = TasksOf(kind, ts)
  OBVIOUS
<1>3. s \in Seq(T) /\ Outline(i, kind, ts, a, s, b)
  BY <1>1, <1>2 DEF Leads
<1> QED
  BY <1>2, <1>3, OutlineEnds

\* Nothing left to do: what the plan has to lead to is there.
LEMMA WorksDone ==
    ASSUME NEW i, NEW kind, NEW ts, NEW a, Works(i, kind, ts, a, <<>>)
    PROVE  Meets(kind, a)
<1>1. PICK b \in Assertions : Leads(i, kind, ts, a, <<>>, b) /\ Meets(kind, b)
  BY DEF Works
<1>2. PICK T, s : T = TasksOf(kind, ts) /\ s = <<>>
  OBVIOUS
<1>3. s \in Seq(T) /\ Outline(i, kind, ts, a, s, b)
  BY <1>1, <1>2 DEF Leads
<1>4. a = b
  BY <1>2, <1>3, OutlineEnds
<1> QED
  BY <1>1, <1>4

\* To know more before is to know more after.
LEMMA PostKeepsOrder ==
    ASSUME NEW i, NEW kind, NEW t, NEW x, NEW y, Entails(x, y)
    PROVE  Entails(Post(i, kind, t, x), Post(i, kind, t, y))
<1>1. PICK p, q : p = Post(i, kind, t, x) /\ q = Post(i, kind, t, y)
  OBVIOUS
<1>2. /\ p.st = IF t.do = "set_state" THEN t.what ELSE x.st
      /\ p.sure = (x.sure \ Loses(t)) \cup Gains(i, t)
      /\ p.may = ((x.may \ Loses(t)) \cup Gains(i, t)) \ Exempt(kind, t)
      /\ q.st = IF t.do = "set_state" THEN t.what ELSE y.st
      /\ q.sure = (y.sure \ Loses(t)) \cup Gains(i, t)
      /\ q.may = ((y.may \ Loses(t)) \cup Gains(i, t)) \ Exempt(kind, t)
  BY <1>1 DEF Post
<1>3. Entails(p, q)
  BY <1>2 DEF Entails
<1> QED
  BY <1>1, <1>3

LEMMA EntailsTrans ==
    ASSUME NEW x, NEW y, NEW z, Entails(x, y), Entails(y, z)
    PROVE  Entails(x, z)
BY DEF Entails

\* After the first task of a plan the rest of it still works.
LEMMA WorksTail ==
    ASSUME NEW i, NEW kind, NEW ts, NEW a, NEW s, s # <<>>,
           Works(i, kind, ts, a, s), NEW x, Entails(x, a),
           NEW y, Entails(y, Post(i, kind, Head(s), x))
    PROVE  \E d : Entails(y, d) /\ Works(i, kind, ts, d, Tail(s))
<1>1. PICK b \in Assertions : Leads(i, kind, ts, a, s, b) /\ Meets(kind, b)
  BY DEF Works
<1>2. PICK T : T = TasksOf(kind, ts)
  OBVIOUS
<1>3. s \in Seq(T) /\ Outline(i, kind, ts, a, s, b)
  BY <1>1, <1>2 DEF Leads
<1>4. PICK d \in Assertions : /\ Entails(Post(i, kind, Head(s), a), d)
                              /\ Outline(i, kind, ts, d, Tail(s), b)
  BY <1>3, OutlineTail
<1>5. Tail(s) \in Seq(T)
  BY <1>3
<1>6. Leads(i, kind, ts, d, Tail(s), b)
  BY <1>2, <1>4, <1>5 DEF Leads
<1>7. Works(i, kind, ts, d, Tail(s))
  BY <1>1, <1>6 DEF Works
<1>8. Entails(y, d)
  <2>1. PICK p, q : p = Post(i, kind, Head(s), x) /\ q = Post(i, kind, Head(s), a)
    OBVIOUS
  <2>2. Entails(p, q)
    BY <2>1, PostKeepsOrder
  <2>3. Entails(q, d) /\ Entails(y, p)
    BY <1>4, <2>1
  <2> QED
    BY <2>2, <2>3, EntailsTrans
<1> QED
  BY <1>7, <1>8

\* Plans are made of the tasks of their kind of graph.
LEMMA SubgraphIsSeq ==
    ASSUME NEW i \in Instances, NEW kind \in Kinds, NEW ts \in SUBSET Instances,
           NEW tt \in Seq(ts), ToSet(tt) = ts, NEW s \in States
    PROVE  SubgraphOf(i, kind, s, tt) \in Seq(TasksOf(kind, ts))
<1> DEFINE a == [st |-> s, sure |-> Whats, may |-> {}]
<1>1. a \in Assertions /\ a.st = s /\ a.sure = Whats /\ a.may = {}
  BY DEF Assertions
<1> HIDE DEF a
<1>2. Claims(i, ts, s) \subseteq Whats
  BY DEF Claims, Whats
<1>3. Holds(i, ts, a)
  BY <1>1, <1>2 DEF Holds
<1>4. Works(i, kind, ts, a, SubgraphOf(i, kind, a.st, tt))
  BY <1>1, <1>3, SubgraphWorks
<1>5. PICK x : x = SubgraphOf(i, kind, s, tt)
  OBVIOUS
<1>6. Works(i, kind, ts, a, x)
  BY <1>1, <1>4, <1>5
<1> QED
  BY <1>5, <1>6, WorksHolds

LEMMA RebuiltIsSeq ==
    ASSUME NEW i \in Instances, NEW kind \in Kinds, NEW ts \in SUBSET Instances,
           NEW tt \in Seq(ts), ToSet(tt) = ts, NEW s \in States
    PROVE  RebuiltOf(i, kind, s, tt) \in Seq(TasksOf(kind, ts))
<1> DEFINE a == [st |-> s, sure |-> Whats, may |-> {}]
<1>1. a \in Assertions /\ a.st = s /\ a.sure = Whats /\ a.may = {}
  BY DEF Assertions
<1> HIDE DEF a
<1>2. Claims(i, ts, s) \subseteq Whats
  BY DEF Claims, Whats
<1>3. Holds(i, ts, a)
  BY <1>1, <1>2 DEF Holds
<1>4. PICK b : Leads(i, kind, ts, a, Uninstall(i, s, tt), b)
  BY <1>1, <1>3, UninstallWorks
<1>5. Uninstall(i, s, tt) \in Seq(TasksOf(kind, ts))
  BY <1>4 DEF Leads
<1>6. CASE kind = "install"
  <2>1. SubgraphOf(i, kind, s, tt) \in Seq(TasksOf(kind, ts))
    BY SubgraphIsSeq
  <2>2. SubgraphOf(i, kind, s, tt) = Install(i, s, tt)
    BY <1>6 DEF SubgraphOf
  <2>3. PICK x, y : x = Uninstall(i, s, tt) /\ y = Install(i, s, tt)
    OBVIOUS
  <2>4. x \o y \in Seq(TasksOf(kind, ts))
    BY <1>5, <2>1, <2>2, <2>3
  <2> QED
    BY <1>6, <2>3, <2>4 DEF RebuiltOf, Reinstall
<1> QED
  BY <1>5, <1>6 DEF RebuiltOf

\* The targets that are there, of an instance.
LEMMA AmongTargets ==
    ASSUME NEW i \in Instances, NEW D
    PROVE  /\ Among(Targets[i], D) \in Seq(ToSet(Among(Targets[i], D)))
           /\ ToSet(Among(Targets[i], D)) = ToSet(Targets[i]) \cap D
           /\ ToSet(Among(Targets[i], D)) \subseteq Instances
<1>1. PICK s \in Seq(Instances) : s = Targets[i]
  BY MadeAreNotInstances
<1>2. PICK x : x = Among(s, D)
  OBVIOUS
<1>3. x \in Seq(Instances) /\ ToSet(x) = ToSet(s) \cap D
  BY <1>2, AmongKeeps
<1>4. x \in Seq(ToSet(x))
  BY <1>3 DEF ToSet
<1>5. ToSet(x) \subseteq Instances
  BY <1>3 DEF ToSet
<1> QED
  BY <1>1, <1>2, <1>3, <1>4, <1>5

-----------------------------------------------------------------------------
(* What lands and what is known *)

\* What is known of an instance now, and the targets it has in the deployment.
Now(i) == [st   |-> state[i],
           sure |-> {w \in Whats : <<i, w>> \in inforce \cup unrecorded},
           may  |-> {w \in Whats : <<i, w>> \in inforce /\ ~Excused(<<i, w>>)}]
RelSet(i) == ToSet(Rels(i))

\* What the head of a plan loses and gains, of those in S that land.
Lost(i, S) == IF i \in S THEN Loses(Head(plan[i])) ELSE {}
Gained(i, S) == IF i \in S THEN Gains(i, Head(plan[i])) ELSE {}
\* What is in force when the heads of the plans of S land, and that some do.
Landed(facts, S) ==
    (facts \ UNION {Removes(i, Head(plan[i])) : i \in S})
    \cup UNION {Adds(i, Head(plan[i])) : i \in S}
SomeLand ==
    \E S \in SUBSET {j \in Instances : InFlight(j)} : inforce' = Landed(inforce, S)

\* What is added and removed is of the instance of the task.
LEMMA AddsIs ==
    ASSUME NEW i, NEW t
    PROVE  /\ \A j, w : <<j, w>> \in Adds(i, t) <=> j = i /\ w \in Gains(i, t)
           /\ \A j, w : <<j, w>> \in Removes(i, t) <=> j = i /\ w \in Loses(t)
<1>1. CASE t.do = "establish"
  BY <1>1 DEF Adds, Removes, Gains, Loses
<1>2. CASE t.do = "unlink"
  BY <1>2 DEF Adds, Removes, Gains, Loses
<1>3. CASE t.do = "operation"
  <2>1. Adds(i, t) = {<<i, t.what>>} \cap ({i} \X Real[i]) /\ Removes(i, t) = {i} \X Undone(t.what)
        /\ Gains(i, t) = {t.what} \cap Real[i] /\ Loses(t) = Undone(t.what)
    BY <1>3 DEF Adds, Removes, Gains, Loses
  <2> QED
    BY <2>1
<1>4. CASE t.do \notin {"establish", "unlink", "operation"}
  BY <1>4 DEF Adds, Removes, Gains, Loses
<1> QED
  BY <1>1, <1>2, <1>3, <1>4

LEMMA LandedIs ==
    ASSUME NEW S, NEW j, NEW w
    PROVE  <<j, w>> \in Landed(inforce, S) <=>
              \/ <<j, w>> \in inforce /\ w \notin Lost(j, S)
              \/ w \in Gained(j, S)
<1>1. <<j, w>> \in UNION {Removes(i, Head(plan[i])) : i \in S} <=> w \in Lost(j, S)
  BY AddsIs DEF Lost
<1>2. <<j, w>> \in UNION {Adds(i, Head(plan[i])) : i \in S} <=> w \in Gained(j, S)
  BY AddsIs DEF Gained
<1> QED
  BY <1>1, <1>2 DEF Landed

LEMMA AfterIsLanded ==
    ASSUME NEW i
    PROVE  /\ After(inforce, i, Head(plan[i])) = Landed(inforce, {i})
           /\ inforce = Landed(inforce, {})
BY DEF After, Landed

\* The step lands the heads of the plans of S, of which made has come about as
\* tasks that succeeded; over is given up.
Moves(S, made, over) ==
    /\ S \subseteq Instances
    /\ inforce' = Landed(inforce, S)
    /\ \A j, w : <<j, w>> \in made => w \in Gained(j, S)
    /\ Recorded(made)
    /\ misled \subseteq misled'
    /\ (abandoned \cup over) \cap (inforce' \ made) \subseteq abandoned'

\* What is excused stays excused, and what is known follows the facts.
LEMMA ExcusedStays ==
    ASSUME NEW S, NEW made, NEW over, Moves(S, made, over),
           NEW f, f \in inforce, f \in inforce', f \notin made,
           Excused(f) \/ f \in over
    PROVE  Excused(f)'
<1>1. CASE f \in abandoned \/ f \in over
  <2>1. f \in abandoned'
    BY <1>1 DEF Moves
  <2> QED
    BY <2>1 DEF Excused
<1>2. CASE f \in unrecorded
  <2>1. f \in unrecorded'
    BY <1>2 DEF Moves, Recorded
  <2> QED
    BY <2>1 DEF Excused
<1>3. CASE f[1] \in misled \/ f[2] \in misled
  <2>1. f[1] \in misled' \/ f[2] \in misled'
    BY <1>3 DEF Moves
  <2> QED
    BY <2>1 DEF Excused
<1> QED
  BY <1>1, <1>2, <1>3 DEF Excused

LEMMA NowMoves ==
    ASSUME NEW S, NEW made, NEW over, Moves(S, made, over),
           inforce \subseteq Instances \X Whats, NEW j \in Instances
    PROVE  /\ \A w \in Whats :
                 (w \in Now(j).sure /\ w \notin Lost(j, S)) \/ w \in Gained(j, S)
                    => w \in (Now(j).sure)'
           /\ \A w \in (Now(j).may)' :
                 /\ w \in Whats
                 /\ (w \in Now(j).may /\ w \notin Lost(j, S)) \/ w \in Gained(j, S)
                 /\ <<j, w>> \in over => <<j, w>> \in made
<1>1. /\ Now(j).sure = {w \in Whats : <<j, w>> \in inforce \cup unrecorded}
      /\ Now(j).may = {w \in Whats : <<j, w>> \in inforce /\ ~Excused(<<j, w>>)}
      /\ (Now(j).sure)' = {w \in Whats : <<j, w>> \in inforce' \cup unrecorded'}
      /\ (Now(j).may)' = {w \in Whats : <<j, w>> \in inforce' /\ ~Excused(<<j, w>>)'}
  BY DEF Now
<1>2. \A w : <<j, w>> \in inforce' <=>
              \/ <<j, w>> \in inforce /\ w \notin Lost(j, S)
              \/ w \in Gained(j, S)
  BY LandedIs DEF Moves
<1>3. ASSUME NEW w \in Whats,
             (w \in Now(j).sure /\ w \notin Lost(j, S)) \/ w \in Gained(j, S)
      PROVE  <<j, w>> \in inforce' \cup unrecorded'
  <2>1. CASE w \in Gained(j, S) \/ <<j, w>> \in inforce
    BY <1>2, <1>3, <2>1
  <2>2. CASE w \notin Gained(j, S) /\ <<j, w>> \notin inforce
    <3>1. <<j, w>> \in unrecorded /\ <<j, w>> \notin inforce'
      BY <1>1, <1>2, <1>3, <2>2
    <3>2. <<j, w>> \notin made
      BY <2>2 DEF Moves
    <3> QED
      BY <2>2, <3>1, <3>2 DEF Moves, Recorded
  <2> QED
    BY <2>1, <2>2
<1>4. ASSUME NEW w \in (Now(j).may)'
      PROVE  /\ w \in Whats
             /\ (w \in Now(j).may /\ w \notin Lost(j, S)) \/ w \in Gained(j, S)
             /\ <<j, w>> \in over => <<j, w>> \in made
  <2>1. w \in Whats /\ <<j, w>> \in inforce' /\ ~Excused(<<j, w>>)'
    BY <1>1, <1>4
  <2>2. w \notin Gained(j, S) =>
           <<j, w>> \in inforce /\ w \notin Lost(j, S) /\ <<j, w>> \notin made
    BY <1>2, <2>1 DEF Moves
  <2>3. w \notin Gained(j, S) => ~Excused(<<j, w>>)
    <3> PICK f : f = <<j, w>>
      OBVIOUS
    <3>1. (f \in inforce /\ f \in inforce' /\ f \notin made) => (Excused(f) => Excused(f)')
      BY ExcusedStays
    <3> QED
      BY <2>1, <2>2, <3>1
  <2>4. <<j, w>> \in over => <<j, w>> \in made
    <3>1. <<j, w>> \in abandoned' => Excused(<<j, w>>)'
      BY DEF Excused
    <3> QED
      BY <2>1, <3>1 DEF Moves
  <2> QED
    BY <1>1, <2>1, <2>2, <2>3, <2>4
<1> QED
  BY <1>1, <1>3, <1>4

-----------------------------------------------------------------------------
(* The parts of the invariant *)

\* The tasks of a stub.
LinkTasks(kind, ts) == IF kind = "install" THEN [do : {"establish"}, what : ts]
                                           ELSE [do : {"unlink"}, what : ts]

\* The facts are of the instances and of their own targets.
FactsInv ==
    /\ state \in [Instances -> States] /\ seen \in [Instances -> States]
    /\ inforce \subseteq Instances \X Whats
    /\ \A i, w : <<i, w>> \in inforce => w \in Real[i] \cup ToSet(Targets[i])
    /\ unrecorded \subseteq Instances \X Instances
    /\ deployed \subseteq Instances

\* The plans are made of the tasks of their graph; without an instance in the
\* deployment there is none.
PlanInv ==
    /\ DOMAIN plan = Instances /\ plan = [i \in Instances |-> plan[i]]
    /\ \A i \in Instances :
          /\ i \notin deployed => plan[i] = <<>>
          /\ i \in graph.on => plan[i] \in Seq(TasksOf(graph.kind, RelSet(i)))
          /\ i \in deployed \ graph.on =>
                plan[i] \in Seq(LinkTasks(graph.kind, RelSet(i)))

\* Of every instance that was not misled, what is known leads, by the tasks that
\* are left, to what the graph is for; of the intact ones the state is true.
SoundInv ==
    \A i \in deployed \ misled :
       IF i \in graph.on
         THEN \E a : /\ Entails(Now(i), a)
                     /\ Works(i, graph.kind, RelSet(i), a, plan[i])
         ELSE Holds(i, RelSet(i), Now(i))
\* What is in force of an instance that has left the deployment, or is a link to
\* one, is excused.
LeftInv ==
    \A f \in inforce :
       (f[1] \notin deployed \/ f[2] \in Instances \ deployed) => Excused(f)

\* With no graph running, the state of each instance is true.
Calm == \A i \in deployed \ misled : Holds(i, RelSet(i), Now(i))

LEMMA RelSetIs ==
    ASSUME NEW i \in Instances
    PROVE  /\ Rels(i) \in Seq(RelSet(i)) /\ RelSet(i) \subseteq Instances
           /\ RelSet(i) = ToSet(Targets[i]) \cap deployed
BY AmongTargets DEF RelSet, Rels

LEMMA NowIs ==
    ASSUME FactsInv, LeftInv, NEW i \in Instances
    PROVE  /\ Now(i) \in Assertions /\ Now(i).st = state[i]
           /\ Now(i).may \subseteq Real[i] \cup RelSet(i)
<1>1. Now(i) \in Assertions /\ Now(i).st = state[i]
      /\ Now(i).may = {w \in Whats : <<i, w>> \in inforce /\ ~Excused(<<i, w>>)}
  BY DEF FactsInv, Now, Assertions
<1>2. ASSUME NEW w \in Now(i).may
      PROVE  w \in Real[i] \cup RelSet(i)
  <2>1. <<i, w>> \in inforce /\ ~Excused(<<i, w>>)
    BY <1>1, <1>2
  <2>2. w \in Real[i] \cup ToSet(Targets[i])
    BY <2>1 DEF FactsInv
  <2>3. CASE w \in ToSet(Targets[i])
    <3>1. w \in Instances
      BY <2>3, MadeAreNotInstances DEF ToSet
    <3>2. w \in deployed
      <4> PICK f : f = <<i, w>>
        OBVIOUS
      <4>1. f[2] = w /\ f \in inforce /\ ~Excused(f)
        BY <2>1
      <4> QED
        BY <3>1, <4>1 DEF LeftInv
    <3> QED
      BY <2>3, <3>2, RelSetIs
  <2> QED
    BY <2>2, <2>3
<1> QED
  BY <1>1, <1>2

LEMMA SoundIsCalm ==
    ASSUME SoundInv
    PROVE  Calm
BY WorksHolds, EntailsHolds DEF SoundInv, Calm

\* The head of a plan, and what it can bring about.
LEMMA HeadIs ==
    ASSUME FactsInv, PlanInv, NEW i \in Instances, plan[i] # <<>>, graph.on \subseteq deployed
    PROVE  /\ i \in deployed
           /\ i \in graph.on => Head(plan[i]) \in TasksOf(graph.kind, RelSet(i))
           /\ i \notin graph.on => Head(plan[i]) \in LinkTasks(graph.kind, RelSet(i))
           /\ Gains(i, Head(plan[i])) \subseteq Real[i] \cup RelSet(i)
           /\ Gains(i, Head(plan[i])) \subseteq Whats
<1>1. i \in deployed
  BY DEF PlanInv
<1>2. i \in graph.on => Head(plan[i]) \in TasksOf(graph.kind, RelSet(i))
  BY DEF PlanInv
<1>3. i \notin graph.on => Head(plan[i]) \in LinkTasks(graph.kind, RelSet(i))
  BY <1>1 DEF PlanInv
<1>4. PICK t : t = Head(plan[i])
  OBVIOUS
<1>5. t \in AnyTask(RelSet(i))
  BY <1>2, <1>3, <1>4 DEF AnyTask, TasksOf, LinkTasks, UndoTasks, DoTasks
<1>6. t.do = "establish" => t.what \in RelSet(i)
  BY <1>5 DEF AnyTask, UndoTasks, DoTasks
<1>7. Gains(i, t) \subseteq Real[i] \cup RelSet(i)
  BY <1>6 DEF Gains
<1>8. Gains(i, t) \subseteq Whats
  BY <1>7, RelSetIs, MadeAreNotInstances
<1> QED
  BY <1>1, <1>2, <1>3, <1>4, <1>7, <1>8

\* What is known after a task that succeeded, or that landed.
LEMMA PostMoves ==
    ASSUME NEW S, NEW made, NEW over, Moves(S, made, over), FactsInv,
           NEW j \in S, Gains(j, Head(plan[j])) \subseteq Whats,
           state'[j] = IF Head(plan[j]).do = "set_state" THEN Head(plan[j]).what
                                                         ELSE state[j],
           NEW kind, \A w \in Exempt(kind, Head(plan[j])) :
                        <<j, w>> \in over /\ <<j, w>> \notin made
    PROVE  Entails(Now(j)', Post(j, kind, Head(plan[j]), Now(j)))
<1>1. j \in Instances /\ inforce \subseteq Instances \X Whats
  BY DEF Moves, FactsInv
<1>2. PICK t : t = Head(plan[j])
  OBVIOUS
<1>3. Lost(j, S) = Loses(t) /\ Gained(j, S) = Gains(j, t)
  BY <1>2 DEF Lost, Gained
<1>4. PICK p : p = Post(j, kind, t, Now(j))
  OBVIOUS
<1>5. /\ p.st = IF t.do = "set_state" THEN t.what ELSE Now(j).st
      /\ p.sure = (Now(j).sure \ Loses(t)) \cup Gains(j, t)
      /\ p.may = ((Now(j).may \ Loses(t)) \cup Gains(j, t)) \ Exempt(kind, t)
  BY <1>4 DEF Post
<1>6. /\ Now(j).st = state[j] /\ Now(j)'.st = state'[j] /\ Now(j).sure \subseteq Whats
      /\ (Now(j).sure)' = Now(j)'.sure /\ (Now(j).may)' = Now(j)'.may
  BY DEF Now
<1>7. /\ \A w \in Whats :
            (w \in Now(j).sure /\ w \notin Loses(t)) \/ w \in Gains(j, t)
               => w \in Now(j)'.sure
      /\ \A w \in Now(j)'.may :
            /\ w \in Whats
            /\ (w \in Now(j).may /\ w \notin Loses(t)) \/ w \in Gains(j, t)
            /\ <<j, w>> \in over => <<j, w>> \in made
  BY <1>1, <1>3, <1>6, NowMoves
<1>8. Entails(Now(j)', p)
  BY <1>2, <1>5, <1>6, <1>7 DEF Entails
<1> QED
  BY <1>2, <1>4, <1>8

LEMMA NowStays ==
    ASSUME NEW S, NEW made, NEW over, Moves(S, made, over), FactsInv,
           NEW j \in Instances \ S, state'[j] = state[j]
    PROVE  Entails(Now(j)', Now(j))
<1>1. j \in Instances /\ inforce \subseteq Instances \X Whats
  BY DEF FactsInv
<1>2. Lost(j, S) = {} /\ Gained(j, S) = {}
  BY DEF Lost, Gained
<1>3. /\ Now(j).st = state[j] /\ Now(j)'.st = state'[j] /\ Now(j).sure \subseteq Whats
      /\ (Now(j).sure)' = Now(j)'.sure /\ (Now(j).may)' = Now(j)'.may
  BY DEF Now
<1>4. Now(j).sure \subseteq Now(j)'.sure /\ Now(j)'.may \subseteq Now(j).may
  BY <1>1, <1>2, <1>3, NowMoves
<1> QED
  BY <1>3, <1>4 DEF Entails

\* A stub changes links only, and remembers which are not as the state says.
LEMMA StubMoves ==
    ASSUME NEW S, NEW made, NEW over, Moves(S, made, over), FactsInv,
           NEW j \in S, InStub(j), NEW ts \in SUBSET Instances,
           NEW kind, Head(plan[j]) \in LinkTasks(kind, ts),
           state'[j] = state[j], NEW us, Holds(j, us, Now(j)), us \subseteq Instances
    PROVE  Holds(j, us, Now(j)')
<1>1. j \in Instances /\ inforce \subseteq Instances \X Whats
  BY DEF Moves, FactsInv
<1>2. PICK t \in LinkTasks(kind, ts) : t = Head(plan[j])
  OBVIOUS
<1>3. Lost(j, S) = Loses(t) /\ Gained(j, S) = Gains(j, t)
  BY <1>2 DEF Lost, Gained
<1>4. Loses(t) \subseteq Instances /\ Gains(j, t) \subseteq Instances
      /\ (Loses(t) # {} => Gains(j, t) = {})
  <2>1. t.do \in {"establish", "unlink"} /\ t.what \in ts
    BY <1>2 DEF LinkTasks
  <2> QED
    BY <2>1 DEF Loses, Gains
<1>5. /\ Now(j).st = state[j] /\ Now(j)'.st = state'[j] /\ Now(j).sure \subseteq Whats
      /\ (Now(j).sure)' = Now(j)'.sure /\ (Now(j).may)' = Now(j)'.may
      /\ Now(j).sure = {w \in Whats : <<j, w>> \in inforce \cup unrecorded}
      /\ Now(j).may = {w \in Whats : <<j, w>> \in inforce /\ ~Excused(<<j, w>>)}
      /\ Now(j)'.sure = {w \in Whats : <<j, w>> \in inforce' \cup unrecorded'}
      /\ Now(j)'.may = {w \in Whats : <<j, w>> \in inforce' /\ ~Excused(<<j, w>>)'}
  BY DEF Now
<1>6. /\ \A w \in Whats :
            (w \in Now(j).sure /\ w \notin Loses(t)) \/ w \in Gains(j, t)
               => w \in Now(j)'.sure
      /\ \A w \in Now(j)'.may :
            /\ w \in Whats
            /\ (w \in Now(j).may /\ w \notin Loses(t)) \/ w \in Gains(j, t)
  BY <1>1, <1>3, <1>5, NowMoves
<1>7. \A w : <<j, w>> \in inforce' <=>
              \/ <<j, w>> \in inforce /\ w \notin Loses(t)
              \/ w \in Gains(j, t)
  BY <1>3, LandedIs DEF Moves
<1>8. \A w \in Instances :
         (<<j, w>> \in inforce /\ <<j, w>> \notin inforce') \/
         (<<j, w>> \notin inforce /\ <<j, w>> \in inforce')
            => (<<j, w>> \in unrecorded' <=> ((<<j, w>> \in inforce') # (state[j] = "started")))
  <2> SUFFICES ASSUME NEW w \in Instances,
                      (<<j, w>> \in inforce /\ <<j, w>> \notin inforce') \/
                      (<<j, w>> \notin inforce /\ <<j, w>> \in inforce')
               PROVE  <<j, w>> \in unrecorded' <=>
                         ((<<j, w>> \in inforce') # (state[j] = "started"))
    OBVIOUS
  <2> PICK f : f = <<j, w>>
    OBVIOUS
  <2>1. f[1] = j /\ f[2] = w
    OBVIOUS
  <2>2. f \in (inforce' \ inforce) \cup (inforce \ inforce') \cup made
    OBVIOUS
  <2>3. f \in unrecorded' <=> ((f \in inforce') # (state[f[1]] = "started"))
    BY <2>1, <2>2 DEF Moves, Recorded
  <2> QED
    BY <2>1, <2>3
<1>9. Claims(j, us, state[j]) \subseteq Now(j)'.sure
  <2> SUFFICES ASSUME NEW w \in Claims(j, us, state[j])
               PROVE  w \in Now(j)'.sure
    OBVIOUS
  <2>1. w \in Now(j).sure /\ w \in Whats
    BY <1>5 DEF Holds
  <2>2. CASE w \notin Loses(t)
    BY <1>6, <2>1, <2>2
  <2>3. CASE w \in Loses(t)
    <3>1. w \in Instances /\ w \notin Gains(j, t)
      BY <1>4, <2>3
    <3>2. state[j] = "started"
      BY <3>1, <1>1, MadeAreNotInstances DEF Claims
    <3>3. <<j, w>> \notin inforce'
      BY <1>7, <2>3, <3>1
    <3>4. CASE <<j, w>> \in inforce
      BY <1>5, <1>8, <2>1, <3>1, <3>2, <3>3, <3>4
    <3>5. CASE <<j, w>> \notin inforce
      <4>1. <<j, w>> \in unrecorded
        BY <1>5, <2>1, <3>5
      <4>2. <<j, w>> \notin made
        BY <1>3, <3>1 DEF Moves
      <4>3. <<j, w>> \in unrecorded'
        BY <3>3, <3>5, <4>1, <4>2 DEF Moves, Recorded
      <4> QED
        BY <1>5, <2>1, <4>3
    <3> QED
      BY <3>4, <3>5
  <2> QED
    BY <2>2, <2>3
<1>10. Denied(state[j]) \cap Now(j)'.may = {}
  <2> SUFFICES ASSUME NEW w \in Now(j)'.may, w \in Denied(state[j])
               PROVE  FALSE
    OBVIOUS
  <2>1. w \notin Now(j).may
    BY <1>5 DEF Holds
  <2>2. w \in Gains(j, t) /\ w \in Instances /\ w \in Whats
    BY <1>4, <1>6, <2>1
  <2>3. state[j] # "started"
    <3>1. Denied("started") = {}
      BY DEF Denied, NotThere, NotStarted, StoppedBefore
    <3> QED
      BY <3>1
  <2>4. <<j, w>> \in inforce' /\ ~Excused(<<j, w>>)'
    BY <1>5
  <2>5. CASE <<j, w>> \notin inforce
    <3>1. <<j, w>> \in unrecorded'
      BY <1>8, <2>2, <2>3, <2>4, <2>5
    <3> QED
      BY <2>4, <3>1 DEF Excused
  <2>6. CASE <<j, w>> \in inforce
    <3> PICK f : f = <<j, w>>
      OBVIOUS
    <3>1. Excused(f)
      BY <1>5, <2>1, <2>2, <2>6
    <3>2. CASE f \in made
      <4>1. f[1] = j /\ f[2] = w
        OBVIOUS
      <4>2. f \in unrecorded'
        BY <2>2, <2>3, <2>4, <3>2, <4>1 DEF Moves, Recorded
      <4> QED
        BY <2>4, <4>2 DEF Excused
    <3>3. CASE f \notin made
      <4>1. Excused(f)'
        BY <2>4, <2>6, <3>1, <3>3, ExcusedStays
      <4> QED
        BY <2>4, <4>1
    <3> QED
      BY <3>2, <3>3
  <2> QED
    BY <2>5, <2>6
<1> QED
  BY <1>5, <1>9, <1>10 DEF Holds

\* Only what has a plan can land.
Plans(S) == \A j \in S : j \in Instances /\ plan[j] # <<>>

\* A step that lands keeps the facts in their bounds, and excused what was left.
LEMMA FactsMove ==
    ASSUME FactsInv, PlanInv, graph.on \subseteq deployed,
           NEW S, NEW made, NEW over, Moves(S, made, over), Plans(S),
           made \subseteq Instances \X Whats
    PROVE  /\ inforce' \subseteq Instances \X Whats
           /\ \A i, w : <<i, w>> \in inforce' => w \in Real[i] \cup ToSet(Targets[i])
           /\ unrecorded' \subseteq Instances \X Instances
<1>1. \A j \in S : Gains(j, Head(plan[j])) \subseteq Real[j] \cup ToSet(Targets[j])
  BY HeadIs, RelSetIs DEF Plans
<1>2. \A j, w : w \in Gained(j, S) => j \in S /\ w \in Whats
                                     /\ w \in Real[j] \cup ToSet(Targets[j])
  BY <1>1, HeadIs DEF Plans, Gained
<1>3. inforce' \subseteq Instances \X Whats
  <2>1. inforce' = (inforce \ UNION {Removes(i, Head(plan[i])) : i \in S})
                   \cup UNION {Adds(i, Head(plan[i])) : i \in S}
    BY DEF Moves, Landed
  <2>2. \A i \in S : Adds(i, Head(plan[i])) \subseteq Instances \X Whats
    <3> SUFFICES ASSUME NEW i \in S
                 PROVE  Adds(i, Head(plan[i])) \subseteq Instances \X Whats
      OBVIOUS
    <3>1. i \in Instances /\ Gains(i, Head(plan[i])) \subseteq Whats
      BY HeadIs DEF Plans
    <3>2. PICK t : t = Head(plan[i])
      OBVIOUS
    <3>3. Adds(i, t) \subseteq {i} \X Gains(i, t)
      <4>1. CASE t.do = "establish"
        BY <4>1 DEF Adds, Gains
      <4>2. CASE t.do = "operation"
        BY <4>2 DEF Adds, Gains
      <4>3. CASE t.do \notin {"establish", "operation"}
        BY <4>3 DEF Adds, Gains
      <4> QED
        BY <4>1, <4>2, <4>3
    <3> QED
      BY <3>1, <3>2, <3>3
  <2> QED
    BY <2>1, <2>2 DEF FactsInv
<1>4. \A i, w : <<i, w>> \in inforce' => w \in Real[i] \cup ToSet(Targets[i])
  <2> SUFFICES ASSUME NEW i, NEW w, <<i, w>> \in inforce'
               PROVE  w \in Real[i] \cup ToSet(Targets[i])
    OBVIOUS
  <2>1. <<i, w>> \in inforce \/ w \in Gained(i, S)
    BY LandedIs DEF Moves
  <2> QED
    BY <1>2, <2>1 DEF FactsInv
<1>5. unrecorded' \subseteq Instances \X Instances
  <2> DEFINE changed == (inforce' \ inforce) \cup (inforce \ inforce') \cup made
  <2>1. changed \subseteq Instances \X Whats
    BY <1>3 DEF FactsInv
  <2>2. unrecorded' \subseteq unrecorded \cup {f \in changed : f[2] \in Instances}
    BY DEF Moves, Recorded
  <2>3. {f \in changed : f[2] \in Instances} \subseteq Instances \X Instances
    BY <2>1
  <2> QED
    BY <2>2, <2>3 DEF FactsInv
<1> QED
  BY <1>3, <1>4, <1>5

LEMMA LeftMoves ==
    ASSUME FactsInv, PlanInv, LeftInv, graph.on \subseteq deployed,
           NEW S, NEW made, NEW over, Moves(S, made, over), Plans(S),
           made \subseteq Instances \X Whats,
           NEW f \in inforce', f[1] \notin deployed \/ f[2] \in Instances \ deployed
    PROVE  Excused(f)'
<1>1. inforce' \subseteq Instances \X Whats
  BY FactsMove
<1>2. PICK j \in Instances, w \in Whats : f = <<j, w>>
  BY <1>1
<1>3. f[1] = j /\ f[2] = w
  BY <1>2
<1>4. w \notin Gained(j, S)
  <2> SUFFICES ASSUME w \in Gained(j, S)
               PROVE  FALSE
    OBVIOUS
  <2>1. j \in S /\ plan[j] # <<>> /\ w \in Gains(j, Head(plan[j]))
    BY DEF Gained, Plans
  <2>2. j \in deployed /\ w \in Real[j] \cup RelSet(j)
    BY <2>1, HeadIs
  <2>3. w \in Instances \ deployed
    BY <1>3, <2>2
  <2> QED
    BY <2>2, <2>3, RelSetIs, MadeAreNotInstances
<1>5. f \in inforce /\ f \notin made
  BY <1>2, <1>4, LandedIs DEF Moves
<1>6. Excused(f)
  BY <1>5 DEF LeftInv
<1> QED
  BY <1>5, <1>6, ExcusedStays

LEMMA ExemptIs ==
    ASSUME NEW kind, NEW t, t.do # "set_state"
    PROVE  Exempt(kind, t) = {}
<1>1. ToSet(SetState("configured")) = {[do |-> "set_state", what |-> "configured"]}
  BY DEF SetState, ToSet
<1>2. \A x \in ToSet(SetState("deleting") \o SetState("uninitialized")) : x.do = "set_state"
  BY DEF SetState, ToSet
<1> QED
  BY <1>1, <1>2 DEF Exempt

\* The graph ends while operations land: what is known of each is still true.
LEMMA LandingIsCalm ==
    ASSUME FactsInv, PlanInv, SoundInv, graph.on \subseteq deployed,
           NEW S, Moves(S, {}, {}), Plans(S),
           \A j \in S : Head(plan[j]).do # "set_state",
           state' = state, NEW j \in deployed \ misled'
    PROVE  Holds(j, RelSet(j), Now(j)')
<1>1. j \in Instances /\ j \notin misled /\ state'[j] = state[j]
  BY DEF FactsInv, Moves
<1>2. Holds(j, RelSet(j), Now(j))
  BY <1>1, SoundIsCalm DEF Calm
<1>3. CASE j \notin S
  <2>1. Entails(Now(j)', Now(j))
    BY <1>1, <1>3, NowStays
  <2> QED
    BY <1>2, <2>1, EntailsHolds
<1>4. CASE j \in S /\ j \in graph.on
  <2>1. PICK a : Entails(Now(j), a) /\ Works(j, graph.kind, RelSet(j), a, plan[j])
    BY <1>1, <1>4 DEF SoundInv
  <2>2. plan[j] # <<>> /\ Head(plan[j]).do # "set_state"
    BY <1>4 DEF Plans
  <2>3. Gains(j, Head(plan[j])) \subseteq Whats
    BY <1>1, <2>2, HeadIs
  <2>4. Exempt(graph.kind, Head(plan[j])) = {}
    BY <2>2, ExemptIs
  <2>5. Entails(Now(j)', Post(j, graph.kind, Head(plan[j]), Now(j)))
    <3>1. \A w \in Exempt(graph.kind, Head(plan[j])) :
             <<j, w>> \in {} /\ <<j, w>> \notin {}
      BY <2>4
    <3>2. state'[j] = IF Head(plan[j]).do = "set_state" THEN Head(plan[j]).what
                                                        ELSE state[j]
      BY <1>1, <2>2
    <3>3. PICK e : e = {}
      OBVIOUS
    <3>4. Moves(S, e, e)
      BY <3>3
    <3>5. \A w \in Exempt(graph.kind, Head(plan[j])) : <<j, w>> \in e /\ <<j, w>> \notin e
      BY <2>4
    <3> QED
      BY <1>4, <2>3, <3>2, <3>4, <3>5, PostMoves
  <2>6. PICK d : /\ Entails(Now(j)', d)
                 /\ Works(j, graph.kind, RelSet(j), d, Tail(plan[j]))
    BY <2>1, <2>2, <2>5, WorksTail
  <2> QED
    BY <2>6, WorksHolds, EntailsHolds
<1>5. CASE j \in S /\ j \notin graph.on
  <2>1. plan[j] # <<>>
    BY <1>5 DEF Plans
  <2>2. Head(plan[j]) \in LinkTasks(graph.kind, RelSet(j))
    BY <1>1, <1>5, <2>1, HeadIs
  <2>3. RelSet(j) \in SUBSET Instances
    BY <1>1, RelSetIs
  <2>4. InStub(j)
    BY <1>5 DEF InStub
  <2>5. PICK e : e = {}
    OBVIOUS
  <2>6. Moves(S, e, e)
    BY <2>5
  <2> QED
    BY <1>1, <1>2, <1>5, <2>2, <2>3, <2>4, <2>6, StubMoves
<1> QED
  BY <1>3, <1>4, <1>5

-----------------------------------------------------------------------------
(* Stubs *)

\* What stubs still have to do for the links of intact instances.
StubInv ==
    \A j \in deployed \ graph.on, t \in graph.on :
       IF graph.kind = "install"
         THEN t \in RelSet(j) =>
                 \/ <<j, t>> \in inforce
                 \/ [do |-> "establish", what |-> t] \in ToSet(plan[j])
         ELSE <<j, t>> \in inforce =>
                 \/ Excused(<<j, t>>)
                 \/ [do |-> "unlink", what |-> t] \in ToSet(plan[j])

\* The tasks of a stub cover its links to the instances of the graph.
LEMMA StubIs ==
    ASSUME NEW i \in Instances, NEW kind, NEW on, NEW there, on \subseteq there,
           NEW g, g.kind = kind, g.on = on
    PROVE  /\ Stub(i, g, there)
                \in Seq(LinkTasks(kind, ToSet(Among(Targets[i], there))))
           /\ \A t \in on \cap ToSet(Targets[i]) :
                IF kind = "install"
                  THEN [do |-> "establish", what |-> t] \in ToSet(Stub(i, g, there))
                  ELSE [do |-> "unlink", what |-> t] \in ToSet(Stub(i, g, there))
<1>1. PICK T : T = ToSet(Among(Targets[i], there))
  OBVIOUS
<1>2. PICK D : D = on \cap there
  OBVIOUS
<1>3. PICK s : s = Among(Targets[i], D)
  OBVIOUS
<1>4. s \in Seq(ToSet(s)) /\ ToSet(s) = ToSet(Targets[i]) \cap D
  BY <1>3, AmongTargets
<1>5. T = ToSet(Targets[i]) \cap there
  BY <1>1, AmongTargets
<1>6. ToSet(s) \subseteq T
  BY <1>2, <1>4, <1>5
<1>7. s \in Seq(T)
  BY <1>4, <1>6, SeqWiden
<1>8. PICK r : r = Reverse(s)
  OBVIOUS
<1>9. r \in Seq(T) /\ ToSet(r) = ToSet(s)
  BY <1>7, <1>8, ToSetSeq
<1>10. StubTargets(i, g, there) = s
  BY <1>2, <1>3 DEF StubTargets
<1>11. PICK d, e : d = "establish" /\ e = "unlink"
  OBVIOUS
<1>12. CASE kind = "install"
  <2>1. Stub(i, g, there) = Relate(d, s)
    BY <1>10, <1>11, <1>12 DEF Stub
  <2>2. PICK A : A = LinkTasks(kind, T)
    OBVIOUS
  <2>3. \A t \in T : [do |-> d, what |-> t] \in A
    BY <1>11, <1>12, <2>2 DEF LinkTasks
  <2>4. Relate(d, s) \in Seq(A)
    BY <1>7, <2>3, RelateIsSeq
  <2>5. ToSet(Relate(d, s)) = {[do |-> d, what |-> t] : t \in ToSet(s)}
    BY <1>7, RelateIs
  <2> QED
    BY <1>1, <1>2, <1>4, <1>11, <1>12, <2>1, <2>2, <2>4, <2>5
<1>13. CASE kind # "install"
  <2>1. Stub(i, g, there) = Relate(e, r)
    BY <1>8, <1>10, <1>11, <1>13 DEF Stub
  <2>2. PICK A : A = LinkTasks(kind, T)
    OBVIOUS
  <2>3. \A t \in T : [do |-> e, what |-> t] \in A
    BY <1>11, <1>13, <2>2 DEF LinkTasks
  <2>4. Relate(e, r) \in Seq(A)
    BY <1>9, <2>3, RelateIsSeq
  <2>5. ToSet(Relate(e, r)) = {[do |-> e, what |-> t] : t \in ToSet(r)}
    BY <1>9, RelateIs
  <2> QED
    BY <1>1, <1>2, <1>4, <1>9, <1>11, <1>13, <2>1, <2>2, <2>4, <2>5
<1> QED
  BY <1>12, <1>13

\* Now(i) in any state, so in the next one.
NowFits ==
    \A i \in Instances : /\ Now(i) \in Assertions /\ Now(i).st = state[i]
                         /\ Now(i).may \subseteq Real[i] \cup RelSet(i)

LEMMA NowFitsHere == FactsInv /\ LeftInv => NowFits
BY NowIs DEF NowFits

LEMMA NowFitsThen == FactsInv' /\ LeftInv' => NowFits'
BY NowFitsHere, PTL

LEMMA NowFitsNext ==
    ASSUME FactsInv', LeftInv'
    PROVE  \A i \in Instances :
              /\ Now(i)' \in Assertions /\ Now(i)'.st = state'[i]
              /\ Now(i)'.may \subseteq Real[i] \cup RelSet(i)'
BY NowFitsThen DEF NowFits

LEMMA RelSetNext ==
    ASSUME NEW i \in Instances
    PROVE  /\ Rels(i)' \in Seq(RelSet(i)') /\ RelSet(i)' \subseteq Instances
           /\ ToSet(Rels(i)') = RelSet(i)'
           /\ Rels(i)' = Among(Targets[i], deployed')
           /\ RelSet(i)' = ToSet(Targets[i]) \cap deployed'
BY AmongTargets DEF RelSet, Rels

-----------------------------------------------------------------------------
(* Graphs that are built *)

\* The plans of a graph that has just been built.
LEMMA BuiltPlans ==
    ASSUME NEW p, NEW g, NEW s, Build(p, g, s, deployed')
    PROVE  /\ graph' = g /\ phase' = p /\ seen' = s
           /\ DOMAIN plan' = Instances /\ plan' = [i \in Instances |-> plan'[i]]
           /\ \A i \in Instances :
                /\ i \notin deployed' => plan'[i] = <<>>
                /\ i \in g.on /\ i \in deployed' =>
                      plan'[i] = SubgraphOf(i, g.kind, s[i], Rels(i)')
                /\ i \notin g.on /\ i \in deployed' => plan'[i] = Stub(i, g, deployed')
<1>1. graph' = g /\ phase' = p /\ seen' = s
      /\ plan' = [i \in Instances |->
                  IF i \notin deployed' THEN <<>>
                  ELSE IF i \in g.on THEN Subgraph(i, g, s[i], deployed')
                                     ELSE Stub(i, g, deployed')]
  BY DEF Build
<1>2. \A i \in Instances :
         Subgraph(i, g, s[i], deployed') = SubgraphOf(i, g.kind, s[i], Rels(i)')
  <2> SUFFICES ASSUME NEW i \in Instances
               PROVE  Subgraph(i, g, s[i], deployed') = SubgraphOf(i, g.kind, s[i], Rels(i)')
    OBVIOUS
  <2>1. PICK tt : tt = Among(Targets[i], deployed')
    OBVIOUS
  <2>2. tt = Rels(i)'
    BY <2>1, RelSetNext
  <2>3. Subgraph(i, g, s[i], deployed') = SubgraphOf(i, g.kind, s[i], tt)
    BY <2>1 DEF Subgraph, SubgraphOf
  <2> QED
    BY <2>2, <2>3
<1> QED
  BY <1>1, <1>2

\* A graph that is built from true states is sound: each plan starts from the
\* state that was read, or from one that asks for no less.
LEMMA BuildKeepsPlans ==
    ASSUME FactsInv', NEW p, NEW g, NEW s, Build(p, g, s, deployed'),
           g.kind \in Kinds, g.on \subseteq deployed', s \in [Instances -> States]
    PROVE  PlanInv'
<1>1. PICK kind \in Kinds, on \in SUBSET deployed' : kind = g.kind /\ on = g.on
  OBVIOUS
<1>2. deployed' \subseteq Instances
  BY DEF FactsInv
<1>3. ASSUME NEW i \in Instances, i \in on
      PROVE  plan'[i] \in Seq(TasksOf(kind, RelSet(i)'))
  <2>1. PICK ts, tt : ts = RelSet(i)' /\ tt = Rels(i)'
    OBVIOUS
  <2>2. ts \in SUBSET Instances /\ tt \in Seq(ts) /\ ToSet(tt) = ts
    BY <2>1, RelSetNext
  <2>3. plan'[i] = SubgraphOf(i, kind, s[i], tt)
    BY <1>1, <1>3, <2>1, BuiltPlans
  <2>4. s[i] \in States
    OBVIOUS
  <2>5. SubgraphOf(i, kind, s[i], tt) \in Seq(TasksOf(kind, ts))
    BY <2>2, <2>4, SubgraphIsSeq
  <2> QED
    BY <2>1, <2>3, <2>5
<1>4. ASSUME NEW i \in deployed' \ on
      PROVE  plan'[i] \in Seq(LinkTasks(kind, RelSet(i)'))
  <2>1. i \in Instances
    BY <1>2
  <2>2. plan'[i] = Stub(i, g, deployed')
    BY <1>1, <1>4, <2>1, BuiltPlans
  <2>3. RelSet(i)' = ToSet(Among(Targets[i], deployed'))
    BY <2>1, RelSetNext
  <2>4. PICK there : there = deployed'
    OBVIOUS
  <2>5. Stub(i, g, there) \in Seq(LinkTasks(kind, ToSet(Among(Targets[i], there))))
    BY <1>1, <2>1, <2>4, StubIs
  <2> QED
    BY <2>2, <2>3, <2>4, <2>5
<1>5. graph'.kind = kind /\ graph'.on = on
      /\ DOMAIN plan' = Instances /\ plan' = [i \in Instances |-> plan'[i]]
      /\ \A i \in Instances : i \notin deployed' => plan'[i] = <<>>
  BY <1>1, BuiltPlans
<1> QED
  BY <1>3, <1>4, <1>5 DEF PlanInv

LEMMA BuildKeepsSound ==
    ASSUME FactsInv', LeftInv', Calm', NEW p, NEW g, NEW s, Build(p, g, s, deployed'),
           g.kind \in Kinds, g.on \subseteq deployed', s \in [Instances -> States],
           \A i \in g.on \ misled' :
              \/ s[i] = state'[i]
              \/ /\ g.kind = "uninstall"
                 /\ ToSet(Uninstall(i, state'[i], Rels(i)'))
                      \subseteq ToSet(Uninstall(i, s[i], Rels(i)'))
    PROVE  SoundInv'
<1>1. PICK kind \in Kinds, on \in SUBSET deployed' : kind = g.kind /\ on = g.on
  OBVIOUS
<1>2. deployed' \subseteq Instances
  BY DEF FactsInv
<1>3. ASSUME NEW i \in deployed' \ misled', i \in on
      PROVE  \E a : /\ Entails(Now(i)', a)
                    /\ Works(i, kind, RelSet(i)', a, plan'[i])
  <2>1. i \in Instances
    BY <1>2
  <2>2. PICK ts, tt, a : ts = RelSet(i)' /\ tt = Rels(i)' /\ a = Now(i)'
    OBVIOUS
  <2>3. ts \in SUBSET Instances /\ tt \in Seq(ts) /\ ToSet(tt) = ts
    BY <2>1, <2>2, RelSetNext
  <2>4. a \in Assertions /\ a.st = state'[i] /\ a.may \subseteq Real[i] \cup ts
    BY <2>1, <2>2, NowFitsNext
  <2>5. Holds(i, ts, a)
    BY <1>3, <2>2 DEF Calm
  <2>6. plan'[i] = SubgraphOf(i, kind, s[i], tt)
    BY <1>1, <1>3, <2>1, <2>2, BuiltPlans
  <2>7. Entails(a, a)
    BY DEF Entails
  <2>8. CASE s[i] = state'[i]
    <3>1. Works(i, kind, ts, a, SubgraphOf(i, kind, a.st, tt))
      BY <2>1, <2>3, <2>4, <2>5, SubgraphWorks
    <3> QED
      BY <2>2, <2>4, <2>6, <2>7, <2>8, <3>1
  <2>9. CASE s[i] # state'[i]
    <3>1. kind = "uninstall"
          /\ ToSet(Uninstall(i, a.st, tt)) \subseteq ToSet(Uninstall(i, s[i], tt))
      BY <1>1, <1>3, <2>2, <2>4, <2>9
    <3>2. PICK z \in States : z = s[i]
      BY <2>1
    <3>3. ToSet(Uninstall(i, a.st, tt)) \subseteq ToSet(Uninstall(i, z, tt))
      BY <3>1, <3>2
    <3>4. PICK b : /\ Leads(i, kind, ts, a, Uninstall(i, z, tt), b)
                   /\ b.st = "deleted" /\ b.may = {}
      BY <2>1, <2>3, <2>4, <2>5, <3>3, UninstallWorks
    <3>5. Meets(kind, b)
      BY <3>1, <3>4 DEF Meets
    <3>6. SubgraphOf(i, kind, s[i], tt) = Uninstall(i, z, tt)
      BY <3>1, <3>2 DEF SubgraphOf
    <3>7. Works(i, kind, ts, a, Uninstall(i, z, tt))
      BY <3>4, <3>5, WorksIs
    <3> QED
      BY <2>2, <2>6, <2>7, <3>6, <3>7
  <2> QED
    BY <2>8, <2>9
<1>4. ASSUME NEW i \in deployed' \ misled'
      PROVE  Holds(i, RelSet(i)', Now(i)')
  BY <1>4 DEF Calm
<1>5. graph'.kind = kind /\ graph'.on = on
  BY <1>1, BuiltPlans
<1> QED
  BY <1>3, <1>4, <1>5 DEF SoundInv

LEMMA BuildKeepsStubs ==
    ASSUME FactsInv', NEW p, NEW g, NEW s, Build(p, g, s, deployed'),
           g.kind \in Kinds, g.on \subseteq deployed'
    PROVE  StubInv'
<1>1. PICK kind \in Kinds, on \in SUBSET deployed' : kind = g.kind /\ on = g.on
  OBVIOUS
<1>2. deployed' \subseteq Instances
  BY DEF FactsInv
<1>3. ASSUME NEW j \in deployed' \ on, NEW t \in on
      PROVE  IF kind = "install"
              THEN t \in RelSet(j)' =>
                     [do |-> "establish", what |-> t] \in ToSet(plan'[j])
              ELSE <<j, t>> \in inforce' =>
                     [do |-> "unlink", what |-> t] \in ToSet(plan'[j])
  <2>1. j \in Instances /\ t \in Instances
    BY <1>1, <1>2
  <2>2. PICK there : there = deployed'
    OBVIOUS
  <2>3. plan'[j] = Stub(j, g, there)
    BY <1>1, <1>3, <2>1, <2>2, BuiltPlans
  <2>4. t \in ToSet(Targets[j]) =>
                IF kind = "install"
                  THEN [do |-> "establish", what |-> t] \in ToSet(Stub(j, g, there))
                  ELSE [do |-> "unlink", what |-> t] \in ToSet(Stub(j, g, there))
    BY <1>1, <2>1, <2>2, StubIs
  <2>5. t \in RelSet(j)' => t \in ToSet(Targets[j])
    BY <2>1, RelSetNext
  <2>6. <<j, t>> \in inforce' => t \in ToSet(Targets[j])
    BY <2>1, MadeAreNotInstances DEF FactsInv
  <2> QED
    BY <2>3, <2>4, <2>5, <2>6
<1>5. graph'.kind = kind /\ graph'.on = on
  BY <1>1, BuiltPlans
<1> QED
  BY <1>3, <1>5 DEF StubInv

LEMMA BuildKeeps ==
    ASSUME FactsInv', LeftInv', Calm', NEW p, NEW g, NEW s, Build(p, g, s, deployed'),
           g.kind \in Kinds, g.on \subseteq deployed', s \in [Instances -> States],
           \A i \in g.on \ misled' :
              \/ s[i] = state'[i]
              \/ /\ g.kind = "uninstall"
                 /\ ToSet(Uninstall(i, state'[i], Rels(i)'))
                      \subseteq ToSet(Uninstall(i, s[i], Rels(i)'))
    PROVE  PlanInv' /\ SoundInv' /\ StubInv'
BY BuildKeepsPlans, BuildKeepsSound, BuildKeepsStubs

\* The workflow ends: there is no plan any more.
LEMMA EndKeeps ==
    ASSUME Calm', NEW done, End(done)
    PROVE  PlanInv' /\ SoundInv' /\ StubInv'
<1>1. graph'.on = {} /\ plan' = [i \in Instances |-> <<>>]
  BY DEF End, NoGraph, NoPlan
<1>2. PlanInv'
  BY <1>1 DEF PlanInv
<1>3. SoundInv'
  BY <1>1 DEF SoundInv, Calm
<1>4. StubInv'
  BY <1>1 DEF StubInv
<1> QED
  BY <1>2, <1>3, <1>4

-----------------------------------------------------------------------------
(* Steps of one instance *)

\* A step of instance i, whose plan becomes r while the graph goes on.
Steps(i, S, made, over, r) ==
    /\ i \in Instances /\ plan[i] # <<>> /\ S \subseteq {i}
    /\ Moves(S, made, over)
    /\ plan' = [plan EXCEPT ![i] = r]
    /\ \A j \in Instances : j # i => state'[j] = state[j]
    /\ UNCHANGED <<deployed, graph, seen>>

LEMMA TailKeeps ==
    ASSUME NEW T, NEW s, s \in Seq(T), s # <<>>, NEW x, x \in ToSet(s), x # Head(s)
    PROVE  x \in ToSet(Tail(s))
<1>1. PICK n \in 1 .. Len(s) : x = s[n]
  BY DEF ToSet
<1>2. Len(s) \in Nat /\ n # 1 /\ Len(Tail(s)) = Len(s) - 1
  BY <1>1
<1>3. n - 1 \in 1 .. Len(Tail(s)) /\ Tail(s)[n - 1] = s[n]
  BY <1>1, <1>2
<1>4. DOMAIN Tail(s) = 1 .. Len(Tail(s))
  BY <1>2
<1> QED
  BY <1>1, <1>3, <1>4 DEF ToSet

LEMMA MadeIs ==
    ASSUME FactsInv, PlanInv, graph.on \subseteq deployed, NEW i, NEW S, NEW made,
           NEW over, NEW r, Steps(i, S, made, over, r), NEW f \in made
    PROVE  \A j, w : f = <<j, w>> => j = i /\ w \in Whats
<1> SUFFICES ASSUME NEW j, NEW w, f = <<j, w>>
             PROVE  j = i /\ w \in Whats
  OBVIOUS
<1>1. w \in Gained(j, S)
  BY DEF Steps, Moves
<1>2. j \in S /\ w \in Gains(j, Head(plan[j]))
  BY <1>1 DEF Gained
<1>3. j = i /\ i \in Instances /\ plan[i] # <<>>
  BY <1>2 DEF Steps
<1> QED
  BY <1>2, <1>3, HeadIs

\* A step of one instance keeps the facts, the plans and what is known.
LEMMA StepKeepsFacts ==
    ASSUME FactsInv, PlanInv, LeftInv, graph.on \subseteq deployed, NEW i, NEW S,
           NEW made, NEW over, NEW r, Steps(i, S, made, over, r),
           made \subseteq Instances \X Whats, state' \in [Instances -> States]
    PROVE  FactsInv' /\ LeftInv'
<1>1. Plans(S) /\ Moves(S, made, over) /\ deployed' = deployed /\ seen' = seen
  BY DEF Steps, Plans
<1>2. FactsInv'
  BY <1>1, FactsMove DEF FactsInv
<1>3. \A f \in inforce' :
         (f[1] \notin deployed \/ f[2] \in Instances \ deployed) => Excused(f)'
  BY <1>1, LeftMoves
<1>4. LeftInv'
  BY <1>1, <1>3 DEF LeftInv
<1> QED
  BY <1>2, <1>4

LEMMA StepKeepsPlans ==
    ASSUME FactsInv, PlanInv, graph.on \subseteq deployed, NEW i, NEW S,
           NEW made, NEW over, NEW r, Steps(i, S, made, over, r),
           i \in graph.on => r \in Seq(TasksOf(graph.kind, RelSet(i))),
           i \notin graph.on => r \in Seq(LinkTasks(graph.kind, RelSet(i)))
    PROVE  PlanInv'
<1>1. /\ plan' = [plan EXCEPT ![i] = r] /\ deployed' = deployed /\ graph' = graph
      /\ i \in Instances /\ plan[i] # <<>>
  BY DEF Steps
<1>2. i \in deployed
  BY <1>1, HeadIs
<1>3. \A j \in Instances : RelSet(j)' = RelSet(j)
  BY <1>1 DEF RelSet, Rels
<1>4. DOMAIN plan = Instances /\ plan = [j \in Instances |-> plan[j]]
  BY DEF PlanInv
<1>5. plan'[i] = r /\ \A j \in Instances \ {i} : plan'[j] = plan[j]
  BY <1>1, <1>4
<1>6. DOMAIN plan' = Instances /\ plan' = [j \in Instances |-> plan'[j]]
  BY <1>1, <1>4
<1>7. ASSUME NEW j \in Instances
      PROVE  /\ j \notin deployed => plan'[j] = <<>>
             /\ j \in graph.on => plan'[j] \in Seq(TasksOf(graph.kind, RelSet(j)))
             /\ j \in deployed \ graph.on =>
                  plan'[j] \in Seq(LinkTasks(graph.kind, RelSet(j)))
  <2>1. CASE j = i
    BY <1>2, <1>5, <2>1
  <2>2. CASE j # i
    BY <1>5, <2>2 DEF PlanInv
  <2> QED
    BY <2>1, <2>2
<1>8. ASSUME NEW j \in Instances
      PROVE  /\ j \notin deployed' => plan'[j] = <<>>
             /\ j \in graph'.on => plan'[j] \in Seq(TasksOf(graph'.kind, RelSet(j)'))
             /\ j \in deployed' \ graph'.on =>
                  plan'[j] \in Seq(LinkTasks(graph'.kind, RelSet(j)'))
  BY <1>1, <1>3, <1>7
<1> QED
  BY <1>6, <1>8 DEF PlanInv

\* The instances that do not move are as before.
LEMMA OthersStaySound ==
    ASSUME FactsInv, PlanInv, SoundInv, graph.on \subseteq deployed, NEW i, NEW S,
           NEW made, NEW over, NEW r, Steps(i, S, made, over, r),
           NEW j \in deployed \ misled', j # i
    PROVE  IF j \in graph.on
             THEN \E a : /\ Entails(Now(j)', a)
                         /\ Works(j, graph.kind, RelSet(j), a, plan'[j])
             ELSE Holds(j, RelSet(j), Now(j)')
<1>1. /\ plan' = [plan EXCEPT ![i] = r] /\ Moves(S, made, over)
      /\ j \in Instances /\ j \notin S /\ state'[j] = state[j]
  BY DEF Steps, FactsInv
<1>2. DOMAIN plan = Instances
  BY DEF PlanInv
<1>3. plan'[j] = plan[j]
  BY <1>1, <1>2
<1>4. j \notin misled
  BY <1>1 DEF Moves
<1>5. Entails(Now(j)', Now(j))
  BY <1>1, NowStays
<1>6. CASE j \in graph.on
  <2>1. PICK a : Entails(Now(j), a) /\ Works(j, graph.kind, RelSet(j), a, plan[j])
    BY <1>4, <1>6 DEF SoundInv
  <2>2. Entails(Now(j)', a)
    BY <1>5, <2>1, EntailsTrans
  <2> QED
    BY <1>3, <1>6, <2>1, <2>2
<1>7. CASE j \notin graph.on
  <2>1. Holds(j, RelSet(j), Now(j))
    BY <1>4, <1>7 DEF SoundInv
  <2> QED
    BY <1>5, <1>7, <2>1, EntailsHolds
<1> QED
  BY <1>6, <1>7

LEMMA StepKeepsSound ==
    ASSUME FactsInv, PlanInv, SoundInv, graph.on \subseteq deployed, NEW i, NEW S,
           NEW made, NEW over, NEW r, Steps(i, S, made, over, r),
           i \notin misled' =>
              IF i \in graph.on
                THEN \E a : /\ Entails(Now(i)', a)
                            /\ Works(i, graph.kind, RelSet(i), a, r)
                ELSE Holds(i, RelSet(i), Now(i)')
    PROVE  SoundInv'
<1>1. /\ plan' = [plan EXCEPT ![i] = r] /\ deployed' = deployed /\ graph' = graph
      /\ i \in Instances /\ DOMAIN plan = Instances
  BY DEF Steps, PlanInv
<1>2. plan'[i] = r
  BY <1>1
<1>3. \A j \in Instances : RelSet(j)' = RelSet(j)
  BY <1>1 DEF RelSet, Rels
<1>4. ASSUME NEW j \in deployed \ misled'
      PROVE  IF j \in graph.on
               THEN \E a : /\ Entails(Now(j)', a)
                           /\ Works(j, graph.kind, RelSet(j), a, plan'[j])
               ELSE Holds(j, RelSet(j), Now(j)')
  <2>1. CASE j = i
    BY <1>2, <1>4, <2>1
  <2>2. CASE j # i
    BY <1>4, <2>2, OthersStaySound
  <2> QED
    BY <2>1, <2>2
<1>5. \A j \in deployed : j \in Instances
  BY DEF FactsInv
<1>6. ASSUME NEW j \in deployed' \ misled'
      PROVE  IF j \in graph'.on
               THEN \E a : /\ Entails(Now(j)', a)
                           /\ Works(j, graph'.kind, RelSet(j)', a, plan'[j])
               ELSE Holds(j, RelSet(j)', Now(j)')
  BY <1>1, <1>3, <1>4, <1>5
<1> QED
  BY <1>6 DEF SoundInv

\* What stubs had to do is still to be done, or has been.
LEMMA StepKeepsStubs ==
    ASSUME FactsInv, PlanInv, StubInv, graph.on \subseteq deployed, NEW i, NEW S,
           NEW made, NEW over, NEW r, Steps(i, S, made, over, r),
           i \notin graph.on =>
              /\ r = Tail(plan[i])
              /\ i \notin S => /\ graph.kind # "install"
                               /\ Removes(i, Head(plan[i])) \subseteq over
    PROVE  StubInv'
<1>1. /\ plan' = [plan EXCEPT ![i] = r] /\ deployed' = deployed /\ graph' = graph
      /\ i \in Instances /\ DOMAIN plan = Instances /\ plan[i] # <<>>
      /\ S \subseteq {i} /\ Moves(S, made, over)
  BY DEF Steps, PlanInv
<1>2. plan'[i] = r /\ \A j \in Instances \ {i} : plan'[j] = plan[j]
  BY <1>1
<1>3. \A j \in Instances : RelSet(j)' = RelSet(j)
  BY <1>1 DEF RelSet, Rels
<1>4. \A j, w : <<j, w>> \in inforce' <=>
              \/ <<j, w>> \in inforce /\ w \notin Lost(j, S)
              \/ w \in Gained(j, S)
  BY <1>1, LandedIs DEF Moves
<1>5. ASSUME NEW j, NEW t, <<j, t>> \in inforce, <<j, t>> \in inforce',
             <<j, t>> \notin made, Excused(<<j, t>>) \/ <<j, t>> \in over
      PROVE  Excused(<<j, t>>)'
  <2> PICK f : f = <<j, t>>
    OBVIOUS
  <2>1. Excused(f)'
    BY <1>1, <1>5, ExcusedStays
  <2> QED
    BY <2>1
<1>6. ASSUME NEW j \in deployed \ graph.on, NEW t \in graph.on
      PROVE  IF graph.kind = "install"
              THEN t \in RelSet(j) =>
                      \/ <<j, t>> \in inforce'
                      \/ [do |-> "establish", what |-> t] \in ToSet(plan'[j])
              ELSE <<j, t>> \in inforce' =>
                      \/ Excused(<<j, t>>)'
                      \/ [do |-> "unlink", what |-> t] \in ToSet(plan'[j])
  <2>1. j \in Instances /\ t \in Instances
    BY DEF FactsInv
  <2>2. IF graph.kind = "install"
         THEN t \in RelSet(j) =>
                 \/ <<j, t>> \in inforce
                 \/ [do |-> "establish", what |-> t] \in ToSet(plan[j])
         ELSE <<j, t>> \in inforce =>
                 \/ Excused(<<j, t>>)
                 \/ [do |-> "unlink", what |-> t] \in ToSet(plan[j])
    BY DEF StubInv
  <2>3. CASE j # i
    <3>1. Lost(j, S) = {} /\ Gained(j, S) = {} /\ plan'[j] = plan[j]
      BY <1>1, <1>2, <2>1, <2>3 DEF Lost, Gained
    <3>2. <<j, t>> \in inforce' <=> <<j, t>> \in inforce
      BY <1>4, <3>1
    <3>3. <<j, t>> \notin made
      BY <1>1, <3>1 DEF Moves
    <3> QED
      BY <1>5, <2>2, <3>1, <3>2, <3>3
  <2>4. CASE j = i
    <3>1. PICK h : h = Head(plan[i])
      OBVIOUS
    <3>2. h \in LinkTasks(graph.kind, RelSet(i))
      BY <1>1, <1>6, <2>4, <3>1, HeadIs
    <3>3. plan'[j] = Tail(plan[i]) /\ plan[i] \in Seq(LinkTasks(graph.kind, RelSet(i)))
      BY <1>2, <1>6, <2>1, <2>4 DEF PlanInv
    <3>4. \A x : x \in ToSet(plan[i]) /\ x # h => x \in ToSet(plan'[j])
      BY <1>1, <3>1, <3>3, TailKeeps
    <3>5. CASE graph.kind = "install"
      <4>1. i \in S /\ h.do = "establish"
        BY <1>6, <2>4, <3>2, <3>5 DEF LinkTasks
      <4>2. Lost(i, S) = {} /\ Gained(i, S) = {h.what}
        BY <3>1, <4>1 DEF Lost, Gained, Loses, Gains
      <4>3. [do |-> "establish", what |-> t] = h => <<j, t>> \in inforce'
        BY <1>4, <2>4, <4>2
      <4> QED
        BY <1>4, <2>2, <2>4, <3>4, <3>5, <4>2, <4>3
    <3>6. CASE graph.kind # "install"
      <4>1. h.do = "unlink" /\ h = [do |-> "unlink", what |-> h.what]
        BY <3>2, <3>6 DEF LinkTasks
      <4>2. Gained(i, S) = {} /\ Loses(h) = {h.what}
        BY <3>1, <4>1 DEF Gained, Loses, Gains
      <4>3. <<i, t>> \notin made
        BY <1>1, <4>2 DEF Moves
      <4> SUFFICES ASSUME <<i, t>> \in inforce'
                   PROVE  \/ Excused(<<i, t>>)'
                          \/ [do |-> "unlink", what |-> t] \in ToSet(plan'[j])
        BY <2>4, <3>6
      <4>4. <<i, t>> \in inforce /\ t \notin Lost(i, S)
        BY <1>4, <4>2
      <4>5. CASE t = h.what
        <5>1. i \notin S
          BY <3>1, <4>2, <4>4, <4>5 DEF Lost
        <5>2. <<i, t>> \in Removes(i, h)
          BY <4>2, <4>5, AddsIs
        <5>3. <<i, t>> \in over
          BY <1>6, <2>4, <3>1, <5>1, <5>2
        <5> QED
          BY <1>5, <4>3, <4>4, <5>3
      <4>6. CASE t # h.what
        <5>1. [do |-> "unlink", what |-> t] # h
          BY <4>6
        <5> QED
          BY <1>5, <2>2, <2>4, <3>4, <3>6, <4>3, <4>4, <5>1
      <4> QED
        BY <4>5, <4>6
    <3> QED
      BY <3>5, <3>6
  <2> QED
    BY <2>3, <2>4
<1>7. \A j \in deployed : j \in Instances
  BY DEF FactsInv
<1>8. ASSUME NEW j \in deployed' \ graph'.on, NEW t \in graph'.on
      PROVE  IF graph'.kind = "install"
              THEN t \in RelSet(j)' =>
                      \/ <<j, t>> \in inforce'
                      \/ [do |-> "establish", what |-> t] \in ToSet(plan'[j])
              ELSE <<j, t>> \in inforce' =>
                      \/ Excused(<<j, t>>)'
                      \/ [do |-> "unlink", what |-> t] \in ToSet(plan'[j])
  <2>1. RelSet(j)' = RelSet(j) /\ graph' = graph /\ deployed' = deployed
    BY <1>1, <1>3, <1>7
  <2> QED
    BY <1>6, <2>1
<1> QED
  BY <1>8 DEF StubInv

\* A success moves the facts; what it writes over is excused.
LEMMA SuccessMoves ==
    ASSUME NEW i \in Instances, TaskSucceeds(i), DOMAIN state = Instances,
           NEW S, S = {i}, NEW h, h = Head(plan[i])
    PROVE  /\ Steps(i, S, Adds(i, h), Overwritten(i, h), Tail(plan[i]))
           /\ state'[i] = IF h.do = "set_state" THEN h.what ELSE state[i]
           /\ state' = IF h.do = "set_state" THEN [state EXCEPT ![i] = h.what]
                                             ELSE state
           /\ misled' = misled
<1>1. /\ Enabled(i)
      /\ state' = IF h.do = "set_state" THEN [state EXCEPT ![i] = h.what]
                                        ELSE state
      /\ inforce' = After(inforce, i, Head(plan[i]))
      /\ GivenUp(Overwritten(i, h), Adds(i, h)) /\ Recorded(Adds(i, h))
      /\ Advance(i) /\ UNCHANGED <<deployed, graph, seen>>
  BY DEF TaskSucceeds
<1>2. inforce' = Landed(inforce, S)
  BY <1>1, AfterIsLanded
<1>3. \A j, w : <<j, w>> \in Adds(i, h) => w \in Gained(j, S)
  BY AddsIs DEF Gained
<1>4. misled' = misled
      /\ abandoned' = (abandoned \cup Overwritten(i, h)) \cap (inforce' \ Adds(i, h))
  BY <1>1 DEF GivenUp
<1>5. Moves(S, Adds(i, h), Overwritten(i, h))
  BY <1>1, <1>2, <1>3, <1>4 DEF Moves
<1>6. plan' = [plan EXCEPT ![i] = Tail(plan[i])] /\ plan[i] # <<>>
  BY <1>1 DEF Advance, Enabled
<1>7. \A j \in Instances : j # i => state'[j] = state[j]
  BY <1>1
<1>8. state'[i] = IF h.do = "set_state" THEN h.what ELSE state[i]
  BY <1>1
<1> QED
  BY <1>1, <1>4, <1>5, <1>6, <1>7, <1>8 DEF Steps

\* What a state written over makes unsure is what is remembered of it.
LEMMA OverwrittenIs ==
    ASSUME NEW i, NEW h, NEW w \in Exempt(graph.kind, h)
    PROVE  <<i, w>> \in Overwritten(i, h) /\ <<i, w>> \notin Adds(i, h)
<1>1. h.do = "set_state"
  BY ExemptIs
<1>2. Adds(i, h) = {}
  BY <1>1 DEF Adds
<1>3. w = "start" /\ Overwritten(i, h) = {<<i, "start">>}
  BY DEF Exempt, Overwritten
<1> QED
  BY <1>2, <1>3

\* A task that succeeds keeps them all.
LEMMA TaskSucceedsKeeps ==
    ASSUME FactsInv, LeftInv, PlanInv, SoundInv, StubInv, graph.on \subseteq deployed,
           NEW i \in Instances, TaskSucceeds(i)
    PROVE  FactsInv' /\ LeftInv' /\ PlanInv' /\ SoundInv' /\ StubInv'
<1>1. PICK h, S : h = Head(plan[i]) /\ S = {i}
  OBVIOUS
<1>2. PICK made, over, r :
         made = Adds(i, h) /\ over = Overwritten(i, h) /\ r = Tail(plan[i])
  OBVIOUS
<1>3. DOMAIN state = Instances /\ state \in [Instances -> States]
  BY DEF FactsInv
<1>4. /\ Steps(i, S, made, over, r)
      /\ state'[i] = IF h.do = "set_state" THEN h.what ELSE state[i]
      /\ state' = IF h.do = "set_state" THEN [state EXCEPT ![i] = h.what]
                                        ELSE state
      /\ misled' = misled
  BY <1>1, <1>2, <1>3, SuccessMoves
<1>5. plan[i] # <<>> /\ Moves(S, made, over) /\ i \in S
  BY <1>1, <1>4 DEF Steps
<1>6. /\ i \in deployed
      /\ i \in graph.on => h \in TasksOf(graph.kind, RelSet(i))
      /\ i \notin graph.on => h \in LinkTasks(graph.kind, RelSet(i))
      /\ Gains(i, h) \subseteq Whats
  BY <1>1, <1>5, HeadIs
<1>7. i \notin graph.on => h.do # "set_state"
  BY <1>6 DEF LinkTasks
<1>8. h.do = "set_state" => h.what \in States
  BY <1>6, <1>7 DEF TasksOf, UndoTasks, DoTasks
<1>9. state' \in [Instances -> States]
  BY <1>3, <1>4, <1>8
<1>10. made \subseteq Instances \X Whats
  <2>1. h.do = "establish" => made = {<<i, h.what>>} /\ Gains(i, h) = {h.what}
    BY <1>2 DEF Adds, Gains
  <2>2. h.do = "operation" => made \subseteq {i} \X Real[i]
    BY <1>2 DEF Adds
  <2>3. h.do \notin {"establish", "operation"} => made = {}
    BY <1>2 DEF Adds
  <2> QED
    BY <1>6, <2>1, <2>2, <2>3, MadeAreNotInstances
<1>11. FactsInv' /\ LeftInv'
  BY <1>4, <1>9, <1>10, StepKeepsFacts
<1>12. /\ i \in graph.on => r \in Seq(TasksOf(graph.kind, RelSet(i)))
       /\ i \notin graph.on => r \in Seq(LinkTasks(graph.kind, RelSet(i)))
  BY <1>2, <1>5, <1>6 DEF PlanInv
<1>13. PlanInv'
  BY <1>4, <1>12, StepKeepsPlans
<1>14. StubInv'
  BY <1>2, <1>4, <1>5, StepKeepsStubs
<1>15. ASSUME i \notin misled', i \in graph.on
       PROVE  \E a : /\ Entails(Now(i)', a)
                     /\ Works(i, graph.kind, RelSet(i), a, r)
  <2>1. PICK a : Entails(Now(i), a) /\ Works(i, graph.kind, RelSet(i), a, plan[i])
    BY <1>4, <1>6, <1>15 DEF SoundInv
  <2>2. \A w \in Exempt(graph.kind, Head(plan[i])) :
           <<i, w>> \in over /\ <<i, w>> \notin made
    BY <1>1, <1>2, OverwrittenIs
  <2>3. Entails(Now(i)', Post(i, graph.kind, Head(plan[i]), Now(i)))
    BY <1>1, <1>4, <1>5, <1>6, <2>2, PostMoves
  <2> QED
    BY <1>2, <1>5, <2>1, <2>3, WorksTail
<1>16. ASSUME i \notin misled', i \notin graph.on
       PROVE  Holds(i, RelSet(i), Now(i)')
  <2>1. Holds(i, RelSet(i), Now(i))
    BY <1>4, <1>6, <1>16 DEF SoundInv
  <2>2. state'[i] = state[i] /\ InStub(i)
    BY <1>4, <1>7, <1>16 DEF InStub
  <2>3. Head(plan[i]) \in LinkTasks(graph.kind, RelSet(i)) /\ RelSet(i) \in SUBSET Instances
    BY <1>1, <1>6, <1>16, RelSetIs
  <2> QED
    BY <1>5, <2>1, <2>2, <2>3, StubMoves
<1>17. SoundInv'
  BY <1>4, <1>15, <1>16, StepKeepsSound
<1> QED
  BY <1>11, <1>13, <1>14, <1>17

\* An operation that failed: what landed of it, and what was given up.
LEMMA FailureMoves ==
    ASSUME NEW i \in Instances, NEW effect \in BOOLEAN, NEW h, h = Head(plan[i]),
           Failed(i, effect), NEW over, Recorded({}), misled \subseteq misled',
           abandoned' = (abandoned \cup over) \cap inforce', NEW e, e = {},
           NEW S, S = IF effect THEN {i} ELSE {}
    PROVE  Moves(S, e, over)
<1>1. inforce' = Landed(inforce, S)
  <2>1. CASE effect
    BY <2>1, AfterIsLanded DEF Failed
  <2>2. CASE ~effect
    BY <2>2, AfterIsLanded DEF Failed
  <2> QED
    BY <2>1, <2>2
<1> QED
  BY <1>1 DEF Moves

\* A failure that is ignored keeps them all.
LEMMA TaskIsIgnoredKeeps ==
    ASSUME FactsInv, LeftInv, PlanInv, SoundInv, StubInv, graph.on \subseteq deployed,
           NEW i \in Instances, NEW effect \in BOOLEAN, TaskIsIgnored(i, effect)
    PROVE  FactsInv' /\ LeftInv' /\ PlanInv' /\ SoundInv' /\ StubInv'
<1>1. PICK h, S, e, over, r :
         /\ h = Head(plan[i]) /\ S = (IF effect THEN {i} ELSE {}) /\ e = {}
         /\ over = Removes(i, h) /\ r = Tail(plan[i])
  OBVIOUS
<1>2. /\ InFlight(i) /\ Ignored(i) /\ Failed(i, effect)
      /\ GivenUp(Removes(i, Head(plan[i])), {}) /\ Recorded({}) /\ Advance(i)
      /\ UNCHANGED <<state, deployed, graph, seen>>
  BY DEF TaskIsIgnored
<1>3. misled' = misled /\ abandoned' = (abandoned \cup over) \cap inforce'
  BY <1>1, <1>2 DEF GivenUp
<1>4. Moves(S, e, over)
  BY <1>1, <1>2, <1>3, FailureMoves
<1>5. plan[i] # <<>> /\ h.do # "set_state" /\ graph.kind # "install"
      /\ plan' = [plan EXCEPT ![i] = r]
  BY <1>1, <1>2 DEF InFlight, Enabled, Ignored, Advance
<1>6. Steps(i, S, e, over, r)
  BY <1>1, <1>2, <1>4, <1>5 DEF Steps
<1>7. /\ i \in deployed
      /\ i \in graph.on => h \in TasksOf(graph.kind, RelSet(i))
      /\ i \notin graph.on => h \in LinkTasks(graph.kind, RelSet(i))
      /\ Gains(i, h) \subseteq Whats
  BY <1>1, <1>5, HeadIs
<1>8. e \subseteq Instances \X Whats /\ state' \in [Instances -> States]
  BY <1>1, <1>2 DEF FactsInv
<1>9. FactsInv' /\ LeftInv'
  BY <1>6, <1>8, StepKeepsFacts
<1>10. /\ i \in graph.on => r \in Seq(TasksOf(graph.kind, RelSet(i)))
       /\ i \notin graph.on => r \in Seq(LinkTasks(graph.kind, RelSet(i)))
  BY <1>1, <1>5, <1>7 DEF PlanInv
<1>11. PlanInv'
  BY <1>6, <1>10, StepKeepsPlans
<1>12. StubInv'
  BY <1>1, <1>5, <1>6, StepKeepsStubs
<1>13. Exempt(graph.kind, Head(plan[i])) = {}
  BY <1>1, <1>5, ExemptIs
<1>14. ASSUME i \notin misled', i \in graph.on
       PROVE  \E a : /\ Entails(Now(i)', a)
                     /\ Works(i, graph.kind, RelSet(i), a, r)
  <2>1. PICK a : Entails(Now(i), a) /\ Works(i, graph.kind, RelSet(i), a, plan[i])
    BY <1>3, <1>7, <1>14 DEF SoundInv
  <2>2. CASE effect
    <3>1. i \in S /\ state'[i] = state[i]
      BY <1>1, <1>2, <2>2
    <3>2. \A w \in Exempt(graph.kind, Head(plan[i])) : <<i, w>> \in over /\ <<i, w>> \notin e
      BY <1>13
    <3>3. Entails(Now(i)', Post(i, graph.kind, Head(plan[i]), Now(i)))
      BY <1>1, <1>4, <1>5, <1>7, <3>1, <3>2, PostMoves
    <3> QED
      BY <1>1, <1>5, <2>1, <3>3, WorksTail
  <2>3. CASE ~effect
    <3>1. i \notin S /\ state'[i] = state[i] /\ S = {}
      BY <1>1, <1>2, <2>3
    <3>2. Gains(i, h) = {}
      <4>1. h \in UndoTasks(RelSet(i))
        BY <1>5, <1>7, <1>14 DEF TasksOf
      <4>2. h.do # "establish" /\ (h.do = "operation" => h.what \in {"stop", "delete"})
        BY <4>1 DEF UndoTasks
      <4>3. Real[i] \subseteq Made /\ "stop" \notin Made /\ "delete" \notin Made
        BY MadeAreNotInstances DEF Made
      <4> QED
        BY <4>2, <4>3 DEF Gains
    <3>3. PICK p : p = Post(i, graph.kind, h, Now(i))
      OBVIOUS
    <3>4. /\ p.st = Now(i).st /\ p.sure = Now(i).sure \ Loses(h)
          /\ p.may = Now(i).may \ Loses(h)
      BY <1>1, <1>5, <1>13, <3>2, <3>3 DEF Post
    <3>5. /\ Now(i).st = state[i] /\ Now(i)'.st = state'[i] /\ Now(i).sure \subseteq Whats
          /\ (Now(i).sure)' = Now(i)'.sure /\ (Now(i).may)' = Now(i)'.may
      BY DEF Now
    <3>6. Lost(i, S) = {} /\ Gained(i, S) = {} /\ inforce \subseteq Instances \X Whats
      BY <3>1 DEF Lost, Gained, FactsInv
    <3>7. /\ \A w \in Now(i).sure : w \in Now(i)'.sure
          /\ \A w \in Now(i)'.may : w \in Now(i).may /\ <<i, w>> \notin over
      BY <1>1, <1>4, <3>5, <3>6, NowMoves
    <3>8. \A w : <<i, w>> \in over <=> w \in Loses(h)
      BY <1>1, AddsIs
    <3>9. Entails(Now(i)', p)
      BY <3>1, <3>4, <3>5, <3>7, <3>8 DEF Entails
    <3>10. Entails(Now(i)', Post(i, graph.kind, Head(plan[i]), Now(i)))
      BY <1>1, <3>3, <3>9
    <3> QED
      BY <1>1, <1>5, <2>1, <3>10, WorksTail
  <2> QED
    BY <2>2, <2>3
<1>15. ASSUME i \notin misled', i \notin graph.on
       PROVE  Holds(i, RelSet(i), Now(i)')
  <2>1. Holds(i, RelSet(i), Now(i))
    BY <1>3, <1>7, <1>15 DEF SoundInv
  <2>2. state'[i] = state[i] /\ InStub(i)
    BY <1>2, <1>15 DEF InStub
  <2>3. Head(plan[i]) \in LinkTasks(graph.kind, RelSet(i)) /\ RelSet(i) \in SUBSET Instances
    BY <1>1, <1>7, <1>15, RelSetIs
  <2>4. CASE i \in S
    BY <1>4, <2>1, <2>2, <2>3, <2>4, StubMoves
  <2>5. CASE i \notin S
    <3>1. Entails(Now(i)', Now(i))
      BY <1>4, <2>2, <2>5, NowStays
    <3> QED
      BY <2>1, <3>1, EntailsHolds
  <2> QED
    BY <2>4, <2>5
<1>16. SoundInv'
  BY <1>6, <1>14, <1>15, StepKeepsSound
<1> QED
  BY <1>9, <1>11, <1>12, <1>16

-----------------------------------------------------------------------------
(* The end of a graph *)

\* A subgraph that is built again keeps them all.
LEMMA SubgraphRetriedKeeps ==
    ASSUME FactsInv, LeftInv, PlanInv, SoundInv, StubInv, graph.on \subseteq deployed,
           graph.kind \in Kinds,
           NEW i \in Instances, NEW effect \in BOOLEAN, SubgraphRetried(i, effect)
    PROVE  FactsInv' /\ LeftInv' /\ PlanInv' /\ SoundInv' /\ StubInv'
<1>1. PICK h, S, e, r, s :
         /\ h = Head(plan[i]) /\ S = (IF effect THEN {i} ELSE {}) /\ e = {}
         /\ r = Rebuilt(i, seen[i]) /\ s = seen[i]
  OBVIOUS
<1>2. /\ InFlight(i) /\ HasRetry(i) /\ Failed(i, effect) /\ Recorded({})
      /\ UNCHANGED <<state, deployed, graph, seen>>
      /\ plan' = [plan EXCEPT ![i] = r]
      /\ misled' = IF Lacks(i) THEN misled \cup {i} ELSE misled
      /\ abandoned' = abandoned \cap inforce'
  BY <1>1 DEF SubgraphRetried
<1>3. misled \subseteq misled' /\ (i \notin misled' => ~Lacks(i))
      /\ abandoned' = (abandoned \cup e) \cap inforce'
  BY <1>1, <1>2
<1>4. Moves(S, e, e)
  BY <1>1, <1>2, <1>3, FailureMoves
<1>5. plan[i] # <<>> /\ h.do # "set_state" /\ i \in graph.on /\ i \in deployed
  BY <1>1, <1>2 DEF InFlight, Enabled, HasRetry, InStub
<1>6. Steps(i, S, e, e, r)
  BY <1>1, <1>2, <1>4, <1>5 DEF Steps
<1>7. e \subseteq Instances \X Whats /\ state' \in [Instances -> States] /\ s \in States
  BY <1>1, <1>2 DEF FactsInv
<1>8. FactsInv' /\ LeftInv'
  BY <1>6, <1>7, StepKeepsFacts
<1>9. PICK ts, tt : ts = RelSet(i) /\ tt = Rels(i)
  OBVIOUS
<1>10. ts \in SUBSET Instances /\ tt \in Seq(ts) /\ ToSet(tt) = ts
       /\ RelSet(i)' = ts
  BY <1>2, <1>9, RelSetIs DEF RelSet, Rels
<1>11. r = RebuiltOf(i, graph.kind, s, tt)
  BY <1>1, <1>9 DEF Rebuilt, RebuiltOf
<1>12. PICK kind \in Kinds : kind = graph.kind
  OBVIOUS
<1>13. r \in Seq(TasksOf(graph.kind, RelSet(i)))
  <2>1. RebuiltOf(i, kind, s, tt) \in Seq(TasksOf(kind, ts))
    BY <1>7, <1>10, RebuiltIsSeq
  <2> QED
    BY <1>9, <1>11, <1>12, <2>1
<1>14. PlanInv'
  BY <1>5, <1>6, <1>13, StepKeepsPlans
<1>15. StubInv'
  BY <1>5, <1>6, StepKeepsStubs
<1>16. ASSUME i \notin misled'
       PROVE  \E a : /\ Entails(Now(i)', a)
                     /\ Works(i, graph.kind, RelSet(i), a, r)
  <2>1. Moves(S, {}, {})
    BY <1>1, <1>4
  <2>2. Plans(S) /\ \A j \in S : Head(plan[j]).do # "set_state"
    BY <1>1, <1>5 DEF Plans
  <2>3. Holds(i, RelSet(i), Now(i)')
    BY <1>2, <1>5, <1>16, <2>1, <2>2, LandingIsCalm
  <2>4. PICK a : a = Now(i)'
    OBVIOUS
  <2>5. a \in Assertions /\ a.st = state[i] /\ a.may \subseteq Real[i] \cup ts
        /\ Holds(i, ts, a)
    BY <1>2, <1>8, <1>9, <1>10, <2>3, <2>4, NowFitsNext
  <2>6. ~LacksOf(i, kind, state[i], s, tt)
    BY <1>1, <1>3, <1>9, <1>12, <1>16 DEF Lacks, LacksOf
  <2>7. ~LacksOf(i, kind, a.st, s, tt)
    BY <2>5, <2>6
  <2>8. Works(i, kind, ts, a, RebuiltOf(i, kind, s, tt))
    BY <1>7, <1>10, <2>5, <2>7, RebuiltWorks
  <2>9. Entails(a, a)
    BY DEF Entails
  <2> QED
    BY <1>9, <1>11, <1>12, <2>4, <2>8, <2>9
<1>17. SoundInv'
  BY <1>5, <1>6, <1>16, StepKeepsSound
<1> QED
  BY <1>8, <1>14, <1>15, <1>17

\* The deployment may lose instances, about which nothing is then promised.
LEMMA FewerAreCalm ==
    ASSUME FactsInv, deployed' \subseteq deployed,
           \A j \in deployed \ misled' : Holds(j, RelSet(j), Now(j)')
    PROVE  Calm'
<1> SUFFICES ASSUME NEW j \in deployed' \ misled'
             PROVE  Holds(j, RelSet(j)', Now(j)')
  BY DEF Calm
<1>1. j \in Instances /\ j \in deployed
  BY DEF FactsInv
<1>2. RelSet(j)' \subseteq RelSet(j)
  BY <1>1, RelSetIs, RelSetNext
<1> QED
  BY <1>1, <1>2, HoldsOfFewer

\* The operations that agents are at land, and the graph ends.
LEMMA LandingMoves ==
    ASSUME SomeLand, misled \subseteq misled', Recorded({}),
           abandoned \cap inforce' \subseteq abandoned'
    PROVE  \E S : /\ Moves(S, {}, {}) /\ Plans(S)
                  /\ \A j \in S : Head(plan[j]).do # "set_state"
<1>1. PICK S \in SUBSET {j \in Instances : InFlight(j)} : inforce' = Landed(inforce, S)
  BY DEF SomeLand
<1>2. Moves(S, {}, {})
  BY <1>1 DEF Moves
<1>3. \A j \in S : j \in Instances /\ plan[j] # <<>> /\ Head(plan[j]).do # "set_state"
  BY <1>1 DEF InFlight, Enabled
<1> QED
  BY <1>2, <1>3 DEF Plans

LEMMA LandingKeeps ==
    ASSUME FactsInv, LeftInv, PlanInv, SoundInv, graph.on \subseteq deployed,
           SomeLand, misled \subseteq misled', Recorded({}),
           abandoned \cap inforce' \subseteq abandoned', state' = state,
           seen' \in [Instances -> States], deployed' \subseteq deployed,
           \A i \in deployed \ deployed' : i \in misled'
    PROVE  FactsInv' /\ LeftInv' /\ Calm'
<1>1. PICK S : /\ Moves(S, {}, {}) /\ Plans(S)
               /\ \A j \in S : Head(plan[j]).do # "set_state"
  BY LandingMoves
<1>2. PICK e : e = {}
  OBVIOUS
<1>3. Moves(S, e, e) /\ e \subseteq Instances \X Whats
  BY <1>1, <1>2
<1>4. /\ inforce' \subseteq Instances \X Whats
      /\ \A i, w : <<i, w>> \in inforce' => w \in Real[i] \cup ToSet(Targets[i])
      /\ unrecorded' \subseteq Instances \X Instances
  BY <1>1, <1>3, FactsMove
<1>5. FactsInv'
  BY <1>4 DEF FactsInv
<1>6. \A f \in inforce' :
         (f[1] \notin deployed \/ f[2] \in Instances \ deployed) => Excused(f)'
  BY <1>1, <1>3, LeftMoves
<1>7. LeftInv'
  <2> SUFFICES ASSUME NEW f \in inforce',
                      f[1] \notin deployed' \/ f[2] \in Instances \ deployed'
               PROVE  Excused(f)'
    BY DEF LeftInv
  <2>1. CASE f[1] \notin deployed \/ f[2] \in Instances \ deployed
    BY <1>6, <2>1
  <2>2. CASE ~(f[1] \notin deployed \/ f[2] \in Instances \ deployed)
    <3>1. f[1] \in misled' \/ f[2] \in misled'
      BY <1>4, <2>2
    <3> QED
      BY <3>1 DEF Excused
  <2> QED
    BY <2>1, <2>2
<1>8. \A j \in deployed \ misled' : Holds(j, RelSet(j), Now(j)')
  BY <1>1, LandingIsCalm
<1>9. Calm'
  BY <1>8, FewerAreCalm
<1> QED
  BY <1>5, <1>7, <1>9

LEMMA ExcusedSame ==
    ASSUME UNCHANGED history
    PROVE  \A f : Excused(f)' <=> Excused(f)
BY DEF Excused, history

LEMMA NowSame ==
    ASSUME UNCHANGED <<state, inforce, history>>
    PROVE  \A i : Now(i)' = Now(i)
BY DEF Now, Excused, history

\* Nothing happens to the instances; of what leaves the deployment nothing is in
\* force that is not excused.
LEMMA ShrinkKeeps ==
    ASSUME FactsInv, LeftInv, SoundInv, UNCHANGED <<state, inforce, history>>,
           seen' \in [Instances -> States], deployed' \subseteq deployed,
           \A f \in inforce :
              (\/ f[1] \in deployed \ deployed' \/ f[2] \in deployed \ deployed')
                 => Excused(f)
    PROVE  FactsInv' /\ LeftInv' /\ Calm'
<1>1. FactsInv'
  BY DEF FactsInv, history
<1>2. LeftInv'
  <2> SUFFICES ASSUME NEW f \in inforce,
                      f[1] \notin deployed' \/ f[2] \in Instances \ deployed'
               PROVE  Excused(f)
    BY ExcusedSame DEF LeftInv
  <2>1. CASE f[1] \notin deployed \/ f[2] \in Instances \ deployed
    BY <2>1 DEF LeftInv
  <2>2. CASE ~(f[1] \notin deployed \/ f[2] \in Instances \ deployed)
    BY <2>2
  <2> QED
    BY <2>1, <2>2
<1>3. \A j \in deployed \ misled' : Holds(j, RelSet(j), Now(j)')
  BY SoundIsCalm, NowSame DEF Calm, history
<1>4. Calm'
  BY <1>3, FewerAreCalm
<1> QED
  BY <1>1, <1>2, <1>4

LEMMA UnchangedKeeps ==
    ASSUME FactsInv, LeftInv, SoundInv, UNCHANGED <<state, inforce, history, deployed>>,
           seen' \in [Instances -> States]
    PROVE  FactsInv' /\ LeftInv' /\ Calm'
BY ShrinkKeeps

\* New instances: nothing is known to be in force of them, and the links to them
\* that started instances do not have yet are remembered.
LEMMA GrowKeeps ==
    ASSUME FactsInv, LeftInv, SoundInv,
           UNCHANGED <<state, inforce, abandoned, misled>>, NEW S,
           S \subseteq Instances, S \cap deployed = {},
           \A i \in S : state[i] = "uninitialized",
           deployed' = deployed \cup S, seen' = state,
           unrecorded' = unrecorded \cup
             {l \in deployed \X S : /\ state[l[1]] = "started"
                                   /\ l[2] \in ToSet(Targets[l[1]])}
    PROVE  FactsInv' /\ LeftInv' /\ Calm'
<1>1. deployed \subseteq Instances /\ unrecorded \subseteq unrecorded'
  BY DEF FactsInv
<1>2. FactsInv'
  <2>1. unrecorded' \subseteq Instances \X Instances
    <3>1. {l \in deployed \X S : /\ state[l[1]] = "started"
                                 /\ l[2] \in ToSet(Targets[l[1]])}
             \subseteq Instances \X Instances
      BY <1>1
    <3> QED
      BY <3>1 DEF FactsInv
  <2> QED
    BY <2>1 DEF FactsInv
<1>3. \A f : Excused(f) => Excused(f)'
  BY <1>1 DEF Excused
<1>4. LeftInv'
  BY <1>3 DEF LeftInv
<1>5. ASSUME NEW i \in deployed' \ misled'
      PROVE  Holds(i, RelSet(i)', Now(i)')
  <2>1. i \in Instances
    BY <1>1, <1>5
  <2>2. /\ Now(i).st = state[i] /\ Now(i)'.st = state[i]
        /\ Now(i).sure = {w \in Whats : <<i, w>> \in inforce \cup unrecorded}
        /\ Now(i).may = {w \in Whats : <<i, w>> \in inforce /\ ~Excused(<<i, w>>)}
        /\ Now(i)'.sure = {w \in Whats : <<i, w>> \in inforce \cup unrecorded'}
        /\ Now(i)'.may = {w \in Whats : <<i, w>> \in inforce /\ ~Excused(<<i, w>>)'}
    BY DEF Now
  <2>3. Now(i).sure \subseteq Now(i)'.sure /\ Now(i)'.may \subseteq Now(i).may
    BY <1>1, <1>3, <2>2
  <2>4. CASE i \in deployed
    <3>1. Holds(i, RelSet(i), Now(i))
      BY <1>5, <2>4, SoundIsCalm DEF Calm
    <3>2. ASSUME state[i] = "started", NEW t \in RelSet(i)'
          PROVE  t \in Now(i)'.sure
      <4>1. t \in ToSet(Targets[i]) /\ t \in deployed \cup S /\ t \in Instances
        BY <2>1, RelSetNext
      <4>2. CASE t \in deployed
        <5>1. t \in RelSet(i)
          BY <2>1, <4>1, <4>2, RelSetIs
        <5>2. t \in Claims(i, RelSet(i), state[i])
          BY <3>2, <5>1 DEF Claims
        <5> QED
          BY <2>2, <2>3, <3>1, <5>2 DEF Holds
      <4>3. CASE t \in S
        <5> PICK l : l = <<i, t>>
          OBVIOUS
        <5>1. l \in deployed \X S /\ l[1] = i /\ l[2] = t
          BY <2>4, <4>3
        <5>2. l \in unrecorded'
          BY <3>2, <4>1, <5>1
        <5> QED
          BY <2>2, <4>1, <5>2, MadeAreNotInstances
      <4> QED
        BY <4>1, <4>2, <4>3
    <3>3. Claims(i, RelSet(i)', state[i])
             \subseteq Claims(i, RelSet(i), state[i]) \cup Now(i)'.sure
      BY <3>2 DEF Claims
    <3> QED
      BY <2>2, <2>3, <3>1, <3>3 DEF Holds
  <2>5. CASE i \in S
    <3>1. state[i] = "uninitialized"
      BY <2>5
    <3>2. Claims(i, RelSet(i)', state[i]) = {}
      BY <3>1 DEF Claims, CreatedBefore, ConfiguredBefore
    <3>3. Now(i)'.may = {}
      <4> SUFFICES ASSUME NEW w \in Now(i)'.may
                   PROVE  FALSE
        OBVIOUS
      <4> PICK f : f = <<i, w>>
        OBVIOUS
      <4>1. f \in inforce /\ f[1] \notin deployed /\ ~Excused(f)'
        BY <2>2, <2>5
      <4> QED
        BY <1>3, <4>1 DEF LeftInv
    <3> QED
      BY <2>2, <3>2, <3>3 DEF Holds
  <2> QED
    BY <1>5, <2>4, <2>5
<1>6. Calm'
  BY <1>5 DEF Calm
<1> QED
  BY <1>2, <1>4, <1>6

\* An uninstall that has come to its end left nothing of its instances, and no
\* link to them.
LEMMA UndoneIsExcused ==
    ASSUME FactsInv, LeftInv, SoundInv, StubInv, graph.on \subseteq deployed,
           graph.kind = "uninstall", plan = NoPlan, NEW f \in inforce,
           f[1] \in graph.on \/ f[2] \in graph.on
    PROVE  Excused(f)
<1>1. PICK i \in Instances, w \in Whats : f = <<i, w>>
  BY DEF FactsInv
<1>2. f[1] = i /\ f[2] = w
  BY <1>1
<1>3. CASE i \in graph.on
  <2>1. CASE i \in misled
    BY <1>2, <2>1 DEF Excused
  <2>2. CASE i \notin misled
    <3>1. PICK a : /\ Entails(Now(i), a)
                   /\ Works(i, graph.kind, RelSet(i), a, plan[i])
      BY <1>3, <2>2 DEF SoundInv
    <3>2. plan[i] = <<>>
      BY DEF NoPlan
    <3>3. Meets(graph.kind, a)
      BY <3>1, <3>2, WorksDone
    <3>4. Now(i).may = {}
      BY <3>1, <3>3 DEF Meets, Entails
    <3>5. Now(i).may = {x \in Whats : <<i, x>> \in inforce /\ ~Excused(<<i, x>>)}
      BY DEF Now
    <3> QED
      BY <1>1, <3>4, <3>5
  <2> QED
    BY <2>1, <2>2
<1>4. CASE i \notin deployed
  BY <1>2, <1>4 DEF LeftInv
<1>5. CASE i \in deployed \ graph.on
  <2>1. w \in graph.on
    BY <1>2, <1>5
  <2>2. plan[i] = <<>> /\ ToSet(<<>>) = {}
    BY DEF NoPlan, ToSet
  <2>3. Excused(<<i, w>>) \/ [do |-> "unlink", what |-> w] \in ToSet(plan[i])
    BY <1>1, <1>5, <2>1 DEF StubInv
  <2> QED
    BY <1>1, <2>2, <2>3
<1> QED
  BY <1>3, <1>4, <1>5

LEMMA UndoneIsDeleted ==
    ASSUME FactsInv, SoundInv, graph.on \subseteq deployed,
           graph.kind = "uninstall", plan = NoPlan, NEW i \in graph.on \ misled
    PROVE  state[i] = "deleted"
<1>1. i \in Instances /\ i \in deployed
  BY DEF FactsInv
<1>2. PICK a : /\ Entails(Now(i), a)
               /\ Works(i, graph.kind, RelSet(i), a, plan[i])
  BY <1>1 DEF SoundInv
<1>3. plan[i] = <<>>
  BY <1>1 DEF NoPlan
<1>4. Meets(graph.kind, a)
  BY <1>2, <1>3, WorksDone
<1>5. Now(i).st = state[i]
  BY DEF Now
<1> QED
  BY <1>2, <1>4, <1>5 DEF Meets, Entails

\* An install that has come to its end brought about all that it says.
LEMMA DoneIsWhole ==
    ASSUME FactsInv, LeftInv, SoundInv, StubInv, graph.on \subseteq deployed,
           graph.kind = "install", plan = NoPlan
    PROVE  /\ \A i \in graph.on \ misled :
                 /\ state[i] = "started"
                 /\ {i} \X Real[i] \subseteq inforce
                 /\ {i} \X ToSet(Rels(i)) \subseteq inforce \cup unrecorded
           /\ \A j \in deployed, i \in graph.on :
                 (j \notin graph.on /\ i \in ToSet(Rels(j))) => <<j, i>> \in inforce
<1>1. ASSUME NEW i \in graph.on \ misled
      PROVE  /\ state[i] = "started"
             /\ {i} \X Real[i] \subseteq inforce
             /\ {i} \X ToSet(Rels(i)) \subseteq inforce \cup unrecorded
  <2>1. i \in Instances /\ i \in deployed
    BY DEF FactsInv
  <2>2. PICK a : /\ Entails(Now(i), a)
                 /\ Works(i, graph.kind, RelSet(i), a, plan[i])
    BY <2>1 DEF SoundInv
  <2>3. plan[i] = <<>>
    BY <2>1 DEF NoPlan
  <2>4. Meets(graph.kind, a) /\ Holds(i, RelSet(i), Now(i))
    BY <2>2, <2>3, WorksDone, WorksHolds, EntailsHolds
  <2>5. /\ Now(i).st = state[i]
        /\ Now(i).sure = {w \in Whats : <<i, w>> \in inforce \cup unrecorded}
    BY DEF Now
  <2>6. state[i] = "started"
    BY <2>2, <2>4, <2>5 DEF Meets, Entails
  <2>7. Real[i] \cup RelSet(i) \subseteq Claims(i, RelSet(i), state[i])
    <3>1. "started" \in CreatedBefore /\ "started" \in ConfiguredBefore
      BY DEF CreatedBefore, ConfiguredBefore
    <3>2. Real[i] \subseteq Made
      BY <2>1, MadeAreNotInstances
    <3>3. Made \subseteq {op \in Made : \/ op = "create" /\ state[i] \in CreatedBefore
                                        \/ op = "configure" /\ state[i] \in ConfiguredBefore
                                        \/ op = "start" /\ state[i] = "started"}
      BY <2>6, <3>1 DEF Made
    <3> QED
      BY <2>6, <3>2, <3>3 DEF Claims
  <2>8. \A w \in Real[i] \cup RelSet(i) : <<i, w>> \in inforce \cup unrecorded
    BY <2>4, <2>5, <2>7 DEF Holds
  <2>9. \A w \in Real[i] : <<i, w>> \notin unrecorded
    BY <2>1, MadeAreNotInstances DEF FactsInv
  <2> QED
    BY <2>6, <2>8, <2>9 DEF RelSet
<1>2. ASSUME NEW j \in deployed, NEW i \in graph.on, j \notin graph.on, i \in ToSet(Rels(j))
      PROVE  <<j, i>> \in inforce
  <2>1. plan[j] = <<>> /\ ToSet(<<>>) = {}
    BY DEF NoPlan, ToSet, FactsInv
  <2>2. <<j, i>> \in inforce \/ [do |-> "establish", what |-> i] \in ToSet(plan[j])
    BY <1>2 DEF StubInv, RelSet
  <2> QED
    BY <2>1, <2>2
<1> QED
  BY <1>1, <1>2

-----------------------------------------------------------------------------
(* The inductive invariant *)

\* Which graph runs, and a plan that does nothing but set states.
Runs(kind, on, p) == graph.kind = kind /\ graph.on = on /\ phase = p
SetsOnly(s) == s \in Seq([do : {"set_state"}, what : States])

\* Which graph of which workflow runs, over which instances.
Doing ==
    \/ /\ workflow.kind = "install" /\ workflow.on = deployed
       /\ Runs("install", deployed, "first")
    \/ workflow.kind = "uninstall" /\ Runs("uninstall", deployed, "first")
    \/ /\ workflow.kind = "heal"
       /\ \/ Runs("uninstall", workflow.on, "first")
          \/ Runs("install", workflow.on, "second")
    \/ /\ workflow.kind = "rollback"
       /\ \/ Runs("rollback", workflow.on, "first")
          \/ workflow.option /\ Runs("uninstall", deployed, "second")
    \/ /\ workflow.kind = "scale_out"
       /\ modification = [kind |-> "scale_out", on |-> workflow.on]
       /\ \A i \in graph.on : seen[i] = "uninitialized"
       /\ \/ Runs("install", workflow.on, "first")
          \/ /\ Runs("uninstall", workflow.on, "second")
             /\ \A i \in graph.on : SetsOnly(plan[i])
    \/ /\ workflow.kind = "scale_in"
       /\ modification = [kind |-> "scale_in", on |-> workflow.on]
       /\ Runs("uninstall", workflow.on, "first")
    \/ /\ workflow.kind = "abort" /\ modification.kind # "none"
       /\ Runs("uninstall", IF modification.kind = "scale_out"
                              THEN modification.on ELSE {}, "first")

\* A modification that was started is of instances of the deployment.
ModificationInv ==
    /\ modification.kind \in {"none", "scale_out", "scale_in"}
    /\ modification.on \subseteq deployed
    /\ modification.kind = "none" => modification = NoModification

\* Which graph runs follows from the workflow; without one there is no plan.
GraphInv ==
    /\ graph.on \subseteq deployed
    /\ ModificationInv
    /\ phase \in {"idle", "first", "second"}
    /\ IF Idle THEN graph = NoGraph /\ plan = NoPlan /\ workflow = NoWorkflow
               ELSE graph.kind \in Kinds /\ Doing

\* A subgraph is retried no more often than allowed.
TriesInv == tries \in [Instances -> 0 .. SubgraphRetries]

\* What an install that ended well has brought about, and what an uninstall that
\* did has left, as far as the states were told of it.
WholeByGraphs ==
    Ended({"install", "heal", "scale_out"}) =>
        /\ \A i \in last.workflow.on \ misled :
              /\ state[i] = "started"
              /\ {i} \X Real[i] \subseteq inforce
              /\ {i} \X ToSet(Rels(i)) \subseteq inforce \cup unrecorded
        /\ \A j \in deployed, i \in last.workflow.on :
              (j \notin last.workflow.on /\ i \in ToSet(Rels(j)))
                 => <<j, i>> \in inforce
EndedUndone == /\ Ended({"uninstall", "rollback"})
               /\ last.workflow.kind = "rollback" => last.workflow.option
GoneByGraphs ==
    /\ \A fact \in inforce :
          (\/ fact[1] \notin deployed \/ fact[2] \in Instances \ deployed
           \/ EndedUndone) => Excused(fact)
    /\ EndedUndone => \A i \in deployed \ misled : state[i] = "deleted"

\* What strays may still do is of their instances, and what they did is what the
\* states were not told of.
LateInv ==
    /\ \A x \in stray :
          /\ x.of \in Instances
          /\ Adds(x.of, x.task) \subseteq {x.of} \X (Real[x.of] \cup ToSet(Targets[x.of]))
    /\ lateMade \subseteq Instances \X Whats
    /\ lateMade \cap inforce = {} /\ lateUndone \subseteq inforce

\* The inductive invariant.
CoreInv == FactsInv /\ LeftInv /\ PlanInv /\ SoundInv /\ StubInv
LifecycleInv ==
    /\ CoreInv /\ GraphInv /\ TriesInv
    /\ WholeByGraphs /\ GoneByGraphs

\* As long as a workflow runs, or if it failed, nothing is promised yet.
LEMMA NotEnded ==
    ASSUME LeftInv', phase' # "idle" \/ ~last'.done
    PROVE  WholeByGraphs' /\ GoneByGraphs'
<1>1. \A kinds : ~Ended(kinds)'
  BY DEF Ended, Idle
<1>2. WholeByGraphs'
  BY <1>1 DEF WholeByGraphs
<1>3. GoneByGraphs'
  <2>1. ~EndedUndone'
    BY <1>1 DEF EndedUndone
  <2> SUFFICES ASSUME NEW f \in inforce',
                      f[1] \notin deployed' \/ f[2] \in Instances \ deployed'
               PROVE  Excused(f)'
    BY <2>1 DEF GoneByGraphs
  <2> QED
    BY DEF LeftInv
<1> QED
  BY <1>2, <1>3

LEMMA NoTries == [i \in Instances |-> 0] \in [Instances -> 0 .. SubgraphRetries]
<1>1. SubgraphRetries \in Nat
  BY DeploymentAssumption
<1> QED
  BY <1>1

\* A graph is built for instances to which nothing has happened.
LEMMA BuildAgain ==
    ASSUME LifecycleInv, UNCHANGED <<state, inforce, history, deployed>>,
           NEW p, NEW g, Build(p, g, state, deployed), p \in {"first", "second"},
           g.kind \in Kinds, g.on \subseteq deployed
    PROVE  /\ CoreInv' /\ TriesInv' /\ WholeByGraphs' /\ GoneByGraphs'
           /\ graph' = g /\ phase' = p /\ seen' = state
<1>1. graph' = g /\ phase' = p /\ seen' = state /\ tries' = [i \in Instances |-> 0]
      /\ deployed' = deployed
  BY DEF Build
<1>2. FactsInv /\ LeftInv /\ SoundInv
  BY DEF LifecycleInv, CoreInv
<1>3. state \in [Instances -> States] /\ state' = state
  BY <1>2 DEF FactsInv
<1>4. FactsInv' /\ LeftInv' /\ Calm'
  BY <1>1, <1>2, <1>3, UnchangedKeeps
<1>5. Build(p, g, state, deployed')
  BY <1>1
<1>6. g.on \subseteq deployed' /\ \A i \in g.on \ misled' : state[i] = state'[i]
  BY <1>1, <1>3
<1>7. PlanInv' /\ SoundInv' /\ StubInv'
  BY <1>3, <1>4, <1>5, <1>6, BuildKeeps
<1>8. TriesInv'
  BY <1>1, NoTries DEF TriesInv
<1>9. WholeByGraphs' /\ GoneByGraphs'
  BY <1>1, <1>4, NotEnded
<1> QED
  BY <1>1, <1>4, <1>7, <1>8, <1>9 DEF CoreInv

\* The start of each workflow keeps the invariant.
LEMMA BeginInstallKeeps ==
    ASSUME LifecycleInv, BeginInstall
    PROVE  LifecycleInv'
<1>1. /\ workflow' = Workflow("install", deployed, FALSE, FALSE)
      /\ Build("first", Graph("install", deployed, FALSE), state, deployed)
      /\ UNCHANGED <<state, inforce, history, deployed, modification>>
  BY DEF BeginInstall, Begin, history
<1>2. PICK g : g = Graph("install", deployed, FALSE)
  OBVIOUS
<1>3. g.kind = "install" /\ g.on = deployed
  BY <1>2 DEF Graph
<1>4. /\ CoreInv' /\ TriesInv' /\ WholeByGraphs' /\ GoneByGraphs'
      /\ graph' = g /\ phase' = "first" /\ seen' = state
  BY <1>1, <1>2, <1>3, BuildAgain DEF Kinds
<1>5. GraphInv'
  <2>1. ModificationInv'
    BY <1>1 DEF LifecycleInv, GraphInv, ModificationInv
  <2>2. Doing'
    BY <1>1, <1>3, <1>4 DEF Doing, Runs, Workflow
  <2> QED
    BY <1>1, <1>3, <1>4, <2>1, <2>2 DEF GraphInv, Idle, Kinds
<1> QED
  BY <1>4, <1>5 DEF LifecycleInv

LEMMA BeginUninstallKeeps ==
    ASSUME LifecycleInv, NEW ignore, BeginUninstall(ignore)
    PROVE  LifecycleInv'
<1>1. /\ workflow' = Workflow("uninstall", deployed, ignore, FALSE)
      /\ Build("first", Graph("uninstall", deployed, ignore), state, deployed)
      /\ UNCHANGED <<state, inforce, history, deployed, modification>>
  BY DEF BeginUninstall, Begin, history
<1>2. PICK g : g = Graph("uninstall", deployed, ignore)
  OBVIOUS
<1>3. g.kind = "uninstall" /\ g.on = deployed
  BY <1>2 DEF Graph
<1>4. /\ CoreInv' /\ TriesInv' /\ WholeByGraphs' /\ GoneByGraphs'
      /\ graph' = g /\ phase' = "first" /\ seen' = state
  BY <1>1, <1>2, <1>3, BuildAgain DEF Kinds
<1>5. GraphInv'
  <2>1. ModificationInv'
    BY <1>1 DEF LifecycleInv, GraphInv, ModificationInv
  <2>2. Doing'
    BY <1>1, <1>3, <1>4 DEF Doing, Runs, Workflow
  <2> QED
    BY <1>1, <1>3, <1>4, <2>1, <2>2 DEF GraphInv, Idle, Kinds
<1> QED
  BY <1>4, <1>5 DEF LifecycleInv

LEMMA BeginHealKeeps ==
    ASSUME LifecycleInv, NEW on, NEW ignore, BeginHeal(on, ignore)
    PROVE  LifecycleInv'
<1>1. /\ workflow' = Workflow("heal", on, ignore, FALSE) /\ on \subseteq deployed
      /\ Build("first", Graph("uninstall", on, ignore), state, deployed)
      /\ UNCHANGED <<state, inforce, history, deployed, modification>>
  BY DEF BeginHeal, Begin, history
<1>2. PICK g : g = Graph("uninstall", on, ignore)
  OBVIOUS
<1>3. g.kind = "uninstall" /\ g.on = on
  BY <1>2 DEF Graph
<1>4. /\ CoreInv' /\ TriesInv' /\ WholeByGraphs' /\ GoneByGraphs'
      /\ graph' = g /\ phase' = "first" /\ seen' = state
  BY <1>1, <1>2, <1>3, BuildAgain DEF Kinds
<1>5. GraphInv'
  <2>1. ModificationInv'
    BY <1>1 DEF LifecycleInv, GraphInv, ModificationInv
  <2>2. Doing'
    BY <1>1, <1>3, <1>4 DEF Doing, Runs, Workflow
  <2> QED
    BY <1>1, <1>3, <1>4, <2>1, <2>2 DEF GraphInv, Idle, Kinds
<1> QED
  BY <1>4, <1>5 DEF LifecycleInv

LEMMA BeginRollbackKeeps ==
    ASSUME LifecycleInv, NEW full, BeginRollback(full)
    PROVE  LifecycleInv'
<1>1. PICK on : on = {i \in deployed : state[i] \in Unresolved}
  OBVIOUS
<1>2. /\ workflow' = Workflow("rollback", on, TRUE, full) /\ on \subseteq deployed
      /\ Build("first", Graph("rollback", on, TRUE), state, deployed)
      /\ UNCHANGED <<state, inforce, history, deployed, modification>>
  BY <1>1 DEF BeginRollback, Begin, history
<1>3. PICK g : g = Graph("rollback", on, TRUE)
  OBVIOUS
<1>4. g.kind = "rollback" /\ g.on = on
  BY <1>3 DEF Graph
<1>5. /\ CoreInv' /\ TriesInv' /\ WholeByGraphs' /\ GoneByGraphs'
      /\ graph' = g /\ phase' = "first" /\ seen' = state
  BY <1>2, <1>3, <1>4, BuildAgain DEF Kinds
<1>6. GraphInv'
  <2>1. ModificationInv'
    BY <1>2 DEF LifecycleInv, GraphInv, ModificationInv
  <2>2. Doing'
    BY <1>2, <1>4, <1>5 DEF Doing, Runs, Workflow
  <2> QED
    BY <1>2, <1>4, <1>5, <2>1, <2>2 DEF GraphInv, Idle, Kinds
<1> QED
  BY <1>5, <1>6 DEF LifecycleInv

LEMMA BeginScaleInKeeps ==
    ASSUME LifecycleInv, NEW on, NEW ignore, NEW option,
           BeginScaleIn(on, ignore, option)
    PROVE  LifecycleInv'
<1>1. /\ workflow' = Workflow("scale_in", on, ignore, option) /\ on \subseteq deployed
      /\ Build("first", Graph("uninstall", on, ignore), state, deployed)
      /\ modification' = [kind |-> "scale_in", on |-> on]
      /\ UNCHANGED <<state, inforce, history, deployed>>
  BY DEF BeginScaleIn, Begin, history
<1>2. PICK g : g = Graph("uninstall", on, ignore)
  OBVIOUS
<1>3. g.kind = "uninstall" /\ g.on = on
  BY <1>2 DEF Graph
<1>4. /\ CoreInv' /\ TriesInv' /\ WholeByGraphs' /\ GoneByGraphs'
      /\ graph' = g /\ phase' = "first" /\ seen' = state
  BY <1>1, <1>2, <1>3, BuildAgain DEF Kinds
<1>5. GraphInv'
  <2>1. ModificationInv'
    BY <1>1 DEF ModificationInv
  <2>2. Doing'
    BY <1>1, <1>3, <1>4 DEF Doing, Runs, Workflow
  <2> QED
    BY <1>1, <1>3, <1>4, <2>1, <2>2 DEF GraphInv, Idle, Kinds
<1> QED
  BY <1>4, <1>5 DEF LifecycleInv

LEMMA BeginAbortKeeps ==
    ASSUME LifecycleInv, NEW ignore, BeginAbort(ignore)
    PROVE  LifecycleInv'
<1>1. PICK on : on = IF modification.kind = "scale_out" THEN modification.on ELSE {}
  OBVIOUS
<1>2. /\ workflow' = Workflow("abort", modification.on, ignore, FALSE)
      /\ modification # NoModification
      /\ Build("first", Graph("uninstall", on, ignore), state, deployed)
      /\ UNCHANGED <<state, inforce, history, deployed, modification>>
  BY <1>1 DEF BeginAbort, Begin, history
<1>3. PICK g : g = Graph("uninstall", on, ignore)
  OBVIOUS
<1>4. g.kind = "uninstall" /\ g.on = on
  BY <1>3 DEF Graph
<1>5. ModificationInv /\ on \subseteq deployed
  BY <1>1 DEF LifecycleInv, GraphInv, ModificationInv
<1>6. /\ CoreInv' /\ TriesInv' /\ WholeByGraphs' /\ GoneByGraphs'
      /\ graph' = g /\ phase' = "first" /\ seen' = state
  BY <1>2, <1>3, <1>4, <1>5, BuildAgain DEF Kinds
<1>7. GraphInv'
  <2>1. ModificationInv' /\ modification'.kind # "none"
    BY <1>2, <1>5 DEF ModificationInv
  <2>2. Doing'
    BY <1>1, <1>2, <1>4, <1>6, <2>1 DEF Doing, Runs, Workflow
  <2> QED
    BY <1>2, <1>4, <1>5, <1>6, <2>1, <2>2 DEF GraphInv, Idle, Kinds
<1> QED
  BY <1>6, <1>7 DEF LifecycleInv

LEMMA BeginScaleOutKeeps ==
    ASSUME LifecycleInv, NEW on, on \subseteq Instances, NEW ignore, NEW option,
           BeginScaleOut(on, ignore, option)
    PROVE  LifecycleInv'
<1>1. /\ workflow' = Workflow("scale_out", on, ignore, option)
      /\ on \cap deployed = {} /\ \A i \in on : state[i] = "uninitialized"
      /\ modification' = [kind |-> "scale_out", on |-> on]
      /\ deployed' = deployed \cup on
      /\ Build("first", Graph("install", on, FALSE), state, deployed')
      /\ UNCHANGED <<state, inforce, abandoned, misled>>
      /\ unrecorded' = unrecorded \cup
             {l \in deployed \X on : /\ state[l[1]] = "started"
                                   /\ l[2] \in ToSet(Targets[l[1]])}
  BY DEF BeginScaleOut, Begin
<1>2. PICK g : g = Graph("install", on, FALSE)
  OBVIOUS
<1>3. g.kind = "install" /\ g.on = on /\ g.on \subseteq deployed' /\ g.kind \in Kinds
  BY <1>1, <1>2 DEF Graph, Kinds
<1>4. graph' = g /\ phase' = "first" /\ seen' = state /\ tries' = [i \in Instances |-> 0]
  BY <1>1, <1>2 DEF Build
<1>5. FactsInv /\ LeftInv /\ SoundInv
  BY DEF LifecycleInv, CoreInv
<1>6. FactsInv' /\ LeftInv' /\ Calm'
  BY <1>1, <1>4, <1>5, GrowKeeps
<1>7. state \in [Instances -> States]
  BY <1>5 DEF FactsInv
<1>8. PICK p : p = "first"
  OBVIOUS
<1>9. Build(p, g, state, deployed') /\ \A i \in g.on \ misled' : state[i] = state'[i]
  BY <1>1, <1>2, <1>8
<1>10. PlanInv' /\ SoundInv' /\ StubInv'
  BY <1>3, <1>6, <1>7, <1>9, BuildKeeps
<1>11. TriesInv'
  BY <1>4, NoTries DEF TriesInv
<1>12. WholeByGraphs' /\ GoneByGraphs'
  BY <1>4, <1>6, NotEnded
<1>13. GraphInv'
  <2>1. ModificationInv'
    BY <1>1 DEF ModificationInv
  <2>2. Doing'
    BY <1>1, <1>3, <1>4 DEF Doing, Runs, Workflow
  <2> QED
    BY <1>1, <1>3, <1>4, <2>1, <2>2 DEF GraphInv, Idle
<1> QED
  BY <1>6, <1>10, <1>11, <1>12, <1>13 DEF LifecycleInv, CoreInv

-----------------------------------------------------------------------------
(* Each action keeps it *)

\* Where something is still planned a graph runs.
LEMMA PlannedIsRunning ==
    ASSUME LifecycleInv, NEW i \in Instances, plan[i] # <<>>
    PROVE  /\ ~Idle /\ graph.kind \in Kinds /\ Doing /\ graph.on \subseteq deployed
           /\ ModificationInv
<1>1. GraphInv
  BY DEF LifecycleInv
<1>2. plan # NoPlan
  BY DEF NoPlan
<1> QED
  BY <1>1, <1>2 DEF GraphInv

\* A step of one plan leaves the graph to go on, and each outcome of a task
\* keeps the invariant.
LEMMA StepKeepsGraph ==
    ASSUME LifecycleInv, NEW i \in Instances, plan[i] # <<>>, NEW r,
           plan' = [plan EXCEPT ![i] = r],
           i \in graph.on => r = Tail(plan[i]) \/ Head(plan[i]).do # "set_state",
           UNCHANGED <<deployed, modification, workflow, phase, graph, seen>>
    PROVE  GraphInv' /\ ~Idle'
<1>1. /\ ~Idle /\ graph.kind \in Kinds /\ Doing /\ graph.on \subseteq deployed
      /\ ModificationInv /\ phase \in {"idle", "first", "second"}
  BY PlannedIsRunning DEF LifecycleInv, GraphInv
<1>2. DOMAIN plan = Instances /\ graph.on \subseteq Instances
  BY <1>1 DEF LifecycleInv, CoreInv, PlanInv, FactsInv
<1>3. ASSUME NEW j \in graph.on, \A k \in graph.on : SetsOnly(plan[k])
      PROVE  SetsOnly(plan'[j])
  <2>1. CASE j = i
    <3>1. SetsOnly(plan[i])
      BY <1>3, <2>1
    <3>2. PICK T : T = [do : {"set_state"}, what : States]
      OBVIOUS
    <3>3. plan[i] \in Seq(T)
      BY <3>1, <3>2 DEF SetsOnly
    <3>4. Head(plan[i]) \in T /\ Tail(plan[i]) \in Seq(T)
      BY <3>3
    <3>5. Head(plan[i]).do = "set_state"
      BY <3>2, <3>4
    <3>6. plan'[j] = Tail(plan[i])
      BY <1>2, <2>1, <3>5
    <3> QED
      BY <3>2, <3>4, <3>6 DEF SetsOnly
  <2>2. CASE j # i
    <3>1. plan'[j] = plan[j]
      BY <1>2, <2>2
    <3> QED
      BY <1>3, <3>1
  <2> QED
    BY <2>1, <2>2
<1>4. Doing'
  <2>1. /\ deployed' = deployed /\ modification' = modification
        /\ workflow' = workflow /\ phase' = phase /\ graph' = graph /\ seen' = seen
    OBVIOUS
  <2>2. CASE workflow.kind # "scale_out"
    <3>1. Doing
      BY <1>1
    <3> QED
      BY <2>1, <2>2, <3>1 DEF Doing, Runs
  <2>3. CASE workflow.kind = "scale_out"
    <3>1. /\ modification = [kind |-> "scale_out", on |-> workflow.on]
          /\ \A j \in graph.on : seen[j] = "uninitialized"
          /\ \/ Runs("install", workflow.on, "first")
             \/ /\ Runs("uninstall", workflow.on, "second")
                /\ \A j \in graph.on : SetsOnly(plan[j])
      BY <1>1, <2>3 DEF Doing
    <3>2. (\A j \in graph.on : SetsOnly(plan[j]))
             => \A j \in graph.on : SetsOnly(plan'[j])
      BY <1>3
    <3>3. /\ modification' = [kind |-> "scale_out", on |-> workflow'.on]
          /\ \A j \in graph'.on : seen'[j] = "uninitialized"
          /\ workflow'.kind = "scale_out"
      BY <2>1, <2>3, <3>1
    <3>4. CASE Runs("install", workflow.on, "first")
      BY <2>1, <3>3, <3>4 DEF Doing, Runs
    <3>5. CASE /\ Runs("uninstall", workflow.on, "second")
               /\ \A j \in graph.on : SetsOnly(plan[j])
      <4>1. \A j \in graph'.on : SetsOnly(plan'[j])
        BY <2>1, <3>2, <3>5
      <4> QED
        BY <2>1, <3>3, <3>5, <4>1 DEF Doing, Runs, SetsOnly
    <3> QED
      BY <3>1, <3>4, <3>5
  <2> QED
    BY <2>2, <2>3
<1>5. ModificationInv' /\ ~Idle'
  BY <1>1 DEF ModificationInv, Idle
<1> QED
  BY <1>1, <1>4, <1>5 DEF GraphInv, Idle

LEMMA SuccessKeeps ==
    ASSUME LifecycleInv, NEW i \in Instances, TaskSucceeds(i)
    PROVE  LifecycleInv'
<1>1. /\ plan[i] # <<>> /\ plan' = [plan EXCEPT ![i] = Tail(plan[i])]
      /\ UNCHANGED <<deployed, modification, workflow, phase, graph, seen>>
      /\ tries' = tries
  BY DEF TaskSucceeds, Enabled, Advance
<1>2. graph.on \subseteq deployed /\ FactsInv /\ LeftInv /\ PlanInv /\ SoundInv /\ StubInv
  BY <1>1, PlannedIsRunning DEF LifecycleInv, CoreInv
<1>3. CoreInv'
  BY <1>2, TaskSucceedsKeeps DEF CoreInv
<1>4. GraphInv' /\ ~Idle'
  BY <1>1, StepKeepsGraph
<1>5. WholeByGraphs' /\ GoneByGraphs'
  BY <1>3, <1>4, NotEnded DEF CoreInv, Idle
<1>6. TriesInv'
  BY <1>1 DEF LifecycleInv, TriesInv
<1> QED
  BY <1>3, <1>4, <1>5, <1>6 DEF LifecycleInv

LEMMA IgnoredKeeps ==
    ASSUME LifecycleInv, NEW i \in Instances, NEW effect \in BOOLEAN,
           TaskIsIgnored(i, effect)
    PROVE  LifecycleInv'
<1>1. /\ plan[i] # <<>> /\ plan' = [plan EXCEPT ![i] = Tail(plan[i])]
      /\ UNCHANGED <<deployed, modification, workflow, phase, graph, seen>>
      /\ tries' = tries
  BY DEF TaskIsIgnored, InFlight, Enabled, Advance
<1>2. graph.on \subseteq deployed /\ FactsInv /\ LeftInv /\ PlanInv /\ SoundInv /\ StubInv
  BY <1>1, PlannedIsRunning DEF LifecycleInv, CoreInv
<1>3. CoreInv'
  BY <1>2, TaskIsIgnoredKeeps DEF CoreInv
<1>4. GraphInv' /\ ~Idle'
  BY <1>1, StepKeepsGraph
<1>5. WholeByGraphs' /\ GoneByGraphs'
  BY <1>3, <1>4, NotEnded DEF CoreInv, Idle
<1>6. TriesInv'
  BY <1>1 DEF LifecycleInv, TriesInv
<1> QED
  BY <1>3, <1>4, <1>5, <1>6 DEF LifecycleInv

LEMMA RetriedKeeps ==
    ASSUME LifecycleInv, NEW i \in Instances, NEW effect \in BOOLEAN,
           SubgraphRetried(i, effect)
    PROVE  LifecycleInv'
<1>1. /\ plan[i] # <<>> /\ plan' = [plan EXCEPT ![i] = Rebuilt(i, seen[i])]
      /\ UNCHANGED <<deployed, modification, workflow, phase, graph, seen>>
      /\ tries' = [tries EXCEPT ![i] = @ + 1] /\ tries[i] < SubgraphRetries
      /\ Head(plan[i]).do # "set_state"
  BY DEF SubgraphRetried, InFlight, Enabled, HasRetry
<1>2. /\ graph.on \subseteq deployed /\ FactsInv /\ LeftInv /\ PlanInv /\ SoundInv
      /\ StubInv /\ graph.kind \in Kinds
  BY <1>1, PlannedIsRunning DEF LifecycleInv, CoreInv
<1>3. CoreInv'
  BY <1>2, SubgraphRetriedKeeps DEF CoreInv
<1>4. GraphInv' /\ ~Idle'
  <2> PICK r : r = Rebuilt(i, seen[i])
    OBVIOUS
  <2>1. plan' = [plan EXCEPT ![i] = r]
    BY <1>1
  <2> QED
    BY <1>1, <2>1, StepKeepsGraph
<1>5. WholeByGraphs' /\ GoneByGraphs'
  BY <1>3, <1>4, NotEnded DEF CoreInv, Idle
<1>6. TriesInv'
  <2>1. SubgraphRetries \in Nat
    BY DeploymentAssumption
  <2>2. tries \in [Instances -> 0 .. SubgraphRetries]
    BY DEF LifecycleInv, TriesInv
  <2>3. tries[i] + 1 \in 0 .. SubgraphRetries
    BY <1>1, <2>1, <2>2
  <2> QED
    BY <1>1, <2>2, <2>3 DEF TriesInv
<1> QED
  BY <1>3, <1>4, <1>5, <1>6 DEF LifecycleInv

\* The workflow ends, and the modification with it or not.
LEMMA EndIs ==
    ASSUME NEW done, End(done), ModificationInv,
           \/ modification' = NoModification
           \/ modification' = modification /\ deployed' = deployed
    PROVE  /\ GraphInv' /\ TriesInv' /\ Idle' /\ seen' = state
           /\ last' = [workflow |-> workflow, done |-> done]
<1>1. /\ last' = [workflow |-> workflow, done |-> done] /\ workflow' = NoWorkflow
      /\ phase' = "idle" /\ graph' = NoGraph /\ plan' = NoPlan /\ seen' = state
      /\ tries' = [i \in Instances |-> 0]
  BY DEF End
<1>2. TriesInv'
  BY <1>1, NoTries DEF TriesInv
<1>3. ModificationInv'
  BY DEF ModificationInv, NoModification
<1>4. GraphInv'
  BY <1>1, <1>3 DEF GraphInv, Idle, NoGraph
<1> QED
  BY <1>1, <1>2, <1>4 DEF Idle

\* The workflow fails, is cancelled or dies.
LEMMA EndFailed ==
    ASSUME LifecycleInv, NEW done, End(done), ~done,
           \/ modification' = NoModification
           \/ modification' = modification /\ deployed' = deployed,
           SomeLand, misled \subseteq misled', Recorded({}),
           abandoned \cap inforce' \subseteq abandoned', state' = state,
           deployed' \subseteq deployed, \A i \in deployed \ deployed' : i \in misled'
    PROVE  LifecycleInv'
<1>1. ModificationInv /\ graph.on \subseteq deployed /\ FactsInv /\ LeftInv
      /\ PlanInv /\ SoundInv
  BY DEF LifecycleInv, CoreInv, GraphInv
<1>2. GraphInv' /\ TriesInv' /\ seen' = state
      /\ last' = [workflow |-> workflow, done |-> done]
  BY <1>1, EndIs
<1>3. seen' \in [Instances -> States]
  BY <1>1, <1>2 DEF FactsInv
<1>4. FactsInv' /\ LeftInv' /\ Calm'
  BY <1>1, <1>3, LandingKeeps
<1>5. PlanInv' /\ SoundInv' /\ StubInv'
  BY <1>4, EndKeeps
<1>6. ~last'.done
  BY <1>2
<1>7. WholeByGraphs' /\ GoneByGraphs'
  BY <1>4, <1>6, NotEnded
<1> QED
  BY <1>2, <1>4, <1>5, <1>7 DEF LifecycleInv, CoreInv

\* Where nothing changes nothing lands, and no link is changed.
LEMMA NothingLands ==
    ASSUME inforce' = inforce, unrecorded' = unrecorded
    PROVE  SomeLand /\ Recorded({})
<1>1. inforce' = Landed(inforce, {})
  BY AfterIsLanded
<1>2. SomeLand
  BY <1>1 DEF SomeLand
<1>3. Recorded({})
  BY DEF Recorded
<1> QED
  BY <1>2, <1>3

\* The operation that failed may land.
LEMMA FailedLands ==
    ASSUME NEW i \in Instances, NEW effect, InFlight(i), Failed(i, effect)
    PROVE  SomeLand
<1>1. inforce' = Landed(inforce, {}) \/ inforce' = Landed(inforce, {i})
  BY AfterIsLanded DEF Failed
<1>2. {} \in SUBSET {j \in Instances : InFlight(j)}
      /\ {i} \in SUBSET {j \in Instances : InFlight(j)}
  OBVIOUS
<1> QED
  BY <1>1, <1>2 DEF SomeLand

LEMMA CrashKeeps ==
    ASSUME LifecycleInv, Crash
    PROVE  LifecycleInv'
<1>1. PICK done : done = FALSE
  OBVIOUS
<1>2. /\ End(done) /\ SomeLand /\ Recorded({})
      /\ abandoned \cap inforce' \subseteq abandoned'
      /\ UNCHANGED <<state, deployed, modification, misled>>
  <2>1. inforce' = inforce /\ unrecorded' = unrecorded
    BY DEF Crash, history
  <2> QED
    BY <1>1, <2>1, NothingLands DEF Crash, history
<1> QED
  BY <1>1, <1>2, EndFailed

LEMMA CancelKeeps ==
    ASSUME LifecycleInv, Cancel
    PROVE  LifecycleInv'
<1>1. /\ ~Idle /\ SomeLand /\ Recorded({})
      /\ abandoned \cap inforce' \subseteq abandoned' /\ state' = state
      /\ misled' = IF RollsBack /\ workflow.kind = "scale_out"
                   THEN misled \cup workflow.on ELSE misled
      /\ IF RollsBack THEN EndModification(RolledBack(modification), FALSE)
         ELSE End(FALSE) /\ UNCHANGED <<deployed, modification>>
  <2>1. inforce' = inforce /\ unrecorded' = unrecorded
    BY DEF Cancel
  <2> QED
    BY <2>1, NothingLands DEF Cancel
<1>2. misled \subseteq misled'
  BY <1>1
<1>3. CASE ~RollsBack
  <2>1. PICK done : done = FALSE
    OBVIOUS
  <2>2. End(done) /\ UNCHANGED <<deployed, modification>>
    BY <1>1, <1>3, <2>1
  <2> QED
    BY <1>1, <1>2, <2>1, <2>2, EndFailed
<1>4. CASE RollsBack
  <2>1. PICK done : done = (FALSE /\ modification' = NoModification)
    OBVIOUS
  <2>2. /\ End(done) /\ ~done
        /\ \/ deployed' = RolledBack(modification) /\ modification' = NoModification
           \/ UNCHANGED <<deployed, modification>>
    BY <1>1, <1>4, <2>1 DEF EndModification
  <2>3. Doing
    BY <1>1 DEF LifecycleInv, GraphInv
  <2>4. workflow.kind = "scale_out" =>
           modification = [kind |-> "scale_out", on |-> workflow.on]
    BY <2>3 DEF Doing
  <2>5. workflow.kind # "scale_out" =>
           modification = [kind |-> "scale_in", on |-> workflow.on]
    BY <1>4, <2>3 DEF Doing, RollsBack
  <2>6. deployed' \subseteq deployed /\ \A i \in deployed \ deployed' : i \in misled'
    BY <1>1, <1>4, <2>2, <2>4, <2>5 DEF RolledBack
  <2> QED
    BY <1>1, <1>2, <2>2, <2>6, EndFailed
<1> QED
  BY <1>3, <1>4

\* An instance that was not there when its state was read is only given states.
LEMMA NewInstanceIsSet ==
    ASSUME NEW i, NEW tt
    PROVE  SetsOnly(SubgraphOf(i, "uninstall", "uninitialized", tt))
<1>1. PICK T : T = [do : {"set_state"}, what : States]
  OBVIOUS
<1>2. PICK x, y : x = SetState("stopped") /\ y = SetState("deleted")
  OBVIOUS
<1>3. x \in Seq(T) /\ y \in Seq(T)
  <2>1. [do |-> "set_state", what |-> "stopped"] \in T
        /\ [do |-> "set_state", what |-> "deleted"] \in T
    BY <1>1 DEF States
  <2> QED
    BY <1>2, <2>1 DEF SetState
<1>4. SubgraphOf(i, "uninstall", "uninitialized", tt)
         = Uninstall(i, "uninitialized", tt)
  BY DEF SubgraphOf
<1>5. Uninstall(i, "uninitialized", tt) = ((<<>> \o x) \o <<>>) \o y
  BY <1>2 DEF Uninstall, NotStarted, StoppedBefore, NotThere
<1>6. ((<<>> \o x) \o <<>>) \o y \in Seq(T)
  BY <1>3
<1> QED
  BY <1>1, <1>4, <1>5, <1>6 DEF SetsOnly

\* A scaling out that scales back in does not fail again.
LEMMA FailsIs ==
    ASSUME LifecycleInv, NEW i \in Instances, InFlight(i), ~Ignored(i),
           workflow.kind = "scale_out"
    PROVE  /\ phase = "first" /\ Runs("install", workflow.on, "first")
           /\ modification = [kind |-> "scale_out", on |-> workflow.on]
           /\ \A j \in graph.on : seen[j] = "uninitialized"
<1>1. plan[i] # <<>> /\ Head(plan[i]).do # "set_state"
  BY DEF InFlight, Enabled
<1>2. Doing
  BY <1>1, PlannedIsRunning
<1>3. /\ modification = [kind |-> "scale_out", on |-> workflow.on]
      /\ \A j \in graph.on : seen[j] = "uninitialized"
      /\ \/ Runs("install", workflow.on, "first")
         \/ /\ Runs("uninstall", workflow.on, "second")
            /\ \A j \in graph.on : SetsOnly(plan[j])
  BY <1>2 DEF Doing
<1>4. ASSUME Runs("uninstall", workflow.on, "second"),
             \A j \in graph.on : SetsOnly(plan[j])
      PROVE  FALSE
  <2>1. i \in graph.on
    BY <1>4 DEF Runs, Ignored, InStub
  <2>2. PICK T : T = [do : {"set_state"}, what : States]
    OBVIOUS
  <2>3. plan[i] \in Seq(T)
    BY <1>4, <2>1, <2>2 DEF SetsOnly
  <2>4. Head(plan[i]) \in T
    BY <1>1, <2>3
  <2> QED
    BY <1>1, <2>2, <2>4
<1> QED
  BY <1>3, <1>4 DEF Runs

\* A scaling out that fails and scales back, and any other failure.
LEMMA ScaleBackKeeps ==
    ASSUME LifecycleInv, NEW i \in Instances, NEW effect, TaskFailsGraph(i, effect),
           RollsBack, workflow.kind = "scale_out"
    PROVE  LifecycleInv'
<1>1. /\ InFlight(i) /\ ~Ignored(i) /\ SomeLand /\ GraphFails
      /\ Recorded({}) /\ abandoned' = abandoned \cap inforce' /\ state' = state
  BY FailedLands DEF TaskFailsGraph
<1>2. /\ phase = "first" /\ Runs("install", workflow.on, "first")
      /\ modification = [kind |-> "scale_out", on |-> workflow.on]
      /\ \A j \in graph.on : seen[j] = "uninitialized"
  BY <1>1, FailsIs
<1>3. PICK g : g = Graph("uninstall", workflow.on, workflow.ignore)
  OBVIOUS
<1>4. /\ Build("second", g, seen, deployed)
      /\ misled' = misled \cup {j \in workflow.on : Lacks(j)}
      /\ UNCHANGED <<deployed, modification, workflow, last>>
  BY <1>1, <1>2, <1>3 DEF GraphFails
<1>5. /\ graph' = g /\ phase' = "second" /\ seen' = seen
      /\ tries' = [j \in Instances |-> 0]
  BY <1>4 DEF Build
<1>6. /\ ModificationInv /\ graph.on \subseteq deployed /\ FactsInv /\ LeftInv
      /\ PlanInv /\ SoundInv /\ seen \in [Instances -> States]
  BY DEF LifecycleInv, CoreInv, GraphInv, FactsInv
<1>7. FactsInv' /\ LeftInv' /\ Calm'
  BY <1>1, <1>4, <1>5, <1>6, LandingKeeps
<1>8. g.kind = "uninstall" /\ g.on = workflow.on /\ g.kind \in Kinds
      /\ g.on = graph.on /\ g.on \subseteq deployed'
  BY <1>2, <1>3, <1>4, <1>6 DEF Graph, Kinds, Runs
<1>9. ASSUME NEW j \in g.on \ misled'
      PROVE  ToSet(Uninstall(j, state'[j], Rels(j)'))
                \subseteq ToSet(Uninstall(j, seen[j], Rels(j)'))
  <2>1. ~Lacks(j)
    BY <1>4, <1>8, <1>9
  <2>2. Rels(j)' = Rels(j)
    BY <1>4 DEF Rels
  <2> QED
    BY <1>1, <2>1, <2>2 DEF Lacks
<1>10. PICK p : p = "second"
  OBVIOUS
<1>11. Build(p, g, seen, deployed')
  BY <1>4, <1>10
<1>12. PlanInv' /\ SoundInv' /\ StubInv'
  BY <1>6, <1>7, <1>8, <1>9, <1>11, BuildKeeps
<1>13. ASSUME NEW j \in g.on
       PROVE  SetsOnly(plan'[j])
  <2>1. j \in Instances /\ j \in deployed' /\ seen[j] = "uninitialized"
    BY <1>2, <1>4, <1>6, <1>8, <1>13 DEF FactsInv
  <2>2. plan'[j] = SubgraphOf(j, g.kind, seen[j], Rels(j)')
    BY <1>11, <1>13, <2>1, BuiltPlans
  <2>3. plan'[j] = SubgraphOf(j, "uninstall", "uninitialized", Rels(j)')
    BY <1>8, <2>1, <2>2
  <2> QED
    BY <2>3, NewInstanceIsSet
<1>14. Doing'
  <2>1. /\ workflow'.kind = "scale_out"
        /\ modification' = [kind |-> "scale_out", on |-> workflow'.on]
        /\ \A j \in graph'.on : seen'[j] = "uninitialized" /\ SetsOnly(plan'[j])
        /\ graph'.kind = "uninstall" /\ graph'.on = workflow'.on /\ phase' = "second"
    BY <1>2, <1>4, <1>5, <1>8, <1>13
  <2> QED
    BY <2>1 DEF Doing, Runs, SetsOnly
<1>15. GraphInv'
  <2>1. ModificationInv' /\ ~Idle'
    BY <1>4, <1>5, <1>6 DEF ModificationInv, Idle
  <2> QED
    BY <1>5, <1>8, <1>14, <2>1 DEF GraphInv
<1>16. TriesInv'
  BY <1>5, NoTries DEF TriesInv
<1>17. WholeByGraphs' /\ GoneByGraphs'
  BY <1>5, <1>7, NotEnded
<1> QED
  BY <1>7, <1>12, <1>15, <1>16, <1>17 DEF LifecycleInv, CoreInv

LEMMA FailsKeeps ==
    ASSUME LifecycleInv, NEW i \in Instances, NEW effect, TaskFailsGraph(i, effect)
    PROVE  LifecycleInv'
<1>1. /\ InFlight(i) /\ ~Ignored(i) /\ SomeLand /\ GraphFails
      /\ Recorded({}) /\ abandoned' = abandoned \cap inforce' /\ state' = state
  BY FailedLands DEF TaskFailsGraph
<1>2. CASE RollsBack /\ workflow.kind = "scale_out"
  BY <1>2, ScaleBackKeeps
<1>3. CASE ~RollsBack
  <2>1. PICK done : done = FALSE
    OBVIOUS
  <2>2. End(done) /\ UNCHANGED <<misled, deployed, modification>>
    BY <1>1, <1>3, <2>1 DEF GraphFails
  <2> QED
    BY <1>1, <2>1, <2>2, EndFailed
<1>4. CASE RollsBack /\ workflow.kind # "scale_out"
  <2>1. PICK done : done = (FALSE /\ modification' = NoModification)
    OBVIOUS
  <2>2. /\ End(done) /\ ~done /\ misled' = misled
        /\ \/ deployed' = RolledBack(modification) /\ modification' = NoModification
           \/ UNCHANGED <<deployed, modification>>
    BY <1>1, <1>4, <2>1 DEF GraphFails, EndModification
  <2>3. Doing
    BY <1>1, PlannedIsRunning DEF InFlight, Enabled
  <2>4. modification = [kind |-> "scale_in", on |-> workflow.on]
    BY <1>4, <2>3 DEF Doing, RollsBack
  <2>5. deployed' = deployed
    BY <2>2, <2>4 DEF RolledBack
  <2> QED
    BY <1>1, <2>2, <2>5, EndFailed
<1> QED
  BY <1>2, <1>3, <1>4

-----------------------------------------------------------------------------
(* Every step keeps it *)

\* The second graph of a workflow is built after the first.
LEMMA SecondKeeps ==
    ASSUME LifecycleInv, GraphEnds, phase = "first", HasSecond
    PROVE  LifecycleInv'
<1>1. /\ ~Idle /\ SecondGraph /\ UNCHANGED <<state, inforce, history>>
  BY DEF GraphEnds
<1>2. PICK g : g = IF workflow.kind = "heal"
                     THEN Graph("install", workflow.on, FALSE)
                     ELSE Graph("uninstall", deployed, FALSE)
  OBVIOUS
<1>3. /\ Build("second", g, state, deployed)
      /\ UNCHANGED <<deployed, modification, workflow, last>>
  BY <1>1, <1>2 DEF SecondGraph
<1>4. Doing /\ graph.on \subseteq deployed /\ ModificationInv
  BY <1>1 DEF LifecycleInv, GraphInv
<1>5. \/ workflow.kind = "heal" /\ g.kind = "install" /\ g.on = workflow.on
         /\ workflow.on \subseteq deployed
      \/ workflow.kind = "rollback" /\ workflow.option
         /\ g.kind = "uninstall" /\ g.on = deployed
  <2>1. CASE workflow.kind = "heal"
    <3>1. g.kind = "install" /\ g.on = workflow.on
      BY <1>2, <2>1 DEF Graph
    <3>2. workflow.on = graph.on
      BY <1>4, <2>1 DEF Doing, Runs
    <3> QED
      BY <1>4, <2>1, <3>1, <3>2
  <2>2. CASE workflow.kind # "heal"
    <3>1. g.kind = "uninstall" /\ g.on = deployed
      BY <1>2, <2>2 DEF Graph
    <3> QED
      BY <2>2, <3>1 DEF HasSecond
  <2> QED
    BY <2>1, <2>2
<1>6. g.kind \in Kinds /\ g.on \subseteq deployed
  BY <1>5 DEF Kinds
<1>7. PICK p : p = "second"
  OBVIOUS
<1>8. /\ CoreInv' /\ TriesInv' /\ WholeByGraphs' /\ GoneByGraphs'
      /\ graph' = g /\ phase' = p /\ seen' = state
  <2>1. Build(p, g, state, deployed) /\ p \in {"first", "second"}
        /\ UNCHANGED <<state, inforce, history, deployed>>
    BY <1>1, <1>3, <1>7
  <2> QED
    BY <1>6, <2>1, BuildAgain
<1>9. GraphInv'
  <2>1. ModificationInv' /\ ~Idle'
    BY <1>3, <1>4, <1>7, <1>8 DEF ModificationInv, Idle
  <2>2. Doing'
    BY <1>3, <1>5, <1>7, <1>8 DEF Doing, Runs
  <2> QED
    BY <1>3, <1>6, <1>7, <1>8, <2>1, <2>2 DEF GraphInv
<1> QED
  BY <1>8, <1>9 DEF LifecycleInv

\* The last graph of a workflow has done what the workflow is for.
LEMMA EndOver ==
    ASSUME LifecycleInv, ~Idle, plan = NoPlan, UNCHANGED <<state, inforce, history>>,
           NEW done, End(done),
           \/ modification' = NoModification
           \/ modification' = modification /\ deployed' = deployed,
           \/ deployed' = deployed
           \/ graph.kind = "uninstall" /\ deployed' = deployed \ graph.on,
           (done /\ workflow.kind \in {"install", "heal", "scale_out"})
             => /\ graph.kind = "install" /\ graph.on = workflow.on
                /\ deployed' = deployed,
           (done /\ workflow.kind \in {"uninstall", "rollback"}
              /\ (workflow.kind = "rollback" => workflow.option))
             => /\ graph.kind = "uninstall" /\ graph.on = deployed
                /\ deployed' = deployed
    PROVE  LifecycleInv'
<1>1. ModificationInv /\ graph.on \subseteq deployed /\ FactsInv /\ LeftInv
      /\ PlanInv /\ SoundInv /\ StubInv
  BY DEF LifecycleInv, CoreInv, GraphInv
<1>2. GraphInv' /\ TriesInv' /\ Idle' /\ seen' = state
      /\ last' = [workflow |-> workflow, done |-> done]
  BY <1>1, EndIs
<1>3. seen' \in [Instances -> States]
  BY <1>1, <1>2 DEF FactsInv
<1>4. \A f \in inforce :
        (\/ f[1] \in deployed \ deployed' \/ f[2] \in deployed \ deployed')
                 => Excused(f)
  BY <1>1, UndoneIsExcused
<1>5. deployed' \subseteq deployed
  OBVIOUS
<1>6. FactsInv' /\ LeftInv' /\ Calm'
  BY <1>1, <1>3, <1>4, <1>5, ShrinkKeeps
<1>7. PlanInv' /\ SoundInv' /\ StubInv'
  BY <1>6, EndKeeps
<1>8. misled' = misled /\ unrecorded' = unrecorded /\ inforce' = inforce /\ state' = state
  BY DEF history
<1>9. WholeByGraphs'
  <2> SUFFICES ASSUME done, workflow.kind \in {"install", "heal", "scale_out"}
               PROVE  WholeByGraphs'
    BY <1>2 DEF WholeByGraphs, Ended
  <2>1. graph.kind = "install" /\ graph.on = workflow.on /\ deployed' = deployed
    OBVIOUS
  <2>2. /\ \A i \in graph.on \ misled :
                 /\ state[i] = "started"
                 /\ {i} \X Real[i] \subseteq inforce
                 /\ {i} \X ToSet(Rels(i)) \subseteq inforce \cup unrecorded
        /\ \A j \in deployed, i \in graph.on :
                 (j \notin graph.on /\ i \in ToSet(Rels(j))) => <<j, i>> \in inforce
    BY <1>1, <2>1, DoneIsWhole
  <2>3. \A i : Rels(i)' = Rels(i)
    BY <2>1 DEF Rels
  <2>4. last'.workflow.on = graph.on
    BY <1>2, <2>1
  <2> QED
    BY <1>8, <2>1, <2>2, <2>3, <2>4 DEF WholeByGraphs
<1>10. GoneByGraphs'
  <2>0. EndedUndone' => /\ done /\ workflow.kind \in {"uninstall", "rollback"}
                        /\ workflow.kind = "rollback" => workflow.option
    BY <1>2 DEF EndedUndone, Ended
  <2>3. ASSUME EndedUndone', NEW i \in deployed' \ misled'
        PROVE  state'[i] = "deleted"
    <3>1. graph.kind = "uninstall" /\ graph.on = deployed /\ deployed' = deployed
      BY <2>0, <2>3
    <3>2. i \in graph.on \ misled
      BY <1>8, <2>3, <3>1
    <3> QED
      BY <1>1, <1>8, <3>1, <3>2, UndoneIsDeleted
  <2> SUFFICES ASSUME NEW f \in inforce',
                      \/ f[1] \notin deployed' \/ f[2] \in Instances \ deployed'
                      \/ /\ done /\ workflow.kind \in {"uninstall", "rollback"}
                         /\ workflow.kind = "rollback" => workflow.option
               PROVE  Excused(f)'
    BY <2>0, <2>3 DEF GoneByGraphs
  <2>1. CASE f[1] \notin deployed' \/ f[2] \in Instances \ deployed'
    BY <1>6, <2>1 DEF LeftInv
  <2>2. CASE ~(f[1] \notin deployed' \/ f[2] \in Instances \ deployed')
    <3>1. graph.kind = "uninstall" /\ graph.on = deployed /\ deployed' = deployed
      BY <2>2
    <3>2. f \in inforce /\ f[1] \in graph.on
      BY <1>8, <2>2, <3>1
    <3>3. Excused(f)
      BY <1>1, <3>1, <3>2, UndoneIsExcused
    <3> QED
      BY <3>3, ExcusedSame
  <2> QED
    BY <2>1, <2>2
<1> QED
  BY <1>2, <1>6, <1>7, <1>9, <1>10 DEF LifecycleInv, CoreInv

\* The end of a graph, the initial states and every step.
LEMMA GraphEndsKeeps ==
    ASSUME LifecycleInv, GraphEnds
    PROVE  LifecycleInv'
<1>1. /\ ~Idle /\ plan = NoPlan /\ UNCHANGED <<state, inforce, history>>
  BY DEF GraphEnds
<1>2. Doing /\ phase \in {"first", "second"}
  BY <1>1 DEF LifecycleInv, GraphInv, Idle
<1>3. CASE phase = "first" /\ HasSecond
  BY <1>3, SecondKeeps
<1>4. CASE ~(phase = "first" /\ HasSecond) /\ workflow.kind = "scale_in"
  <2>1. EndModification(Finished(modification), TRUE)
    BY <1>4 DEF GraphEnds
  <2>2. PICK done : done = (TRUE /\ modification' = NoModification)
    OBVIOUS
  <2>3. /\ End(done)
        /\ \/ deployed' = Finished(modification) /\ modification' = NoModification
           \/ UNCHANGED <<deployed, modification>>
    BY <2>1, <2>2 DEF EndModification
  <2>4. modification = [kind |-> "scale_in", on |-> workflow.on]
        /\ graph.kind = "uninstall" /\ graph.on = workflow.on
    BY <1>2, <1>4 DEF Doing, Runs
  <2>5. Finished(modification) = deployed \ graph.on
    BY <2>4 DEF Finished
  <2> QED
    BY <1>1, <1>4, <2>3, <2>4, <2>5, EndOver
<1>5. CASE workflow.kind = "scale_out" /\ phase = "first"
  <2>1. EndModification(Finished(modification), TRUE)
    BY <1>5 DEF GraphEnds, HasSecond
  <2>2. PICK done : done = (TRUE /\ modification' = NoModification)
    OBVIOUS
  <2>3. /\ End(done)
        /\ \/ deployed' = Finished(modification) /\ modification' = NoModification
           \/ UNCHANGED <<deployed, modification>>
    BY <2>1, <2>2 DEF EndModification
  <2>4. modification = [kind |-> "scale_out", on |-> workflow.on]
        /\ graph.kind = "install" /\ graph.on = workflow.on
    BY <1>2, <1>5 DEF Doing, Runs
  <2>5. Finished(modification) = deployed
    BY <2>4 DEF Finished
  <2> QED
    BY <1>1, <1>5, <2>3, <2>4, <2>5, EndOver
<1>6. CASE workflow.kind = "scale_out" /\ phase = "second"
  <2>1. EndModification(RolledBack(modification), FALSE)
    BY <1>6 DEF GraphEnds, HasSecond
  <2>2. PICK done : done = (FALSE /\ modification' = NoModification)
    OBVIOUS
  <2>3. /\ End(done) /\ ~done
        /\ \/ deployed' = RolledBack(modification) /\ modification' = NoModification
           \/ UNCHANGED <<deployed, modification>>
    BY <2>1, <2>2 DEF EndModification
  <2>4. modification = [kind |-> "scale_out", on |-> workflow.on]
        /\ graph.kind = "uninstall" /\ graph.on = workflow.on
    BY <1>2, <1>6 DEF Doing, Runs
  <2>5. RolledBack(modification) = deployed \ graph.on
    BY <2>4 DEF RolledBack
  <2> QED
    BY <1>1, <2>3, <2>4, <2>5, EndOver
<1>7. CASE ~(phase = "first" /\ HasSecond) /\ workflow.kind = "abort"
  <2>1. EndModification(RolledBack(modification), TRUE)
    BY <1>7 DEF GraphEnds
  <2>2. PICK done : done = (TRUE /\ modification' = NoModification)
    OBVIOUS
  <2>3. /\ End(done)
        /\ \/ deployed' = RolledBack(modification) /\ modification' = NoModification
           \/ UNCHANGED <<deployed, modification>>
    BY <2>1, <2>2 DEF EndModification
  <2>4. graph.kind = "uninstall" /\ graph.on = IF modification.kind = "scale_out"
                              THEN modification.on ELSE {}
    BY <1>2, <1>7 DEF Doing, Runs
  <2>5. RolledBack(modification) = deployed \ graph.on
    BY <2>4 DEF RolledBack
  <2> QED
    BY <1>1, <1>7, <2>3, <2>4, <2>5, EndOver
<1>8. CASE /\ ~(phase = "first" /\ HasSecond)
           /\ workflow.kind \notin {"scale_in", "scale_out", "abort"}
  <2>1. PICK done : done = TRUE
    OBVIOUS
  <2>2. End(done) /\ UNCHANGED <<deployed, modification>>
    BY <1>8, <2>1 DEF GraphEnds
  <2>3. workflow.kind \in {"install", "heal"} =>
           graph.kind = "install" /\ graph.on = workflow.on
    BY <1>2, <1>8 DEF Doing, Runs, HasSecond
  <2>4. (workflow.kind \in {"uninstall", "rollback"}
              /\ (workflow.kind = "rollback" => workflow.option)) =>
           graph.kind = "uninstall" /\ graph.on = deployed
    BY <1>2, <1>8 DEF Doing, Runs, HasSecond
  <2> QED
    BY <1>1, <1>8, <2>2, <2>3, <2>4, EndOver
<1> QED
  BY <1>2, <1>3, <1>4, <1>5, <1>6, <1>7, <1>8 DEF HasSecond

LEMMA LifecycleInit ==
    ASSUME Init
    PROVE  LifecycleInv
<1>1. PICK s \in {"unset", "uninitialized"} : state = [i \in Instances |-> s]
  BY DEF Init
<1>2. /\ inforce = {} /\ deployed = Deployed /\ modification = NoModification
      /\ workflow = NoWorkflow /\ phase = "idle" /\ graph = NoGraph /\ seen = state
      /\ plan = NoPlan /\ tries = [i \in Instances |-> 0]
      /\ last = [workflow |-> NoWorkflow, done |-> FALSE]
      /\ abandoned = {} /\ misled = {} /\ unrecorded = {}
  BY DEF Init
<1>3. s \in States /\ Deployed \subseteq Instances
  BY DeploymentAssumption DEF States
<1>4. FactsInv /\ LeftInv
  BY <1>1, <1>2, <1>3 DEF FactsInv, LeftInv
<1>5. PlanInv /\ StubInv /\ graph.on = {}
  BY <1>2 DEF PlanInv, StubInv, NoGraph, NoPlan
<1>6. SoundInv
  <2> SUFFICES ASSUME NEW i \in deployed
               PROVE  Holds(i, RelSet(i), Now(i))
    BY <1>5 DEF SoundInv
  <2>1. Now(i).st = s /\ Now(i).may = {}
    BY <1>1, <1>2, <1>3 DEF Now
  <2>2. Claims(i, RelSet(i), s) = {}
    BY DEF Claims, CreatedBefore, ConfiguredBefore
  <2> QED
    BY <2>1, <2>2 DEF Holds
<1>7. GraphInv
  BY <1>2, <1>5 DEF GraphInv, ModificationInv, NoModification, Idle
<1>8. TriesInv
  BY <1>2, NoTries DEF TriesInv
<1>9. WholeByGraphs /\ GoneByGraphs
  BY <1>2 DEF WholeByGraphs, GoneByGraphs, EndedUndone, Ended
<1> QED
  BY <1>4, <1>5, <1>6, <1>7, <1>8, <1>9 DEF LifecycleInv, CoreInv

\* Nothing that the invariant is about changes.
LEMMA SameKeeps ==
    ASSUME LifecycleInv,
           UNCHANGED <<state, inforce, deployed, modification, workflow, phase, graph,
                       seen, plan, tries, last, abandoned, misled, unrecorded>>
    PROVE  LifecycleInv'
<1>1. FactsInv' /\ LeftInv' /\ PlanInv' /\ SoundInv' /\ StubInv'
  BY DEF LifecycleInv, CoreInv, FactsInv, LeftInv, PlanInv, SoundInv,
         StubInv, Excused, Now, RelSet, Rels
<1>2. GraphInv' /\ TriesInv'
  BY DEF LifecycleInv, GraphInv, TriesInv, ModificationInv, Doing, Runs, Idle, SetsOnly
<1>3. WholeByGraphs' /\ GoneByGraphs'
  BY DEF LifecycleInv, WholeByGraphs, GoneByGraphs, EndedUndone, Ended, Idle, Rels,
         Excused
<1> QED
  BY <1>1, <1>2, <1>3 DEF LifecycleInv, CoreInv

\* What can be in force of an instance.
LEMMA OfInstance ==
    ASSUME NEW i \in Instances
    PROVE  Real[i] \cup ToSet(Targets[i]) \subseteq Whats
<1>1. Real[i] \subseteq Made /\ Targets[i] \in Seq(Instances)
  BY MadeAreNotInstances
<1>2. ToSet(Targets[i]) \subseteq Instances
  BY <1>1, ToSetSeq
<1> QED
  BY <1>1, <1>2 DEF Whats

\* A stray that a later workflow would undo: the state says no otherwise, so what
\* is known of each instance is still true.
LEMMA ForeseenKeeps ==
    ASSUME LifecycleInv, NEW x, Foreseen(x), NEW adds, adds = Adds(x.of, x.task),
           adds \subseteq {x.of} \X (Real[x.of] \cup ToSet(Targets[x.of])),
           x.of \in Instances, inforce' = inforce \cup adds,
           unrecorded' = unrecorded \ (adds \ inforce),
           UNCHANGED <<state, deployed, modification, workflow, phase, graph, seen,
                       plan, tries, last, abandoned, misled>>
    PROVE  LifecycleInv'
<1>1. /\ Idle /\ graph = NoGraph /\ FactsInv /\ LeftInv /\ PlanInv /\ SoundInv
      /\ WholeByGraphs /\ GoneByGraphs
  BY DEF Foreseen, LifecycleInv, CoreInv, GraphInv
<1>2. /\ \A f \in adds :
            /\ f[1] = x.of /\ f[1] \in deployed /\ f[2] \notin Instances \ deployed
            /\ state[f[1]] \notin NotThere
            /\ f[2] = "start" => state[f[1]] \notin NotStarted
  BY DEF Foreseen
<1>3. Real[x.of] \cup ToSet(Targets[x.of]) \subseteq Whats
  BY OfInstance
<1>4. \A f \in inforce : Excused(f) => Excused(f)'
  BY DEF Excused
<1>5. FactsInv'
  <2>1. inforce' \subseteq Instances \X Whats
    BY <1>1, <1>3 DEF FactsInv
  <2>2. \A i, w : <<i, w>> \in inforce' => w \in Real[i] \cup ToSet(Targets[i])
    BY <1>1 DEF FactsInv
  <2> QED
    BY <1>1, <2>1, <2>2 DEF FactsInv
<1>6. LeftInv'
  BY <1>1, <1>2, <1>4 DEF LeftInv
<1>7. graph.on = {} /\ graph' = graph
  BY <1>1 DEF NoGraph
<1>8. ASSUME NEW i \in deployed \ misled
      PROVE  Holds(i, RelSet(i), Now(i)')
  <2>1. Holds(i, RelSet(i), Now(i))
    BY <1>1, <1>7, <1>8 DEF SoundInv
  <2>2. Now(i)'.st = Now(i).st /\ Now(i).st = state[i]
    BY DEF Now
  <2>3. Now(i).sure \subseteq Now(i)'.sure
    BY DEF Now
  <2>4. ASSUME NEW w \in Now(i)'.may, w \notin Now(i).may
        PROVE  w \notin Denied(state[i])
    <3>1. w \in Whats /\ <<i, w>> \in inforce' /\ ~Excused(<<i, w>>)'
      BY <2>4 DEF Now
    <3>2. <<i, w>> \notin inforce
      BY <1>4, <2>4, <3>1 DEF Now
    <3>3. PICK f : f = <<i, w>>
      OBVIOUS
    <3>4. f \in adds /\ f[1] = i /\ f[2] = w
      BY <3>1, <3>2, <3>3
    <3>5. state[i] \notin NotThere /\ (w = "start" => state[i] \notin NotStarted)
      BY <1>2, <3>4
    <3> QED
      BY <3>5 DEF Denied
  <2> QED
    BY <2>1, <2>2, <2>3, <2>4 DEF Holds
<1>9. SoundInv'
  <2>1. \A i : RelSet(i)' = RelSet(i)
    BY DEF RelSet, Rels
  <2> QED
    BY <1>7, <1>8, <2>1 DEF SoundInv
<1>10. PlanInv' /\ StubInv'
  <2>1. PlanInv'
    BY <1>1 DEF PlanInv, RelSet, Rels
  <2>2. StubInv'
    BY <1>7 DEF StubInv
  <2> QED
    BY <2>1, <2>2
<1>11. GraphInv' /\ TriesInv'
  BY DEF LifecycleInv, GraphInv, TriesInv, ModificationInv, Doing, Runs, Idle, SetsOnly
<1>12. WholeByGraphs'
  <2>1. inforce \subseteq inforce' /\ inforce \cup unrecorded \subseteq inforce' \cup unrecorded'
    OBVIOUS
  <2>2. \A i : Rels(i)' = Rels(i)
    BY DEF Rels
  <2>3. \A kinds : Ended(kinds)' <=> Ended(kinds)
    BY DEF Ended, Idle
  <2> QED
    BY <1>1, <2>1, <2>2, <2>3 DEF WholeByGraphs
<1>13. GoneByGraphs'
  <2>1. EndedUndone' <=> EndedUndone
    BY DEF EndedUndone, Ended, Idle
  <2>2. EndedUndone => \A i \in deployed \ misled : state[i] = "deleted"
    BY <1>1 DEF GoneByGraphs
  <2>3. ASSUME NEW f \in inforce',
               f[1] \notin deployed \/ f[2] \in Instances \ deployed \/ EndedUndone
        PROVE  Excused(f)'
    <3>1. CASE f \in inforce
      BY <1>1, <1>4, <2>3, <3>1 DEF GoneByGraphs
    <3>2. CASE f \notin inforce
      <4>1. f \in adds
        BY <3>2
      <4>2. f[1] \in deployed /\ state[f[1]] \notin NotThere /\ EndedUndone
        BY <1>2, <2>3, <4>1
      <4>3. f[1] \in misled
        BY <2>2, <4>2 DEF NotThere
      <4> QED
        BY <4>3 DEF Excused
    <3> QED
      BY <3>1, <3>2
  <2> QED
    BY <2>1, <2>2, <2>3 DEF GoneByGraphs
<1> QED
  BY <1>5, <1>6, <1>9, <1>10, <1>11, <1>12, <1>13 DEF LifecycleInv, CoreInv

LEMMA StrayKeeps ==
    ASSUME LifecycleInv, LateInv, NEW x \in stray, StrayLands(x)
    PROVE  LifecycleInv'
<1>1. /\ x.of \in Instances
      /\ Adds(x.of, x.task) \subseteq {x.of} \X (Real[x.of] \cup ToSet(Targets[x.of]))
  BY DEF LateInv
<1>2. UNCHANGED <<state, deployed, modification, workflow, phase, graph, seen,
                  plan, tries, last, abandoned, misled>>
  BY DEF StrayLands, running
<1>3. CASE Foreseen(x)
  <2>1. PICK adds : adds = Adds(x.of, x.task)
    OBVIOUS
  <2>2. inforce' = inforce \cup adds /\ unrecorded' = unrecorded \ (adds \ inforce)
    BY <1>3, <2>1 DEF StrayLands
  <2> QED
    BY <1>1, <1>2, <1>3, <2>1, <2>2, ForeseenKeeps
<1>4. CASE ~Foreseen(x)
  <2>1. inforce' = inforce /\ unrecorded' = unrecorded
    BY <1>4 DEF StrayLands
  <2> QED
    BY <1>2, <2>1, SameKeeps
<1> QED
  BY <1>3, <1>4

LEMMA LifecycleStep ==
    ASSUME LifecycleInv, LateInv, [Next]_vars
    PROVE  LifecycleInv'
<1>1. CASE BeginInstall
  BY <1>1, BeginInstallKeeps
<1>2. ASSUME NEW ignore, BeginUninstall(ignore)
      PROVE  LifecycleInv'
  BY <1>2, BeginUninstallKeeps
<1>3. ASSUME NEW ignore, NEW S, BeginHeal(S, ignore)
      PROVE  LifecycleInv'
  BY <1>3, BeginHealKeeps
<1>4. ASSUME NEW ignore, NEW S \in Scaled, NEW option, BeginScaleOut(S, ignore, option)
      PROVE  LifecycleInv'
  <2>1. S \subseteq Instances
    BY DeploymentAssumption
  <2> QED
    BY <1>4, <2>1, BeginScaleOutKeeps
<1>5. ASSUME NEW ignore, NEW S, NEW option, BeginScaleIn(S, ignore, option)
      PROVE  LifecycleInv'
  BY <1>5, BeginScaleInKeeps
<1>6. ASSUME NEW ignore, BeginAbort(ignore)
      PROVE  LifecycleInv'
  BY <1>6, BeginAbortKeeps
<1>7. ASSUME NEW full, BeginRollback(full)
      PROVE  LifecycleInv'
  BY <1>7, BeginRollbackKeeps
<1>8. ASSUME NEW i \in Instances, Task(i)
      PROVE  LifecycleInv'
  <2>1. CASE TaskSucceeds(i)
    BY <2>1, SuccessKeeps
  <2>2. ASSUME NEW effect \in BOOLEAN, TaskIsIgnored(i, effect)
        PROVE  LifecycleInv'
    BY <2>2, IgnoredKeeps
  <2>3. ASSUME NEW effect \in BOOLEAN, SubgraphRetried(i, effect)
        PROVE  LifecycleInv'
    BY <2>3, RetriedKeeps
  <2>4. ASSUME NEW effect \in BOOLEAN, TaskFailsGraph(i, effect)
        PROVE  LifecycleInv'
    BY <2>4, FailsKeeps
  <2> QED
    BY <1>8, <2>1, <2>2, <2>3, <2>4 DEF Task
<1>9. CASE GraphEnds
  BY <1>9, GraphEndsKeeps
<1>10. CASE Cancel
  BY <1>10, CancelKeeps
<1>11. CASE Crash
  BY <1>11, CrashKeeps
<1>12. CASE UNCHANGED vars
  BY <1>12, SameKeeps DEF vars, running, history
<1>13. ASSUME NEW x \in stray, StrayLands(x)
      PROVE  LifecycleInv'
  BY <1>13, StrayKeeps
<1> QED
  BY <1>1, <1>2, <1>3, <1>4, <1>5, <1>6, <1>7, <1>8, <1>9, <1>10, <1>11, <1>12,
     <1>13 DEF Next

-----------------------------------------------------------------------------
(* Strays *)

\* The facts that a step settles are those that the heads of the plans of S
\* change, which land; and strays are left alone or grow.
Settles(S) ==
    /\ \A j \in S : j \in Instances /\ Enabled(j)
    /\ inforce' = Landed(inforce, S)
    /\ Settle(UNION {Changes(j, Head(plan[j])) : j \in S})

\* What the head of a plan brings about is of its instance.
LEMMA HeadAdds ==
    ASSUME LifecycleInv, NEW i \in Instances, Enabled(i)
    PROVE  Adds(i, Head(plan[i])) \subseteq {i} \X (Real[i] \cup ToSet(Targets[i]))
<1>1. plan[i] # <<>>
  BY DEF Enabled
<1>2. FactsInv /\ PlanInv /\ graph.on \subseteq deployed /\ graph.kind \in Kinds
  BY <1>1, PlannedIsRunning DEF LifecycleInv, CoreInv
<1>3. PICK h : h = Head(plan[i])
  OBVIOUS
<1>4. /\ i \in deployed
      /\ i \in graph.on => h \in TasksOf(graph.kind, RelSet(i))
      /\ i \notin graph.on => h \in LinkTasks(graph.kind, RelSet(i))
  BY <1>1, <1>2, <1>3, HeadIs
<1>5. CASE h.do = "establish"
  <2>1. h.what \in RelSet(i)
    BY <1>4, <1>5 DEF TasksOf, LinkTasks, UndoTasks, DoTasks
  <2>2. h.what \in ToSet(Targets[i])
    BY <2>1, <1>2, <1>4, RelSetIs DEF RelSet
  <2> QED
    BY <1>3, <1>5, <2>2 DEF Adds
<1>6. CASE h.do # "establish"
  BY <1>3, <1>6 DEF Adds
<1> QED
  BY <1>5, <1>6

\* A step lands the heads of plans that may run, or none, or a stray lands.
LEMMA StepSettles ==
    ASSUME [Next]_vars
    PROVE  \/ \E S : Settles(S)
           \/ \E x \in stray : StrayLands(x)
<1>1. ASSUME UNCHANGED <<inforce, lateMade, lateUndone>>
      PROVE  \E S : Settles(S)
  <2>1. inforce' = Landed(inforce, {})
    BY <1>1, AfterIsLanded
  <2>2. Settle(UNION {Changes(j, Head(plan[j])) : j \in {}})
    BY <1>1 DEF Settle
  <2> QED
    BY <2>1, <2>2 DEF Settles
<1>2. ASSUME NEW i \in Instances, Enabled(i),
             inforce' = After(inforce, i, Head(plan[i])),
             Settle(Changes(i, Head(plan[i])))
      PROVE  \E S : Settles(S)
  <2>1. inforce' = Landed(inforce, {i})
    BY <1>2, AfterIsLanded
  <2>2. UNION {Changes(j, Head(plan[j])) : j \in {i}} = Changes(i, Head(plan[i]))
    OBVIOUS
  <2> QED
    BY <1>2, <2>1, <2>2 DEF Settles
<1>3. ASSUME NEW i \in Instances, NEW effect, Enabled(i), Failed(i, effect)
      PROVE  \E S : Settles(S)
  <2>1. CASE effect
    BY <1>2, <1>3, <2>1 DEF Failed
  <2>2. CASE ~effect
    <3>1. UNCHANGED <<inforce, lateMade, lateUndone>>
      BY <1>3, <2>2 DEF Failed, Settle
    <3> QED
      BY <1>1, <3>1
  <2> QED
    BY <2>1, <2>2
<1>4. ASSUME NEW i \in Instances, Task(i)
      PROVE  \E S : Settles(S)
  <2>1. CASE TaskSucceeds(i)
    <3>1. /\ Enabled(i) /\ inforce' = After(inforce, i, Head(plan[i]))
          /\ Settle(Changes(i, Head(plan[i])))
      BY <2>1 DEF TaskSucceeds
    <3> QED
      BY <1>2, <3>1
  <2>2. ASSUME NEW effect \in BOOLEAN,
               \/ TaskIsIgnored(i, effect) \/ SubgraphRetried(i, effect)
               \/ TaskFailsGraph(i, effect)
        PROVE  \E S : Settles(S)
    <3>1. Enabled(i) /\ Failed(i, effect)
      BY <2>2 DEF TaskIsIgnored, SubgraphRetried, TaskFailsGraph, InFlight
    <3> QED
      BY <1>3, <3>1
  <2> QED
    BY <1>4, <2>1, <2>2 DEF Task
<1>5. CASE Cancel
  BY <1>1, <1>5 DEF Cancel
<1>6. CASE Crash
  BY <1>1, <1>6 DEF Crash
<1>7. CASE GraphEnds
  BY <1>1, <1>7 DEF GraphEnds, late
<1>8. CASE UNCHANGED vars
  BY <1>1, <1>8 DEF vars, late
<1>9. ASSUME NEW w, Begin(w)
      PROVE  UNCHANGED <<inforce, lateMade, lateUndone>>
  BY <1>9 DEF Begin, late
<1>10. CASE \/ BeginInstall
            \/ \E ignore \in Hints :
                  \/ BeginUninstall(ignore)
                  \/ \E S \in Subgraphs : BeginHeal(S, ignore)
                  \/ \E S \in Scaled, option \in BOOLEAN :
                        \/ BeginScaleOut(S, ignore, option)
                        \/ BeginScaleIn(S, ignore, option)
                  \/ BeginAbort(ignore)
            \/ \E full \in BOOLEAN : BeginRollback(full)
  <2>1. \E w : Begin(w)
    BY <1>10 DEF BeginInstall, BeginUninstall, BeginHeal, BeginScaleOut,
                 BeginScaleIn, BeginAbort, BeginRollback
  <2> QED
    BY <1>1, <1>9, <2>1
<1> QED
  BY <1>4, <1>5, <1>6, <1>7, <1>8, <1>10 DEF Next

\* The strays that a step leaves behind were heads of plans that may run.
LEMMA StepLeaves ==
    ASSUME [Next]_vars, NEW x \in stray', x \notin stray
    PROVE  \E j \in Instances : /\ Enabled(j) /\ x.of = j /\ x.task = Head(plan[j])
<1>1. ASSUME NEW over, OthersGoOn(over)
      PROVE  \E j \in Instances : /\ Enabled(j) /\ x.of = j /\ x.task = Head(plan[j])
  <2>1. PICK j \in {k \in Instances : InFlight(k)} \ over :
              x = [of |-> j, task |-> Head(plan[j]), left |-> failures]
    BY <1>1 DEF OthersGoOn
  <2> QED
    BY <2>1 DEF InFlight
<1>2. \/ \E over : OthersGoOn(over)
      \/ stray' \subseteq stray
  <2>1. ASSUME NEW i \in Instances, Task(i)
        PROVE  (\E over : OthersGoOn(over)) \/ stray' \subseteq stray
    BY <2>1 DEF Task, TaskSucceeds, TaskIsIgnored, SubgraphRetried, TaskFailsGraph
  <2>2. ASSUME NEW w, Begin(w)
        PROVE  stray' \subseteq stray
    BY <2>2 DEF Begin, late
  <2>3. CASE \/ BeginInstall
             \/ \E ignore \in Hints :
                   \/ BeginUninstall(ignore)
                   \/ \E S \in Subgraphs : BeginHeal(S, ignore)
                   \/ \E S \in Scaled, option \in BOOLEAN :
                         \/ BeginScaleOut(S, ignore, option)
                         \/ BeginScaleIn(S, ignore, option)
                   \/ BeginAbort(ignore)
             \/ \E full \in BOOLEAN : BeginRollback(full)
    <3>1. \E w : Begin(w)
      BY <2>3 DEF BeginInstall, BeginUninstall, BeginHeal, BeginScaleOut,
                  BeginScaleIn, BeginAbort, BeginRollback
    <3> QED
      BY <2>2, <3>1
  <2>4. CASE Cancel \/ Crash
    BY <2>4 DEF Cancel, Crash
  <2>5. CASE GraphEnds \/ UNCHANGED vars
    BY <2>5 DEF GraphEnds, vars, late
  <2>6. CASE \E y \in stray : StrayLands(y)
    BY <2>6 DEF StrayLands
  <2> QED
    BY <2>1, <2>3, <2>4, <2>5, <2>6 DEF Next
<1> QED
  BY <1>1, <1>2

LEMMA LateStep ==
    ASSUME LifecycleInv, LateInv, [Next]_vars
    PROVE  LateInv'
<1>1. ASSUME NEW x \in stray'
      PROVE  /\ x.of \in Instances
             /\ Adds(x.of, x.task) \subseteq {x.of} \X (Real[x.of] \cup ToSet(Targets[x.of]))
  <2>1. CASE x \in stray
    BY <2>1 DEF LateInv
  <2>2. CASE x \notin stray
    <3>1. PICK j \in Instances : /\ Enabled(j) /\ x.of = j /\ x.task = Head(plan[j])
      BY <2>2, StepLeaves
    <3>2. Adds(j, Head(plan[j])) \subseteq {j} \X (Real[j] \cup ToSet(Targets[j]))
      BY <3>1, HeadAdds
    <3> QED
      BY <3>1, <3>2
  <2> QED
    BY <2>1, <2>2
<1>2. ASSUME NEW S, Settles(S)
      PROVE  /\ lateMade' \subseteq Instances \X Whats
             /\ lateMade' \cap inforce' = {} /\ lateUndone' \subseteq inforce'
  <2>1. PICK C : C = UNION {Changes(j, Head(plan[j])) : j \in S}
    OBVIOUS
  <2>2. lateMade' = lateMade \ C /\ lateUndone' = lateUndone \ C
    BY <1>2, <2>1 DEF Settles, Settle
  <2>3. inforce' \subseteq inforce \cup C /\ inforce \ C \subseteq inforce'
    BY <1>2, <2>1 DEF Settles, Landed, Changes
  <2> QED
    BY <2>2, <2>3 DEF LateInv
<1>3. ASSUME NEW x \in stray, StrayLands(x)
      PROVE  /\ lateMade' \subseteq Instances \X Whats
             /\ lateMade' \cap inforce' = {} /\ lateUndone' \subseteq inforce'
  <2>1. PICK adds, removes : adds = Adds(x.of, x.task) /\ removes = Removes(x.of, x.task)
    OBVIOUS
  <2>2. adds \subseteq Instances \X Whats
    <3>1. /\ x.of \in Instances
          /\ adds \subseteq {x.of} \X (Real[x.of] \cup ToSet(Targets[x.of]))
      BY <2>1 DEF LateInv
    <3>2. Real[x.of] \cup ToSet(Targets[x.of]) \subseteq Whats
      BY <3>1, OfInstance
    <3> QED
      BY <3>1, <3>2
  <2>3. CASE Foreseen(x)
    <3>1. inforce' = inforce \cup adds /\ lateMade' = lateMade \ adds
          /\ lateUndone' = lateUndone \ adds
      BY <1>3, <2>1, <2>3 DEF StrayLands, Settle
    <3> QED
      BY <3>1 DEF LateInv
  <2>4. CASE ~Foreseen(x)
    <3>1. /\ lateMade' = (lateMade \ removes) \cup (adds \ inforce)
          /\ lateUndone' = (lateUndone \ adds) \cup (removes \cap inforce)
          /\ inforce' = inforce
      BY <1>3, <2>1, <2>4 DEF StrayLands
    <3> QED
      BY <2>2, <3>1 DEF LateInv
  <2> QED
    BY <2>3, <2>4
<1>4. /\ lateMade' \subseteq Instances \X Whats
      /\ lateMade' \cap inforce' = {} /\ lateUndone' \subseteq inforce'
  BY <1>2, <1>3, StepSettles
<1> QED
  BY <1>1, <1>4 DEF LateInv

\* The inductive invariant holds in every state.
LEMMA LifecycleHolds == Spec => [](LifecycleInv /\ LateInv)
<1>1. Init => LifecycleInv /\ LateInv
  <2>1. Init => LateInv
    BY DEF Init, LateInv
  <2> QED
    BY <2>1, LifecycleInit
<1>2. LifecycleInv /\ LateInv /\ [Next]_vars => (LifecycleInv /\ LateInv)'
  BY LifecycleStep, LateStep
<1> QED
  BY <1>1, <1>2, PTL DEF Spec

\* An install that ended well is whole, but for what strays have undone.
THEOREM InstalledStaysWhole == Spec => []InstalledIsWhole
<1>1. LifecycleInv /\ LateInv => InstalledIsWhole
  <2> SUFFICES ASSUME LifecycleInv, LateInv
               PROVE  InstalledIsWhole
    OBVIOUS
  <2>1. inforce \subseteq Present \cup lateUndone
    BY DEF Present
  <2>2. WholeByGraphs
    BY DEF LifecycleInv
  <2> QED
    BY <2>1, <2>2 DEF WholeByGraphs, InstalledIsWhole
<1> QED
  BY <1>1, LifecycleHolds, PTL

\* After an uninstall or a full rollback that ended well, and of an instance that
\* has left the deployment, nothing is in force, unless a failure was ignored, a
\* state that denies it was written over it, an instance was misled, or a stray
\* brought it about during a workflow or when the state denied it.
THEOREM NothingStaysBehind == Spec => []NothingIsLeftBehind
<1>1. LifecycleInv /\ LateInv => NothingIsLeftBehind
  <2> SUFFICES ASSUME LifecycleInv, NEW fact \in Present \ lateMade,
                      \/ fact[1] \notin deployed \/ fact[2] \in Instances \ deployed
                      \/ EndedUndone
               PROVE  Excused(fact)
    BY DEF NothingIsLeftBehind, EndedUndone
  <2>1. fact \in inforce
    BY DEF Present
  <2>2. GoneByGraphs
    BY DEF LifecycleInv
  <2> QED
    BY <2>1, <2>2 DEF GoneByGraphs
<1> QED
  BY <1>1, LifecycleHolds, PTL

\* The states, what is in force, the deployment and the phase have their types;
\* what strays did is told apart from what the states were told of; without a
\* workflow there is no plan; no subgraph is retried more often than allowed.
THEOREM TypeCorrect == Spec => []TypeOK
<1>1. LifecycleInv /\ LateInv => TypeOK
  <2> SUFFICES ASSUME LifecycleInv, LateInv
               PROVE  TypeOK
    OBVIOUS
  <2>1. FactsInv /\ GraphInv /\ tries \in [Instances -> 0 .. SubgraphRetries]
    BY DEF LifecycleInv, CoreInv, TriesInv
  <2>2. \A i \in Instances : tries[i] <= SubgraphRetries
    <3>1. SubgraphRetries \in Nat
      BY DeploymentAssumption
    <3> QED
      BY <2>1, <3>1
  <2>3. phase \in {"idle", "first", "second"}
        /\ (Idle => plan = NoPlan /\ workflow = NoWorkflow)
    BY <2>1 DEF GraphInv
  <2> QED
    BY <2>1, <2>2, <2>3 DEF TypeOK, FactsInv, Whats, LateInv
<1> QED
  BY <1>1, LifecycleHolds, PTL

-----------------------------------------------------------------------------
(* Targets first *)

\* What a task brings about are its gains, and what it undoes its losses.
LEMMA AddedIs ==
    ASSUME NEW i, NEW fact \in Adds(i, Head(plan[i]))
    PROVE  \E w \in Gains(i, Head(plan[i])) : fact = <<i, w>>
<1>1. PICK h : h = Head(plan[i])
  OBVIOUS
<1>2. CASE h.do = "establish"
  BY <1>1, <1>2 DEF Adds, Gains
<1>3. CASE h.do = "operation"
  BY <1>1, <1>3 DEF Adds, Gains
<1>4. CASE h.do \notin {"establish", "operation"}
  BY <1>1, <1>4 DEF Adds
<1> QED
  BY <1>2, <1>3, <1>4

LEMMA RemovedIs ==
    ASSUME NEW k, NEW i, NEW w, <<i, w>> \in Removes(k, Head(plan[k]))
    PROVE  i = k /\ w \in Loses(Head(plan[k]))
<1>1. PICK h : h = Head(plan[k])
  OBVIOUS
<1>2. CASE h.do = "unlink"
  BY <1>1, <1>2 DEF Removes, Loses
<1>3. CASE h.do = "operation"
  BY <1>1, <1>3 DEF Removes, Loses
<1>4. CASE h.do \notin {"unlink", "operation"}
  BY <1>1, <1>4 DEF Removes
<1> QED
  BY <1>2, <1>3, <1>4

\* What comes to be in force, or is no longer, was changed by a head that landed.
LEMMA PresentMoves ==
    ASSUME LateInv, NEW S, Settles(S), NEW f
    PROVE  /\ f \in Present' \ Present => \E i \in S : f \in Adds(i, Head(plan[i]))
           /\ f \in Present \ Present' => \E i \in S : f \in Removes(i, Head(plan[i]))
<1>1. PICK C, A, R : /\ C = UNION {Changes(j, Head(plan[j])) : j \in S}
                     /\ A = UNION {Adds(j, Head(plan[j])) : j \in S}
                     /\ R = UNION {Removes(j, Head(plan[j])) : j \in S}
  OBVIOUS
<1>2. C = A \cup R
  BY <1>1 DEF Changes
<1>3. inforce' = (inforce \ R) \cup A
  BY <1>1 DEF Settles, Landed
<1>4. lateMade' = lateMade \ C /\ lateUndone' = lateUndone \ C
  BY <1>1 DEF Settles, Settle
<1>5. f \in Present' \ Present => f \in A
  BY <1>2, <1>3, <1>4 DEF Present
<1>6. f \in Present \ Present' => f \in R
  BY <1>2, <1>3, <1>4 DEF Present
<1> QED
  BY <1>1, <1>5, <1>6

\* A started instance has all that its operations make.
LEMMA StartedIsMade ==
    ASSUME FactsInv, NEW t \in Instances, state[t] = "started",
           Holds(t, RelSet(t), Now(t))
    PROVE  {t} \X Real[t] \subseteq inforce
<1>1. /\ Now(t).st = state[t]
      /\ Now(t).sure = {w \in Whats : <<t, w>> \in inforce \cup unrecorded}
  BY DEF Now
<1>2. Real[t] \subseteq Claims(t, RelSet(t), state[t])
  <2>1. "started" \in CreatedBefore /\ "started" \in ConfiguredBefore
    BY DEF CreatedBefore, ConfiguredBefore
  <2>2. Real[t] \subseteq Made
    BY MadeAreNotInstances
  <2>3. Made \subseteq {op \in Made : \/ op = "create" /\ state[t] \in CreatedBefore
                                      \/ op = "configure" /\ state[t] \in ConfiguredBefore
                                      \/ op = "start" /\ state[t] = "started"}
    BY <2>1 DEF Made
  <2> QED
    BY <2>2, <2>3 DEF Claims
<1>3. \A w \in Real[t] : <<t, w>> \in inforce \cup unrecorded
  BY <1>1, <1>2 DEF Holds
<1>4. \A w \in Real[t] : <<t, w>> \notin unrecorded
  BY MadeAreNotInstances DEF FactsInv
<1> QED
  BY <1>3, <1>4

\* Only an install brings something about, on targets that are done.
LEMMA GainsOnTargets ==
    ASSUME LifecycleInv, NEW i \in Instances, Enabled(i),
           Gains(i, Head(plan[i])) # {}, NEW t \in ToSet(Rels(i)) \ misled,
           t \in graph.on \/ state[t] = "started"
    PROVE  {t} \X Real[t] \subseteq inforce
<1>1. plan[i] # <<>> /\ \A j \in Before(i) : plan[j] = <<>>
  BY DEF Enabled
<1>2. /\ graph.kind \in Kinds /\ graph.on \subseteq deployed /\ FactsInv /\ PlanInv
      /\ SoundInv /\ t \in Instances /\ t \in deployed
  BY <1>1, PlannedIsRunning, RelSetIs DEF LifecycleInv, CoreInv, RelSet
<1>3. PICK h : h = Head(plan[i])
  OBVIOUS
<1>4. /\ i \in deployed
      /\ i \in graph.on => h \in TasksOf(graph.kind, RelSet(i))
      /\ i \notin graph.on => h \in LinkTasks(graph.kind, RelSet(i))
  BY <1>1, <1>2, <1>3, HeadIs
<1>5. graph.kind = "install"
  <2> SUFFICES ASSUME graph.kind # "install"
               PROVE  Gains(i, h) = {}
    BY <1>3
  <2>1. h \in UndoTasks(RelSet(i)) \/ h \in [do : {"unlink"}, what : RelSet(i)]
    BY <1>4 DEF TasksOf, LinkTasks
  <2>2. h.do # "establish" /\ (h.do = "operation" => h.what \in {"stop", "delete"})
    BY <2>1 DEF UndoTasks
  <2>3. Real[i] \subseteq Made /\ "stop" \notin Made /\ "delete" \notin Made
    BY MadeAreNotInstances DEF Made
  <2> QED
    BY <2>2, <2>3 DEF Gains
<1>6. t \in Before(i)
  <2>1. t \in ToSet(Targets[i])
    BY <1>2, RelSetIs DEF RelSet
  <2> QED
    BY <1>2, <1>5, <2>1 DEF Before, RelatesTo
<1>7. plan[t] = <<>> /\ t \notin misled
  BY <1>1, <1>6
<1>8. state[t] = "started" /\ Holds(t, RelSet(t), Now(t))
  <2>1. CASE t \in graph.on
    <3>1. PICK a : /\ Entails(Now(t), a)
                   /\ Works(t, graph.kind, RelSet(t), a, plan[t])
      BY <1>2, <1>7, <2>1 DEF SoundInv
    <3>2. Meets(graph.kind, a) /\ Holds(t, RelSet(t), Now(t))
      BY <1>7, <3>1, WorksDone, WorksHolds, EntailsHolds
    <3>3. Now(t).st = state[t]
      BY DEF Now
    <3> QED
      BY <1>5, <3>1, <3>2, <3>3 DEF Meets, Entails
  <2>2. CASE t \notin graph.on
    BY <1>2, <1>7, <2>2 DEF SoundInv
  <2> QED
    BY <2>1, <2>2
<1> QED
  BY <1>2, <1>8, StartedIsMade

\* Nothing is taken away from an instance that others still have links to.
LEMMA DeletedIsUnlinked ==
    ASSUME LifecycleInv, NEW i \in Instances, Enabled(i), graph.kind = "uninstall",
           "create" \in Loses(Head(plan[i])), NEW j, <<j, i>> \in inforce
    PROVE  Excused(<<j, i>>)
<1>1. plan[i] # <<>> /\ \A k \in Before(i) : plan[k] = <<>>
  BY DEF Enabled
<1>2. /\ graph.on \subseteq deployed /\ FactsInv /\ PlanInv /\ LeftInv
      /\ SoundInv /\ StubInv
  BY <1>1, PlannedIsRunning DEF LifecycleInv, CoreInv
<1>3. PICK h : h = Head(plan[i])
  OBVIOUS
<1>4. i \in graph.on
  <2> SUFFICES ASSUME i \notin graph.on
               PROVE  FALSE
    OBVIOUS
  <2>1. h \in LinkTasks(graph.kind, RelSet(i))
    BY <1>1, <1>2, <1>3, HeadIs
  <2>2. h.do = "unlink" /\ h.what \in Instances
    BY <2>1, RelSetIs DEF LinkTasks
  <2> QED
    BY <1>3, <2>2, MadeAreNotInstances DEF Loses, Made
<1>5. PICK f : f = <<j, i>>
  OBVIOUS
<1>6. f \in inforce /\ f[1] = j /\ f[2] = i /\ j \in Instances
      /\ i \in ToSet(Targets[j])
  <2>1. j \in Instances /\ i \in Real[j] \cup ToSet(Targets[j])
    BY <1>2 DEF FactsInv
  <2> QED
    BY <1>5, <2>1, MadeAreNotInstances
<1>7. CASE j \notin deployed
  BY <1>2, <1>5, <1>6, <1>7 DEF LeftInv
<1>8. CASE j \in deployed
  <2>0. RelatesTo(j, i)
    BY <1>6 DEF RelatesTo
  <2>1. plan[j] = <<>>
    BY <1>1, <1>8, <2>0 DEF Before
  <2>2. CASE j \in graph.on
    <3>1. CASE j \in misled
      BY <1>5, <1>6, <3>1 DEF Excused
    <3>2. CASE j \notin misled
      <4>1. PICK a : /\ Entails(Now(j), a)
                     /\ Works(j, graph.kind, RelSet(j), a, plan[j])
        BY <1>2, <1>8, <2>2, <3>2 DEF SoundInv
      <4>2. Now(j).may = {}
        BY <2>1, <4>1, WorksDone DEF Meets, Entails
      <4>3. Now(j).may = {x \in Whats : <<j, x>> \in inforce /\ ~Excused(<<j, x>>)}
        BY DEF Now
      <4> QED
        BY <4>2, <4>3, MadeAreNotInstances
    <3> QED
      BY <3>1, <3>2
  <2>3. CASE j \notin graph.on
    <3>1. Excused(<<j, i>>) \/ [do |-> "unlink", what |-> i] \in ToSet(plan[j])
      BY <1>2, <1>4, <1>8, <2>3 DEF StubInv
    <3>2. ToSet(<<>>) = {}
      BY DEF ToSet
    <3> QED
      BY <2>1, <3>1, <3>2
  <2> QED
    BY <2>2, <2>3
<1> QED
  BY <1>7, <1>8

\* Nothing comes about on top of a target that is not whole itself, be it in the
\* graph or started before it, and no uninstall deletes an instance while another
\* still has its link to it, unless that link is excused or a stray made it.
THEOREM TargetsAreFirst == Spec => TargetsComeFirst
<1>1. LifecycleInv /\ LateInv /\ [Next]_vars =>
         [stray \subseteq stray' =>
          /\ \A fact \in Present' \ Present :
                \A t \in ToSet(Rels(fact[1])) \ misled :
                   (t \in graph.on \/ state[t] = "started")
                       => {t} \X Real[t] \subseteq Present \cup lateUndone
          /\ \A i, j \in Instances :
                (/\ <<i, "create">> \in Present \ Present'
                 /\ <<j, i>> \in Present
                 /\ graph.kind = "uninstall")
                   => Excused(<<j, i>>) \/ <<j, i>> \in lateMade]_vars
  <2> SUFFICES ASSUME LifecycleInv, LateInv, [Next]_vars, stray \subseteq stray'
               PROVE  /\ \A fact \in Present' \ Present :
                            \A t \in ToSet(Rels(fact[1])) \ misled :
                               (t \in graph.on \/ state[t] = "started")
                                   => {t} \X Real[t] \subseteq Present \cup lateUndone
                      /\ \A i, j \in Instances :
                            (/\ <<i, "create">> \in Present \ Present'
                             /\ <<j, i>> \in Present
                             /\ graph.kind = "uninstall")
                               => Excused(<<j, i>>) \/ <<j, i>> \in lateMade
    OBVIOUS
  <2>1. PICK S : Settles(S)
    <3>1. ASSUME NEW x \in stray, StrayLands(x)
          PROVE  FALSE
      BY <3>1 DEF StrayLands
    <3> QED
      BY <3>1, StepSettles
  <2>2. \A i \in S : i \in Instances /\ Enabled(i)
    BY <2>1 DEF Settles
  <2>3. ASSUME NEW fact \in Present' \ Present, NEW t \in ToSet(Rels(fact[1])) \ misled,
               t \in graph.on \/ state[t] = "started"
        PROVE  {t} \X Real[t] \subseteq Present \cup lateUndone
    <3>0. PICK i \in S : fact \in Adds(i, Head(plan[i]))
      BY <2>1, <2>3, PresentMoves
    <3>1. PICK w \in Gains(i, Head(plan[i])) : fact = <<i, w>>
      BY <3>0, AddedIs
    <3>2. fact[1] = i /\ i \in Instances /\ Enabled(i)
      BY <2>2, <3>1
    <3>3. {t} \X Real[t] \subseteq inforce
      BY <2>3, <3>1, <3>2, GainsOnTargets
    <3> QED
      BY <3>3 DEF Present
  <2>4. ASSUME NEW i \in Instances, NEW j \in Instances, graph.kind = "uninstall",
               <<i, "create">> \in Present \ Present',
               <<j, i>> \in Present, <<j, i>> \notin lateMade
        PROVE  Excused(<<j, i>>)
    <3>1. PICK k \in S : <<i, "create">> \in Removes(k, Head(plan[k]))
      BY <2>1, <2>4, PresentMoves
    <3>2. i \in S /\ "create" \in Loses(Head(plan[i]))
      BY <3>1, RemovedIs
    <3>3. <<j, i>> \in inforce
      BY <2>4 DEF Present
    <3> QED
      BY <2>2, <2>4, <3>2, <3>3, DeletedIsUnlinked
  <2> QED
    BY <2>3, <2>4
<1> QED
  BY <1>1, LifecycleHolds, PTL DEF Spec, TargetsComeFirst

-----------------------------------------------------------------------------
(***************************************************************************)
(* Modifications of a deployment                                           *)
(*                                                                         *)
(* From here on the theorems are about MultiInstance, for every plan, any  *)
(* numbers of instances and any sequence of modifications.                 *)
(***************************************************************************)

(* What an instance is in: the recursive function behind Chain *)

\* Nothing is in itself: every set of instances has one that is in none of them.
Rooted(up) ==
    \A S \in SUBSET DOMAIN up : S # {} => \E i \in S : up[i] \notin S

ChainStep(up, f, i) ==
    f[i] = IF up[i] \notin DOMAIN up THEN <<>> ELSE <<up[i]>> \o f[up[i]]

\* f gives the chains of the instances in C, which is closed upwards.
ChainOn(up, f, C) ==
    /\ C \in SUBSET DOMAIN up
    /\ \A i \in C : up[i] \in DOMAIN up => up[i] \in C
    /\ f = [i \in C |-> f[i]]
    /\ \A i \in C : ChainStep(up, f, i)

LEMMA ChainsAgree ==
    ASSUME NEW up, Rooted(up),
           NEW f, NEW C, ChainOn(up, f, C), NEW g, NEW E, ChainOn(up, g, E)
    PROVE  \A i \in C \cap E : f[i] = g[i]
<1> DEFINE S == {i \in C \cap E : f[i] # g[i]}
<1> SUFFICES ASSUME S # {}
             PROVE  FALSE
  OBVIOUS
<1>1. PICK i \in S : up[i] \notin S
  BY DEF Rooted, ChainOn
<1>2. ChainStep(up, f, i) /\ ChainStep(up, g, i)
  BY DEF ChainOn
<1>3. up[i] \in DOMAIN up => up[i] \in C \cap E
  BY DEF ChainOn
<1> QED
  BY <1>1, <1>2, <1>3 DEF ChainStep

\* Every instance has a chain.
LEMMA ChainsExist ==
    ASSUME NEW up, Rooted(up)
    PROVE  \A i \in DOMAIN up : \E f, C : i \in C /\ ChainOn(up, f, C)
<1> DEFINE Has(i) == \E f, C : i \in C /\ ChainOn(up, f, C)
           S == {i \in DOMAIN up : ~Has(i)}
<1> SUFFICES ASSUME S # {}
             PROVE  FALSE
  OBVIOUS
<1>1. PICK i \in S : up[i] \notin S
  BY DEF Rooted
<1>2. i \in DOMAIN up /\ ~Has(i)
  OBVIOUS
<1>3. \E f, C : i \in C /\ ChainOn(up, f, C)
  <2>1. CASE up[i] \notin DOMAIN up
    <3> DEFINE f == [j \in {i} |-> <<>>]
    <3>1. ChainOn(up, f, {i})
      BY <1>2, <2>1 DEF ChainOn, ChainStep
    <3> QED
      BY <3>1
  <2>2. CASE up[i] \in DOMAIN up
    <3>1. Has(up[i])
      BY <1>1, <2>2
    <3>2. PICK f, C : up[i] \in C /\ ChainOn(up, f, C)
      BY <3>1
    <3> DEFINE g == [j \in C \cup {i} |-> IF j \in C THEN f[j] ELSE <<up[i]>> \o f[up[i]]]
    <3>3. /\ C \cup {i} \in SUBSET DOMAIN up
          /\ \A j \in C \cup {i} : up[j] \in DOMAIN up => up[j] \in C \cup {i}
      BY <1>2, <3>2 DEF ChainOn
    <3>4. ASSUME NEW j \in C
          PROVE  ChainStep(up, g, j)
      <4>1. ChainStep(up, f, j) /\ (up[j] \in DOMAIN up => up[j] \in C)
        BY <3>2 DEF ChainOn
      <4> QED
        BY <4>1 DEF ChainStep
    <3>5. i \notin C
      BY <1>2, <3>2
    <3>6. ChainStep(up, g, i)
      BY <2>2, <3>2, <3>5 DEF ChainStep
    <3>7. g = [j \in C \cup {i} |-> g[j]]
      OBVIOUS
    <3> HIDE DEF g
    <3>8. ChainOn(up, g, C \cup {i})
      BY <3>3, <3>4, <3>6, <3>7 DEF ChainOn
    <3> QED
      BY <3>8
  <2> QED
    BY <2>1, <2>2
<1> QED
  BY <1>2, <1>3

LEMMA ChainIsDefined ==
    ASSUME NEW up, Rooted(up)
    PROVE  \A i \in DOMAIN up : ChainStep(up, Chain(up), i)
<1> DEFINE of(i) == CHOOSE f : \E C : i \in C /\ ChainOn(up, f, C)
           h     == [i \in DOMAIN up |-> of(i)[i]]
<1>1. ASSUME NEW i \in DOMAIN up
      PROVE  \E C : i \in C /\ ChainOn(up, of(i), C)
  BY ChainsExist
<1>2. ASSUME NEW i \in DOMAIN up
      PROVE  h[i] = IF up[i] \notin DOMAIN up THEN <<>> ELSE <<up[i]>> \o h[up[i]]
  <2>1. PICK C : i \in C /\ ChainOn(up, of(i), C)
    BY <1>1
  <2>2. of(i)[i] = IF up[i] \notin DOMAIN up THEN <<>> ELSE <<up[i]>> \o of(i)[up[i]]
    BY <2>1 DEF ChainOn, ChainStep
  <2>3. CASE up[i] \in DOMAIN up
    <3>1. PICK E : up[i] \in E /\ ChainOn(up, of(up[i]), E)
      BY <1>1, <2>3
    <3>2. up[i] \in C
      BY <2>1, <2>3 DEF ChainOn
    <3> HIDE DEF of
    <3>3. of(i)[up[i]] = of(up[i])[up[i]]
      BY <2>1, <3>1, <3>2, ChainsAgree
    <3> QED
      BY <2>2, <2>3, <3>3
  <2> HIDE DEF of
  <2>4. CASE up[i] \notin DOMAIN up
    BY <2>2, <2>4
  <2> QED
    BY <2>3, <2>4
<1> DEFINE Rec(f) == f = [i \in DOMAIN up |->
                            IF up[i] \notin DOMAIN up THEN <<>>
                            ELSE <<up[i]>> \o f[up[i]]]
<1>3. Rec(h)
  <2> HIDE DEF of
  <2>1. h = [i \in DOMAIN up |-> h[i]]
    OBVIOUS
  <2> HIDE DEF h
  <2> QED
    BY <1>2, <2>1
<1>4. Rec(CHOOSE f : Rec(f))
  <2> HIDE DEF Rec, h
  <2> QED
    BY <1>3
<1>5. Chain(up) = CHOOSE f : Rec(f)
  BY DEF Chain
<1> HIDE DEF h, of
<1>6. Rec(Chain(up))
  BY <1>4, <1>5
<1> HIDE DEF Rec
<1>7. Chain(up) = [i \in DOMAIN up |->
                      IF up[i] \notin DOMAIN up THEN <<>>
                      ELSE <<up[i]>> \o Chain(up)[up[i]]]
  BY <1>6 DEF Rec
<1> DEFINE c == Chain(up)
<1>8. c = [i \in DOMAIN up |-> IF up[i] \notin DOMAIN up THEN <<>> ELSE <<up[i]>> \o c[up[i]]]
  BY <1>7
<1> HIDE DEF c
<1>9. \A i \in DOMAIN up : ChainStep(up, c, i)
  BY <1>8 DEF ChainStep
<1> QED
  BY <1>9 DEF c

LEMMA ChainIsSequence ==
    ASSUME NEW up, Rooted(up)
    PROVE  \A i \in DOMAIN up : Chain(up)[i] \in Seq(DOMAIN up)
<1> DEFINE S == {i \in DOMAIN up : Chain(up)[i] \notin Seq(DOMAIN up)}
<1> SUFFICES ASSUME S # {}
             PROVE  FALSE
  OBVIOUS
<1>1. PICK i \in S : up[i] \notin S
  BY DEF Rooted
<1>2. ChainStep(up, Chain(up), i)
  BY ChainIsDefined
<1>3. CASE up[i] \notin DOMAIN up
  <2>1. Chain(up)[i] = <<>>
    BY <1>2, <1>3 DEF ChainStep
  <2>2. <<>> \in Seq(DOMAIN up)
    OBVIOUS
  <2> QED
    BY <2>1, <2>2
<1>4. CASE up[i] \in DOMAIN up
  <2>1. Chain(up)[up[i]] \in Seq(DOMAIN up)
    BY <1>1, <1>4
  <2>2. Chain(up)[i] = <<up[i]>> \o Chain(up)[up[i]]
    BY <1>2, <1>4 DEF ChainStep
  <2>3. <<up[i]>> \in Seq(DOMAIN up)
    BY <1>4
  <2> HIDE DEF S
  <2>4. Chain(up)[i] \in Seq(DOMAIN up)
    BY <2>1, <2>2, <2>3
  <2> QED
    BY <2>4 DEF S
<1> QED
  BY <1>3, <1>4

-----------------------------------------------------------------------------
(* Selections *)

LEMMA MinIsLeast ==
    ASSUME NEW S \in SUBSET Nat, S # {}
    PROVE  Min(S) \in S /\ \A x \in S : Min(S) <= x
<1> DEFINE below == OpToRel(<, Nat)
<1>1. IsWellFoundedOn(below, Nat)
  BY NatLessThanWellFounded
<1>2. below = {p \in Nat \X Nat : p[1] < p[2]}
  BY DEF OpToRel
<1> HIDE DEF below
<1>3. PICK x \in S : \A y \in S : <<y, x>> \notin below
  BY <1>1, WFMin
<1>4. ASSUME NEW y \in S, ~(x <= y)
      PROVE  FALSE
  <2>1. x \in Nat /\ y \in Nat /\ y < x
    BY <1>4
  <2>2. <<y, x>> \in below
    BY <1>2, <2>1
  <2> QED
    BY <1>3, <2>2
<1>5. \E y \in S : \A z \in S : y <= z
  BY <1>4
<1> QED
  BY <1>5 DEF Min

\* What SelectInSeq makes of the indices that pass its test.
FirstIndex(I) == IF I # {} THEN Min(I) ELSE 0

LEMMA FirstIndexIs ==
    ASSUME NEW m \in Nat, NEW I \in SUBSET (1 .. m)
    PROVE  /\ FirstIndex(I) \in 0 .. m
           /\ FirstIndex(I) = 0 <=> I = {}
           /\ FirstIndex(I) # 0 => FirstIndex(I) \in I
           /\ \A k \in I : FirstIndex(I) <= k
<1>1. CASE I # {}
  <2>1. Min(I) \in I /\ \A k \in I : Min(I) <= k
    <3>1. I \in SUBSET Nat
      OBVIOUS
    <3> QED
      BY <1>1, <3>1, MinIsLeast
  <2>2. FirstIndex(I) = Min(I)
    BY <1>1 DEF FirstIndex
  <2>3. FirstIndex(I) \in 1 .. m
    BY <2>1, <2>2
  <2> QED
    BY <1>1, <2>1, <2>2, <2>3
<1>2. CASE I = {}
  BY <1>2 DEF FirstIndex
<1> QED
  BY <1>1, <1>2

\* The members of a sequence are finitely many.
LEMMA SequenceIsFinite ==
    ASSUME NEW A, NEW s \in Seq(A)
    PROVE  IsFiniteSet(ToSet(s)) /\ ToSet(s) \subseteq A
<1> DEFINE D == 1 .. Len(s)
<1>1. D = DOMAIN s /\ IsFiniteSet(D)
  BY FS_Interval
<1>2. ToSet(s) = {s[k] : k \in D}
  BY <1>1 DEF ToSet
<1> DEFINE f == [k \in D |-> s[k]]
<1>3. f \in Surjection(D, ToSet(s))
  <2>1. f \in [D -> ToSet(s)]
    BY <1>2
  <2>2. \A x \in ToSet(s) : \E k \in D : f[k] = x
    BY <1>2
  <2> QED
    BY <2>1, <2>2 DEF Surjection
<1>4. IsFiniteSet(ToSet(s))
  <2> HIDE DEF f, D
  <2> QED
    BY <1>1, <1>3, FS_Surjection
<1> QED
  BY <1>1, <1>2, <1>4

-----------------------------------------------------------------------------
(* Scaling in: which instances are removed *)

\* The first n of a finite set: all of it, or n of it.
LEMMA FirstOfIsSubset ==
    ASSUME NEW S, IsFiniteSet(S), NEW n \in Nat, NEW T \in FirstOf(S, n)
    PROVE  /\ T \subseteq S /\ IsFiniteSet(T)
           /\ n < Cardinality(S) => Cardinality(T) = n
           /\ n >= Cardinality(S) => T = S
<1>1. Cardinality(S) \in Nat
  BY FS_CardinalityType
<1>2. /\ T \subseteq S
      /\ Cardinality(T) = IF n < Cardinality(S) THEN n ELSE Cardinality(S)
  BY DEF FirstOf, kSubset
<1>3. IsFiniteSet(T)
  BY <1>2, FS_Subset
<1>4. ASSUME n >= Cardinality(S) PROVE T = S
  BY <1>1, <1>2, <1>4, FS_Subset
<1> QED
  BY <1>1, <1>2, <1>3, <1>4

\* _handle_removed_instances takes as many instances as are too many, the ones
\* that include hints mean before any other, and the ones that exclude hints
\* mean only when it takes everything else.
THEOREM HintsDecide ==
    ASSUME NEW before, IsFiniteSet(before),
           NEW meant \in SUBSET before, NEW spared \in SUBSET before,
           NEW n \in Nat, n <= Cardinality(before),
           NEW R \in Removals(before, meant, spared, n)
    PROVE  /\ R \subseteq before /\ Cardinality(R) = n
           /\ meant \subseteq R \/ R \subseteq meant
           /\ \/ R \cap (spared \ meant) = {}
              \/ before \ (spared \ meant) \subseteq R
<1>1. PICK I \in FirstOf(meant, n) :
      R \in UNION {{I \cup J \cup K :
                       K \in FirstOf(before \ (I \cup J),
                                     n - Cardinality(I) - Cardinality(J))} :
                   J \in FirstOf((before \ I) \ spared, n - Cardinality(I))}
  BY DEF Removals
<1>2. PICK J \in FirstOf((before \ I) \ spared, n - Cardinality(I)) :
      R \in {I \cup J \cup K : K \in FirstOf(before \ (I \cup J),
                                         n - Cardinality(I) - Cardinality(J))}
  BY <1>1
<1>3. PICK K \in FirstOf(before \ (I \cup J), n - Cardinality(I) - Cardinality(J)) :
         R = I \cup J \cup K
  BY <1>2
<1>4. meant \subseteq before /\ IsFiniteSet(meant) /\ Cardinality(meant) \in Nat
  BY FS_Subset, FS_CardinalityType
<1>5. /\ I \subseteq meant /\ IsFiniteSet(I)
      /\ n < Cardinality(meant) => Cardinality(I) = n
      /\ n >= Cardinality(meant) => I = meant
  BY <1>4, FirstOfIsSubset
<1>6. Cardinality(I) \in Nat /\ Cardinality(I) <= n
  BY <1>4, <1>5
<1> DEFINE rest == (before \ I) \ spared
<1>7. IsFiniteSet(rest) /\ Cardinality(rest) \in Nat
  BY FS_Subset, FS_CardinalityType
<1> HIDE DEF rest
<1>8. /\ J \subseteq rest /\ IsFiniteSet(J)
      /\ n - Cardinality(I) < Cardinality(rest) =>
            Cardinality(J) = n - Cardinality(I)
      /\ n - Cardinality(I) >= Cardinality(rest) => J = rest
  <2>1. n - Cardinality(I) \in Nat
    BY <1>6
  <2>2. J \in FirstOf(rest, n - Cardinality(I))
    BY <1>2 DEF rest
  <2> QED
    BY <1>7, <2>1, <2>2, FirstOfIsSubset
<1>9. Cardinality(J) \in Nat /\ Cardinality(J) <= n - Cardinality(I)
  BY <1>6, <1>7, <1>8
<1>10. IsFiniteSet(I \cup J) /\ Cardinality(I \cup J) = Cardinality(I) + Cardinality(J)
  <2>1. I \cap J = {}
    BY <1>8 DEF rest
  <2>2. Cardinality(I \cap J) = 0
    BY <2>1, FS_EmptySet
  <2>3. /\ IsFiniteSet(I \cup J)
        /\ Cardinality(I \cup J)
             = Cardinality(I) + Cardinality(J) - Cardinality(I \cap J)
    BY <1>5, <1>8, FS_Union
  <2> QED
    BY <1>6, <1>9, <2>2, <2>3
<1> DEFINE left == before \ (I \cup J)
<1>11. IsFiniteSet(left)
       /\ Cardinality(left) = Cardinality(before) - Cardinality(I) - Cardinality(J)
  <2>1. I \cup J \subseteq before
    BY <1>4, <1>5, <1>8 DEF rest
  <2>2. before \cap (I \cup J) = I \cup J
    BY <2>1
  <2>3. Cardinality(left) = Cardinality(before) - Cardinality(before \cap (I \cup J))
    BY FS_Difference
  <2>4. Cardinality(before \cap (I \cup J)) = Cardinality(I) + Cardinality(J)
    BY <1>10, <2>2
  <2>5. IsFiniteSet(left)
    BY FS_Difference
  <2>6. Cardinality(before) \in Nat
    BY FS_CardinalityType
  <2> HIDE DEF left
  <2> QED
    BY <1>6, <1>9, <2>3, <2>4, <2>5, <2>6
<1>12. n - Cardinality(I) - Cardinality(J) \in Nat
       /\ n - Cardinality(I) - Cardinality(J) <= Cardinality(left)
  BY <1>6, <1>9, <1>11, FS_CardinalityType
<1> HIDE DEF left
<1>13. /\ K \subseteq left /\ IsFiniteSet(K)
       /\ Cardinality(K) = n - Cardinality(I) - Cardinality(J)
  <2>1. K \in FirstOf(left, n - Cardinality(I) - Cardinality(J))
    BY <1>3 DEF left
  <2> QED
    BY <1>11, <1>12, <2>1, FirstOfIsSubset, FS_CardinalityType
<1>14. R \subseteq before /\ Cardinality(R) = n
  <2>1. (I \cup J) \cap K = {}
    BY <1>13 DEF left
  <2>2. Cardinality((I \cup J) \cap K) = 0
    BY <2>1, FS_EmptySet
  <2>3. Cardinality((I \cup J) \cup K) = Cardinality(I \cup J) + Cardinality(K)
    <3>1. Cardinality((I \cup J) \cup K) =
             Cardinality(I \cup J) + Cardinality(K) - Cardinality((I \cup J) \cap K)
      BY <1>10, <1>13, FS_Union
    <3> QED
      BY <1>6, <1>9, <1>10, <1>12, <1>13, <2>2, <3>1
  <2>4. Cardinality((I \cup J) \cup K) = n
    BY <1>6, <1>9, <1>10, <1>13, <2>3
  <2> QED
    BY <1>3, <1>4, <1>5, <1>8, <1>13, <2>4 DEF left, rest
<1>15. CASE n < Cardinality(meant)
  <2>1. Cardinality(J) = 0 /\ Cardinality(K) = 0
    BY <1>5, <1>6, <1>9, <1>13, <1>15
  <2>2. J = {} /\ K = {}
    BY <1>8, <1>13, <2>1, FS_EmptySet
  <2>3. R \subseteq meant
    BY <1>3, <1>5, <2>2
  <2> QED
    BY <1>14, <2>3
<1>16. CASE n >= Cardinality(meant) /\ n - Cardinality(I) < Cardinality(rest)
  <2>1. K = {}
    <3>1. Cardinality(K) = 0
      BY <1>6, <1>8, <1>13, <1>16
    <3> QED
      BY <1>13, <3>1, FS_EmptySet
  <2>2. R = meant \cup J
    BY <1>3, <1>5, <1>16, <2>1
  <2>3. R \cap (spared \ meant) = {}
    BY <1>8, <2>2 DEF rest
  <2> QED
    BY <1>14, <2>2, <2>3
<1>17. CASE n >= Cardinality(meant) /\ n - Cardinality(I) >= Cardinality(rest)
  <2>1. I = meant /\ J = rest
    BY <1>5, <1>8, <1>17
  <2>2. meant \subseteq R /\ before \ (spared \ meant) \subseteq R
    BY <1>3, <2>1 DEF rest
  <2> QED
    BY <1>14, <2>2
<1> QED
  BY <1>4, <1>6, <1>7, <1>15, <1>16, <1>17

-----------------------------------------------------------------------------
(* The inductive invariant *)

InstanceOf(E) == [of : E, id : Nat]

StoreTyped ==
    /\ IsFiniteSet(DOMAIN instances)
    /\ DOMAIN instances \subseteq InstanceOf(Nodes)
    /\ \A i \in DOMAIN instances : instances[i].scaling_groups \in Seq(InstanceOf(Groups))
    /\ \A i \in DOMAIN instances :
          DOMAIN instances[i] = {"contained_in", "scaling_groups", "host_id"}
    /\ connections \subseteq (DOMAIN instances) \X (DOMAIN instances)
    /\ current \in [Elements -> Nat]

AskedTyped ==
    /\ DOMAIN modified \subseteq Elements
    /\ \A e \in DOMAIN modified : modified[e] \in Nat

\* What a modification took for the previous deployment is what is stored.
PreviousIsStored ==
    stage # "idle" =>
        /\ DOMAIN previous.up = DOMAIN instances \cup StoredGroups
        /\ \A j \in DOMAIN previous.up : previous.up[j] = PreviousUp(j)
        /\ \A i \in DOMAIN instances : previous.host[i] = instances[i].host_id
        /\ previous.edges = connections

\* p is a place where instances of e are built.
Place(e, p) ==
    /\ e \in Elements
    /\ IF Container[e] = Nothing THEN p = Nothing
       ELSE p \in DOMAIN tree /\ p.of = Container[e]

\* The new graph: each instance is in one that is there, and where it was.
TreeGrown ==
    /\ stage = "idle" => tree = <<>> /\ treated = {}
    /\ stage = "returning" => Untreated = {}
    /\ IsFiniteSet(DOMAIN tree)
    /\ DOMAIN tree \subseteq InstanceOf(Elements)
    /\ \A ep \in treated : ep = <<ep[1], ep[2]>> /\ Place(ep[1], ep[2])
    /\ \A i \in DOMAIN tree : <<i.of, tree[i].up>> \in treated
    /\ \A i \in DOMAIN tree \cap DOMAIN previous.up :
          /\ tree[i].up \in {Nothing, previous.up[i]}
          /\ tree[i].host_id = previous.host[i]

EdgesKnown ==
    stage = "returning" =>
        edges \subseteq {i \in DOMAIN tree : i.of \in Nodes}
                        \X ({i \in DOMAIN tree : i.of \in Nodes} \cup DOMAIN instances)

\* Of the instances of one container, the ones that hints mean went first or last.
Honoured(before, gone, first, spared) ==
    /\ first \subseteq gone \/ gone \subseteq first
    /\ gone \cap spared = {} \/ before \ spared \subseteq gone

HintsKept ==
    \A ep \in treated : ep[1] \in DOMAIN modified =>
        LET before == PreviousInstances(ep[1], ep[2])
        IN  Honoured(before, before \ DOMAIN tree, Hinted(include, before),
                     Hinted(exclude, before) \ Hinted(include, before))

ScalingInv ==
    /\ stage \in {"idle", "containing", "returning"}
    /\ StoreTyped /\ AskedTyped /\ PreviousIsStored
    /\ TreeGrown /\ EdgesKnown /\ HintsKept

-----------------------------------------------------------------------------
(* The graph that is built *)

LEMMA NothingIsNoInstance ==
    ASSUME NEW E \in SUBSET Elements
    PROVE  Nothing \notin InstanceOf(E)
BY PlanAssumption DEF InstanceOf

LEMMA UpsAreRooted ==
    ASSUME TreeGrown
    PROVE  Rooted(Ups)
<1>1. DOMAIN Ups = DOMAIN tree /\ \A i \in DOMAIN tree : Ups[i] = tree[i].up
  BY DEF Ups
<1> SUFFICES ASSUME NEW S \in SUBSET DOMAIN tree, S # {}
             PROVE  \E i \in S : Ups[i] \notin S
  BY <1>1 DEF Rooted
<1> DEFINE E == {i.of : i \in S}
<1>2. E \in SUBSET Elements /\ E # {}
  BY DEF TreeGrown, InstanceOf
<1>3. PICK e \in E : Container[e] \notin E
  <2> HIDE DEF E
  <2> QED
    BY <1>2, PlanAssumption
<1>4. PICK i \in S : i.of = e
  OBVIOUS
<1>5. Place(e, tree[i].up)
  BY <1>4 DEF TreeGrown
<1>6. Nothing \notin S
  BY NothingIsNoInstance DEF TreeGrown
<1>7. tree[i].up \notin S
  BY <1>3, <1>5, <1>6 DEF Place
<1> QED
  BY <1>1, <1>7

\* What is stored of an instance are the groups up to the first node.
LEMMA StoredGroupsAreSequence ==
    ASSUME TreeGrown, NEW i \in DOMAIN tree
    PROVE  Stored(i).scaling_groups \in Seq(InstanceOf(Groups))
<1> DEFINE c == Chain(Ups)[i]
           I == {k \in 1 .. Len(c) : c[k].of \in Nodes}
           n == FirstIndex(I)
<1>1. DOMAIN Ups = DOMAIN tree
  BY DEF Ups
<1>2. c \in Seq(InstanceOf(Elements)) /\ Len(c) \in Nat
  <2>1. c \in Seq(DOMAIN tree)
    BY <1>1, UpsAreRooted, ChainIsSequence
  <2> HIDE DEF c
  <2> QED
    BY <2>1 DEF TreeGrown
<1>3. SelectInSeq(c, LAMBDA j : j.of \in Nodes) = n
  BY DEF SelectInSeq, FirstIndex
<1>4. Stored(i).scaling_groups = IF n = 0 THEN c ELSE SubSeq(c, 1, n - 1)
  BY <1>3 DEF Stored
<1> HIDE DEF c
<1>5. n \in 0 .. Len(c) /\ (n = 0 => I = {}) /\ \A k \in I : n <= k
  <2> HIDE DEF n
  <2>1. I \in SUBSET (1 .. Len(c))
    OBVIOUS
  <2> HIDE DEF I
  <2> QED
    BY <1>2, <2>1, FirstIndexIs DEF n
<1> HIDE DEF n
<1>6. \A k \in 1 .. Len(c) : n = 0 \/ k < n => c[k] \in InstanceOf(Groups)
  <2> SUFFICES ASSUME NEW k \in 1 .. Len(c), n = 0 \/ k < n
               PROVE  c[k] \in InstanceOf(Groups)
    OBVIOUS
  <2>1. k \notin I
    BY <1>2, <1>5
  <2>2. c[k] \in InstanceOf(Elements)
    BY <1>2
  <2> QED
    BY <2>1, <2>2 DEF InstanceOf, Elements
<1>7. CASE n = 0
  BY <1>2, <1>4, <1>6, <1>7
<1>8. CASE n # 0
  <2>1. SubSeq(c, 1, n - 1) \in Seq(InstanceOf(Groups))
    BY <1>2, <1>5, <1>6, <1>8
  <2> QED
    BY <1>4, <1>8, <2>1
<1> QED
  BY <1>7, <1>8

LEMMA StoredGroupsFinite ==
    ASSUME StoreTyped
    PROVE  IsFiniteSet(StoredGroups) /\ StoredGroups \subseteq InstanceOf(Groups)
<1> DEFINE T == {ToSet(instances[i].scaling_groups) : i \in DOMAIN instances}
           f == [i \in DOMAIN instances |-> ToSet(instances[i].scaling_groups)]
<1>1. f \in Surjection(DOMAIN instances, T)
  BY DEF Surjection
<1>2. IsFiniteSet(T)
  <2> HIDE DEF f, T
  <2> QED
    BY <1>1, FS_Surjection DEF StoreTyped
<1>3. \A S \in T : IsFiniteSet(S) /\ S \subseteq InstanceOf(Groups)
  BY SequenceIsFinite DEF StoreTyped
<1>4. StoredGroups = UNION T
  BY DEF StoredGroups
<1> HIDE DEF T
<1> QED
  BY <1>2, <1>3, <1>4, FS_UNION

LEMMA FiniteImage ==
    ASSUME NEW S, IsFiniteSet(S), NEW f, DOMAIN f = S
    PROVE  IsFiniteSet({f[x] : x \in S})
<1> DEFINE T == {f[x] : x \in S}
           g == [x \in S |-> f[x]]
<1>1. g \in Surjection(S, T)
  BY DEF Surjection
<1> HIDE DEF g, T
<1>2. IsFiniteSet(T)
  BY <1>1, FS_Surjection
<1> QED
  BY <1>2 DEF T

\* A new instance has an id that no other of its node has, then or before.
LEMMA NewInstancesAreNew ==
    ASSUME TreeGrown, IsFiniteSet(DOMAIN previous.up),
           NEW e \in Elements, NEW n \in Nat
    PROVE  /\ IsFiniteSet(NewInstances(e, n))
           /\ NewInstances(e, n) \subseteq InstanceOf({e})
           /\ NewInstances(e, n) \cap (DOMAIN tree \cup DOMAIN previous.up) = {}
<1> DEFINE others == {j \in DOMAIN tree \cup DOMAIN previous.up : j.of = e}
           id     == [j \in others |-> j.id]
           used   == {i.id : i \in others}
           free   == (1 .. n + Cardinality(used)) \ used
           fresh  == {x \in free : Cardinality({y \in free : y < x}) < n}
           name   == [k \in fresh |-> Instance(e, k)]
<1>1. IsFiniteSet(others)
  <2>1. IsFiniteSet(DOMAIN tree \cup DOMAIN previous.up)
    BY FS_Union DEF TreeGrown
  <2> QED
    BY <2>1, FS_Subset
<1>2. IsFiniteSet(used)
  <2>1. DOMAIN id = others /\ used = {id[j] : j \in others}
    OBVIOUS
  <2> HIDE DEF others, id, used
  <2> QED
    BY <1>1, <2>1, FiniteImage
<1>3. Cardinality(used) \in Nat
  <2> HIDE DEF used
  <2> QED
    BY <1>2, FS_CardinalityType
<1>4. IsFiniteSet(1 .. n + Cardinality(used))
  <2> HIDE DEF used
  <2> QED
    BY <1>3, FS_Interval
<1>5. fresh \subseteq free /\ free \subseteq 1 .. n + Cardinality(used) /\ free \cap used = {}
  <2> HIDE DEF used
  <2> QED
    OBVIOUS
<1>6. IsFiniteSet(fresh) /\ fresh \subseteq Nat
  <2> HIDE DEF fresh, free, used
  <2>1. fresh \subseteq 1 .. n + Cardinality(used)
    BY <1>5
  <2>2. IsFiniteSet(fresh)
    BY <1>4, <2>1, FS_Subset
  <2>3. 1 .. n + Cardinality(used) \subseteq Nat
    BY <1>3
  <2> QED
    BY <2>1, <2>2, <2>3
<1>7. NewInstances(e, n) = {name[k] : k \in fresh}
  BY DEF NewInstances
<1>8. IsFiniteSet(NewInstances(e, n))
  <2>1. DOMAIN name = fresh
    OBVIOUS
  <2> HIDE DEF name, fresh
  <2>2. IsFiniteSet({name[k] : k \in fresh})
    BY <1>6, <2>1, FiniteImage
  <2> QED
    BY <1>7, <2>2
<1>9. ASSUME NEW i \in NewInstances(e, n)
      PROVE  /\ i \in InstanceOf({e})
             /\ i \notin DOMAIN tree \cup DOMAIN previous.up
  <2>1. PICK k \in fresh : i = Instance(e, k)
    <3> HIDE DEF fresh
    <3> QED
      BY <1>7, <1>9
  <2>2. i.of = e /\ i.id = k
    BY <2>1 DEF Instance
  <2>3. k \in Nat /\ k \notin used
    <3> HIDE DEF fresh, free, used
    <3> QED
      BY <1>5, <1>6
  <2>4. i \notin others
    <3> HIDE DEF others
    <3> QED
      BY <2>2, <2>3
  <2> QED
    <3> HIDE DEF fresh
    <3> QED
      BY <2>1, <2>2, <2>3, <2>4 DEF Instance, InstanceOf
<1> QED
  BY <1>8, <1>9

-----------------------------------------------------------------------------
(* BuildNodeInstances keeps the invariant *)

Total(e) == IF e \in DOMAIN modified THEN modified[e] ELSE current[e]
More(e, p) == Total(e) - Cardinality(PreviousInstances(e, p))
New(e, p) == NewInstances(e, IF More(e, p) > 0 THEN More(e, p) ELSE 0)

Removable(e, p) ==
    IF e \in DOMAIN modified /\ More(e, p) < 0
    THEN Removals(PreviousInstances(e, p), Hinted(include, PreviousInstances(e, p)),
                  Hinted(exclude, PreviousInstances(e, p)), -More(e, p))
    ELSE {{}}

\* The instances of e in p, in the graph so far.
Grown(e, p, removed) ==
    [i \in DOMAIN tree \cup (PreviousInstances(e, p) \ removed) \cup New(e, p) |->
        IF i \in DOMAIN tree THEN tree[i]
        ELSE [up |-> p, host_id |-> IF i \in PreviousInstances(e, p) THEN previous.host[i]
                                    ELSE HostOf(i, p)]]

Builds(e, p, removed) ==
    /\ <<e, p>> \in Untreated
    /\ removed \in Removable(e, p)
    /\ tree' = Grown(e, p, removed)
    /\ treated' = treated \cup {<<e, p>>}

LEMMA BuildEffect ==
    ASSUME BuildNodeInstances
    PROVE  /\ stage = "containing"
           /\ \E e, p, removed : Builds(e, p, removed)
           /\ UNCHANGED <<instances, connections, current, stage, modified, include,
                          exclude, previous, edges, modifications, revived>>
<1> DEFINE ep == CHOOSE x \in Untreated : TRUE
<1>1. ep \in Untreated
  BY DEF BuildNodeInstances
<1>2. ep = <<ep[1], ep[2]>>
  <2> HIDE DEF ep
  <2> QED
    BY <1>1 DEF Untreated
<1>3. \E removed \in Removable(ep[1], ep[2]) : tree' = Grown(ep[1], ep[2], removed)
  BY DEF BuildNodeInstances, Removable, Grown, New, More, Total
<1>4. treated' = treated \cup {ep}
  BY DEF BuildNodeInstances
<1>5. PICK removed \in Removable(ep[1], ep[2]) : tree' = Grown(ep[1], ep[2], removed)
  BY <1>3
<1> HIDE DEF ep
<1>6. Builds(ep[1], ep[2], removed)
  BY <1>1, <1>2, <1>4, <1>5 DEF Builds
<1> QED
  BY <1>6 DEF BuildNodeInstances

LEMMA PreviousIsFinite ==
    ASSUME StoreTyped, PreviousIsStored, stage # "idle"
    PROVE  /\ IsFiniteSet(DOMAIN previous.up)
           /\ DOMAIN previous.up \subseteq InstanceOf(Elements)
<1>1. IsFiniteSet(StoredGroups) /\ StoredGroups \subseteq InstanceOf(Groups)
  BY StoredGroupsFinite
<1>2. IsFiniteSet(DOMAIN instances \cup StoredGroups)
  BY <1>1, FS_Union DEF StoreTyped
<1>3. DOMAIN previous.up = DOMAIN instances \cup StoredGroups
  BY DEF PreviousIsStored
<1>4. InstanceOf(Nodes) \cup InstanceOf(Groups) \subseteq InstanceOf(Elements)
  BY DEF InstanceOf, Elements
<1> QED
  BY <1>1, <1>2, <1>3, <1>4 DEF StoreTyped

\* What a place is left with: as many instances as are too many go, the ones
\* that hints mean first or last.
LEMMA RemovableIs ==
    ASSUME ScalingInv, stage = "containing", NEW e \in Elements, NEW p,
           NEW removed \in Removable(e, p)
    PROVE  /\ removed \subseteq PreviousInstances(e, p)
           /\ LET before == PreviousInstances(e, p)
              IN  Honoured(before, removed, Hinted(include, before),
                           Hinted(exclude, before) \ Hinted(include, before))
           /\ IsFiniteSet(PreviousInstances(e, p))
           /\ More(e, p) \in Int
<1> DEFINE before == PreviousInstances(e, p)
           meant  == Hinted(include, before)
           spared == Hinted(exclude, before)
<1>1. IsFiniteSet(before) /\ Cardinality(before) \in Nat
  <2>1. IsFiniteSet(DOMAIN previous.up)
    BY PreviousIsFinite DEF ScalingInv
  <2>2. before \subseteq DOMAIN previous.up
    BY DEF PreviousInstances
  <2> HIDE DEF before
  <2> QED
    BY <2>1, <2>2, FS_Subset, FS_CardinalityType
<1>2. Total(e) \in Nat
  BY DEF Total, ScalingInv, AskedTyped, StoreTyped
<1>3. More(e, p) = Total(e) - Cardinality(before)
  BY DEF More
<1>4. meant \subseteq before /\ spared \subseteq before
  BY DEF Hinted
<1>5. CASE e \in DOMAIN modified /\ More(e, p) < 0
  <2>1. removed \in Removals(before, meant, spared, -More(e, p))
    BY <1>5 DEF Removable
  <2> HIDE DEF before, meant, spared
  <2>2. -More(e, p) \in Nat /\ -More(e, p) <= Cardinality(before)
    BY <1>1, <1>2, <1>3, <1>5
  <2>3. /\ removed \subseteq before
        /\ meant \subseteq removed \/ removed \subseteq meant
        /\ \/ removed \cap (spared \ meant) = {}
           \/ before \ (spared \ meant) \subseteq removed
    BY <1>1, <1>4, <2>1, <2>2, HintsDecide
  <2>4. Honoured(before, removed, meant, spared \ meant)
    BY <2>3 DEF Honoured
  <2> QED
    BY <1>1, <1>2, <1>3, <2>3, <2>4 DEF before, meant, spared
<1>6. CASE ~(e \in DOMAIN modified /\ More(e, p) < 0)
  <2>1. removed = {}
    BY <1>6 DEF Removable
  <2> HIDE DEF before, meant, spared
  <2>2. Honoured(before, removed, meant, spared \ meant)
    BY <2>1 DEF Honoured
  <2> QED
    BY <1>1, <1>2, <1>3, <2>1, <2>2 DEF before, meant, spared
<1> QED
  BY <1>5, <1>6

\* The previous instances of one place are not those of another.
LEMMA PlacesApart ==
    ASSUME TreeGrown, PreviousIsStored, StoreTyped, stage # "idle",
           NEW e, NEW p, Place(e, p), NEW i \in PreviousInstances(e, p),
           NEW q, Place(e, q), q \in {Nothing, previous.up[i]}
    PROVE  p = q
<1>1. Nothing \notin DOMAIN tree
  BY NothingIsNoInstance DEF TreeGrown
<1>2. p \in {Nothing, previous.up[i]}
  BY DEF PreviousInstances
<1> QED
  BY <1>1, <1>2 DEF Place

\* What is about to be built of a place is not there yet.
LEMMA NotYetBuilt ==
    ASSUME TreeGrown, PreviousIsStored, StoreTyped, stage # "idle",
           NEW e, NEW p, Place(e, p), <<e, p>> \notin treated
    PROVE  PreviousInstances(e, p) \cap DOMAIN tree = {}
<1> SUFFICES ASSUME NEW i \in PreviousInstances(e, p), i \in DOMAIN tree
             PROVE  FALSE
  OBVIOUS
<1>1. i.of = e /\ i \in DOMAIN previous.up
  BY DEF PreviousInstances
<1> DEFINE q == tree[i].up
<1>2. <<e, q>> \in treated /\ q \in {Nothing, previous.up[i]}
  BY <1>1 DEF TreeGrown
<1>3. Place(e, q)
  <2> HIDE DEF q
  <2> QED
    BY <1>2 DEF TreeGrown
<1> HIDE DEF q
<1>4. p = q
  BY <1>2, <1>3, PlacesApart
<1> QED
  BY <1>2, <1>4

\* What one step builds: the instances kept and new ones, none of which was
\* there.
Growth(e, p, removed) ==
    /\ Place(e, p) /\ <<e, p>> \notin treated
    /\ DOMAIN tree' = DOMAIN tree \cup (PreviousInstances(e, p) \ removed) \cup New(e, p)
    /\ \A i \in DOMAIN tree : tree'[i] = tree[i]
    /\ \A i \in DOMAIN tree' \ DOMAIN tree :
          /\ i \in InstanceOf({e}) /\ tree'[i].up = p
          /\ i \in DOMAIN previous.up =>
                /\ i \in PreviousInstances(e, p)
                /\ tree'[i].host_id = previous.host[i]
    /\ IsFiniteSet(New(e, p))
    /\ New(e, p) \cap (DOMAIN tree \cup DOMAIN previous.up) = {}
    /\ PreviousInstances(e, p) \cap DOMAIN tree = {}

LEMMA GrownIs ==
    ASSUME ScalingInv, stage = "containing", NEW e, NEW p, NEW removed,
           Builds(e, p, removed)
    PROVE  Growth(e, p, removed)
<1>1. Place(e, p) /\ <<e, p>> \notin treated
  BY DEF Builds, Untreated, Place
<1>2. e \in Elements
  BY <1>1 DEF Place
<1>3. More(e, p) \in Int
  BY <1>2, RemovableIs DEF Builds
<1>4. /\ IsFiniteSet(New(e, p))
      /\ New(e, p) \subseteq InstanceOf({e})
      /\ New(e, p) \cap (DOMAIN tree \cup DOMAIN previous.up) = {}
  <2>1. IsFiniteSet(DOMAIN previous.up)
    BY PreviousIsFinite DEF ScalingInv
  <2> DEFINE n == IF More(e, p) > 0 THEN More(e, p) ELSE 0
  <2>2. n \in Nat
    BY <1>3
  <2>3. New(e, p) = NewInstances(e, n)
    BY DEF New
  <2> HIDE DEF n
  <2> QED
    BY <1>2, <2>1, <2>2, <2>3, NewInstancesAreNew DEF ScalingInv
<1>5. PreviousInstances(e, p) \cap DOMAIN tree = {}
  BY <1>1, NotYetBuilt DEF ScalingInv
<1>6. DOMAIN tree' = DOMAIN tree \cup (PreviousInstances(e, p) \ removed) \cup New(e, p)
  BY DEF Builds, Grown
<1>7. \A i \in DOMAIN tree : tree'[i] = tree[i]
  BY DEF Builds, Grown
<1>8. ASSUME NEW i \in DOMAIN tree' \ DOMAIN tree
      PROVE  /\ i \in InstanceOf({e}) /\ tree'[i].up = p
             /\ i \in DOMAIN previous.up =>
                   /\ i \in PreviousInstances(e, p)
                   /\ tree'[i].host_id = previous.host[i]
  <2>1. tree'[i] = [up |-> p, host_id |-> IF i \in PreviousInstances(e, p)
                                          THEN previous.host[i] ELSE HostOf(i, p)]
    BY <1>6 DEF Builds, Grown
  <2>2. i \in PreviousInstances(e, p) \/ i \in New(e, p)
    BY <1>6
  <2>3. i \in PreviousInstances(e, p) => i \in InstanceOf({e})
    <3>1. DOMAIN previous.up \subseteq InstanceOf(Elements)
      BY PreviousIsFinite DEF ScalingInv
    <3> QED
      BY <3>1 DEF PreviousInstances, InstanceOf
  <2> QED
    BY <1>4, <2>1, <2>2, <2>3
<1> QED
  BY <1>1, <1>4, <1>5, <1>6, <1>7, <1>8 DEF Growth

LEMMA BuildKeepsTree ==
    ASSUME ScalingInv, stage = "containing", stage' = stage, previous' = previous,
           NEW e, NEW p, NEW removed, Builds(e, p, removed)
    PROVE  TreeGrown'
<1>0. Growth(e, p, removed)
  BY GrownIs
<1>1. /\ Place(e, p)
      /\ DOMAIN tree' = DOMAIN tree \cup (PreviousInstances(e, p) \ removed)
                                    \cup New(e, p)
      /\ \A i \in DOMAIN tree : tree'[i] = tree[i]
  BY <1>0 DEF Growth
<1>2. \A i \in DOMAIN tree' \ DOMAIN tree :
          /\ i \in InstanceOf({e}) /\ tree'[i].up = p
          /\ i \in DOMAIN previous.up =>
                /\ i \in PreviousInstances(e, p)
                /\ tree'[i].host_id = previous.host[i]
  BY <1>0 DEF Growth
<1>3. IsFiniteSet(DOMAIN tree')
  <2>1. IsFiniteSet(New(e, p)) /\ IsFiniteSet(DOMAIN tree)
    BY <1>0 DEF Growth, ScalingInv, TreeGrown
  <2>2. IsFiniteSet(PreviousInstances(e, p) \ removed)
    <3>1. IsFiniteSet(PreviousInstances(e, p))
      BY RemovableIs, <1>1 DEF Builds, Place
    <3> QED
      BY <3>1, FS_Difference
  <2>3. IsFiniteSet(DOMAIN tree \cup (PreviousInstances(e, p) \ removed))
    BY <2>1, <2>2, FS_Union
  <2> QED
    BY <1>1, <2>1, <2>3, FS_Union
<1>4. treated' = treated \cup {<<e, p>>}
  BY DEF Builds
<1>5. DOMAIN tree' \subseteq InstanceOf(Elements)
  BY <1>1, <1>2 DEF ScalingInv, TreeGrown, InstanceOf, Place
<1>6. ASSUME NEW f, NEW q, Place(f, q)
      PROVE  Place(f, q)'
  BY <1>1, <1>6 DEF Place
<1>7. \A ep \in treated' : ep = <<ep[1], ep[2]>> /\ Place(ep[1], ep[2])'
  <2> SUFFICES ASSUME NEW ep \in treated'
               PROVE  ep = <<ep[1], ep[2]>> /\ Place(ep[1], ep[2])'
    OBVIOUS
  <2>1. CASE ep \in treated
    <3>1. ep = <<ep[1], ep[2]>> /\ Place(ep[1], ep[2])
      BY <2>1 DEF ScalingInv, TreeGrown
    <3> QED
      BY <1>6, <3>1
  <2>2. CASE ep = <<e, p>>
    BY <1>1, <1>6, <2>2
  <2> QED
    BY <1>4, <2>1, <2>2
<1>8. ASSUME NEW i \in DOMAIN tree'
      PROVE  <<i.of, tree'[i].up>> \in treated'
  <2>1. CASE i \in DOMAIN tree
    BY <1>1, <1>4, <2>1 DEF ScalingInv, TreeGrown
  <2>2. CASE i \notin DOMAIN tree
    BY <1>2, <1>4, <2>2 DEF InstanceOf
  <2> QED
    BY <2>1, <2>2
<1>9. ASSUME NEW i \in DOMAIN tree' \cap DOMAIN previous.up
      PROVE  /\ tree'[i].up \in {Nothing, previous.up[i]}
             /\ tree'[i].host_id = previous.host[i]
  <2>1. CASE i \in DOMAIN tree
    BY <1>1, <2>1 DEF ScalingInv, TreeGrown
  <2>2. CASE i \notin DOMAIN tree
    BY <1>2, <2>2 DEF PreviousInstances
  <2> QED
    BY <2>1, <2>2
<1> QED
  BY <1>3, <1>5, <1>7, <1>8, <1>9 DEF TreeGrown

LEMMA BuildKeepsHints ==
    ASSUME ScalingInv, stage = "containing", stage' = stage,
           UNCHANGED <<instances, modified, include, exclude, previous>>,
           NEW e, NEW p, NEW removed, Builds(e, p, removed)
    PROVE  HintsKept'
<1> DEFINE Kept(before) == Honoured(before, before \ DOMAIN tree, Hinted(include, before),
                                    Hinted(exclude, before) \ Hinted(include, before))
<1>0. Growth(e, p, removed)
  BY GrownIs
<1>1. /\ Place(e, p) /\ <<e, p>> \notin treated
      /\ DOMAIN tree' = DOMAIN tree \cup (PreviousInstances(e, p) \ removed)
                                    \cup New(e, p)
      /\ New(e, p) \cap (DOMAIN tree \cup DOMAIN previous.up) = {}
      /\ PreviousInstances(e, p) \cap DOMAIN tree = {}
  BY <1>0 DEF Growth
<1>2. treated' = treated \cup {<<e, p>>} /\ removed \in Removable(e, p)
  BY DEF Builds
<1>3. \A f, q : PreviousInstances(f, q)' = PreviousInstances(f, q)
  BY DEF PreviousInstances
<1>4. \A h, S : Hinted(h, S)' = Hinted(h, S)
  BY DEF Hinted, MembersOf
<1>5. \A f, q : PreviousInstances(f, q) \subseteq DOMAIN previous.up
  BY DEF PreviousInstances
<1> SUFFICES ASSUME NEW ep \in treated', ep[1] \in DOMAIN modified
             PROVE  Kept(PreviousInstances(ep[1], ep[2]))'
  BY DEF HintsKept
<1> DEFINE before == PreviousInstances(ep[1], ep[2])
<1>6. ASSUME Honoured(before, before \ DOMAIN tree', Hinted(include, before),
                      Hinted(exclude, before) \ Hinted(include, before))
      PROVE  Kept(PreviousInstances(ep[1], ep[2]))'
  BY <1>3, <1>4, <1>6 DEF Honoured, Hinted, MembersOf, PreviousInstances
<1>7. CASE ep = <<e, p>>
  <2>1. removed \subseteq before /\ Honoured(before, removed, Hinted(include, before),
                     Hinted(exclude, before) \ Hinted(include, before))
    BY <1>1, <1>2, <1>7, RemovableIs DEF Place
  <2>2. before \ DOMAIN tree' = removed
    BY <1>1, <1>5, <1>7, <2>1
  <2> QED
    BY <1>6, <2>1, <2>2
<1>8. CASE ep # <<e, p>>
  <2>1. ep \in treated /\ ep = <<ep[1], ep[2]>> /\ Place(ep[1], ep[2])
    BY <1>2, <1>8 DEF ScalingInv, TreeGrown
  <2>2. before \cap (PreviousInstances(e, p) \ removed) = {}
    <3> SUFFICES ASSUME NEW i \in before, i \in PreviousInstances(e, p)
                 PROVE  FALSE
      OBVIOUS
    <3>1. ep[1] = e /\ ep[2] \in {Nothing, previous.up[i]}
      BY DEF PreviousInstances
    <3>2. p = ep[2]
      BY <1>1, <2>1, <3>1, PlacesApart DEF ScalingInv
    <3> QED
      BY <1>8, <2>1, <3>1, <3>2
  <2>3. before \ DOMAIN tree' = before \ DOMAIN tree
    BY <1>1, <1>5, <2>2
  <2>4. Kept(before)
    BY <2>1 DEF ScalingInv, HintsKept
  <2> QED
    BY <1>6, <2>3, <2>4
<1> QED
  BY <1>7, <1>8

\* What the instances in j have next to j, of which PreviousUp takes one.
IndexOf(s, j) == SelectInSeq(s, LAMBDA x : x = j)

Nexts(j) ==
    {Enclosure(i)[IndexOf(Enclosure(i), j) + 1] :
        i \in {k \in IF j.of \in Groups THEN MembersOf(j) ELSE {j} : Last(Enclosure(k)) # j}}

OneOf(S) == IF S = {} THEN Nothing ELSE CHOOSE x \in S : TRUE

LEMMA PreviousUpIs ==
    ASSUME NEW j
    PROVE  PreviousUp(j) = OneOf(Nexts(j))
BY DEF PreviousUp, Nexts, OneOf, IndexOf

\* What only reads the stored instances is as it was while they are.
LEMMA SameStore ==
    ASSUME UNCHANGED instances
    PROVE  StoredGroups' = StoredGroups /\ \A j : PreviousUp(j)' = PreviousUp(j)
<1>1. StoredGroups' = StoredGroups
  BY DEF StoredGroups
<1>2. \A i : Enclosure(i)' = Enclosure(i) /\ MembersOf(i)' = MembersOf(i)
  BY DEF Enclosure, MembersOf
<1>3. ASSUME NEW j
      PROVE  PreviousUp(j)' = PreviousUp(j)
  <2>1. Nexts(j)' = Nexts(j)
    BY <1>2 DEF Nexts
  <2>2. PreviousUp(j)' = OneOf(Nexts(j)')
    BY DEF PreviousUp, Nexts, OneOf, IndexOf
  <2> QED
    BY <2>1, <2>2, PreviousUpIs
<1> QED
  BY <1>1, <1>3

LEMMA StoreTypedKept ==
    ASSUME StoreTyped, UNCHANGED <<instances, connections, current>>
    PROVE  StoreTyped'
BY DEF StoreTyped

LEMMA PreviousIsStoredKept ==
    ASSUME PreviousIsStored, stage # "idle",
           UNCHANGED <<instances, connections, previous>>
    PROVE  PreviousIsStored'
BY SameStore DEF PreviousIsStored

LEMMA BuildingKeeps ==
    ASSUME ScalingInv, BuildNodeInstances
    PROVE  ScalingInv'
<1>1. /\ stage = "containing"
      /\ \E e, p, removed : Builds(e, p, removed)
      /\ UNCHANGED <<instances, connections, current, stage, modified, include,
                     exclude, previous, edges, modifications, revived>>
  BY BuildEffect
<1>2. PICK e, p, removed : Builds(e, p, removed)
  BY <1>1
<1>3. TreeGrown'
  BY <1>1, <1>2, BuildKeepsTree
<1>4. HintsKept'
  BY <1>1, <1>2, BuildKeepsHints
<1>5. StoreTyped' /\ PreviousIsStored'
  BY <1>1, StoreTypedKept, PreviousIsStoredKept DEF ScalingInv
<1>6. AskedTyped' /\ EdgesKnown'
  BY <1>1 DEF ScalingInv, AskedTyped, EdgesKnown
<1>7. stage' \in {"idle", "containing", "returning"}
  BY <1>1
<1> QED
  BY <1>3, <1>4, <1>5, <1>6, <1>7 DEF ScalingInv

-----------------------------------------------------------------------------
(* The other steps keep it *)

LEMMA StartKeeps ==
    ASSUME ScalingInv, NEW totals, StartModification(totals),
           DOMAIN totals \subseteq Elements, \A e \in DOMAIN totals : totals[e] \in Nat
    PROVE  ScalingInv'
<1>1. /\ stage = "idle" /\ stage' = "containing"
      /\ modified' = totals /\ tree' = <<>> /\ treated' = {}
      /\ UNCHANGED <<instances, connections, current>>
  BY DEF StartModification
<1>2. PICK groupHost : previous' = PreviousGraph(groupHost)
  BY DEF StartModification
<1>3. StoreTyped'
  BY <1>1, StoreTypedKept DEF ScalingInv
<1>4. PreviousIsStored'
  <2>1. \A i \in DOMAIN instances : i \notin StoredGroups
    <3>1. StoredGroups \subseteq InstanceOf(Groups) /\ DOMAIN instances \subseteq InstanceOf(Nodes)
      BY StoredGroupsFinite DEF ScalingInv, StoreTyped
    <3>2. Nodes \cap Groups = {}
      BY PlanAssumption
    <3> QED
      BY <3>1, <3>2 DEF InstanceOf
  <2>2. /\ previous'.up = [j \in DOMAIN instances \cup StoredGroups |-> PreviousUp(j)]
        /\ previous'.edges = connections
        /\ \A i \in DOMAIN instances : previous'.host[i] = instances[i].host_id
    BY <1>2, <2>1 DEF PreviousGraph
  <2> QED
    BY <1>1, <2>2, SameStore DEF PreviousIsStored
<1>5. DOMAIN tree' = {}
  BY <1>1
<1>6. TreeGrown'
  BY <1>1, <1>5, FS_EmptySet DEF TreeGrown
<1>7. HintsKept' /\ EdgesKnown' /\ AskedTyped'
  BY <1>1 DEF HintsKept, EdgesKnown, AskedTyped
<1> QED
  BY <1>1, <1>3, <1>4, <1>6, <1>7 DEF ScalingInv

LEMMA ConnectEdges ==
    ASSUME ScalingInv, Connect
    PROVE  EdgesKnown'
<1> DEFINE N == {i \in DOMAIN tree : i.of \in Nodes}
           sources == N
           targets == N \cup DOMAIN instances
<1>1. stage = "containing" /\ UNCHANGED <<instances, tree>>
  BY DEF Connect
<1>2. \A s \in Nodes : Built(s) \subseteq N
  BY DEF Built
<1>3. \A s, t, T : Partition(s, t, T) \subseteq Built(s) \X T
  BY DEF Partition
<1>4. \A s, t \in Nodes : TargetsFor(s, t) \subseteq targets
  <2>1. previous.edges \subseteq (DOMAIN instances) \X (DOMAIN instances)
    BY <1>1 DEF ScalingInv, StoreTyped, PreviousIsStored
  <2> SUFFICES ASSUME NEW s \in Nodes, NEW t \in Nodes, NEW x \in TargetsFor(s, t)
               PROVE  x \in targets
    OBVIOUS
  <2> DEFINE before == {c[2] : c \in {d \in previous.edges : d[1].of = s /\ d[2].of = t}}
  <2>2. x \in IF before # {} THEN before ELSE Built(t)
    BY DEF TargetsFor
  <2>3. ASSUME NEW y \in before
        PROVE  y \in DOMAIN instances
    <3>1. \E z : z \in previous.edges /\ y = z[2]
      OBVIOUS
    <3>2. PICK z : z \in previous.edges /\ y = z[2]
      BY <3>1
    <3> QED
      BY <2>1, <3>2
  <2> HIDE DEF before
  <2> QED
    BY <1>2, <2>2, <2>3
<1>5. \A c \in AllToAll \cup AllToOne : c[1] \in Nodes /\ c[2] \in Nodes
  BY PlanAssumption
<1>6. PICK one : /\ \A c \in AllToOne :
                       IF Built(c[1]) = {} \/ Built(c[2]) = {} THEN one[c] = Nothing
                       ELSE one[c] \in TargetsFor(c[1], c[2])
                 /\ edges' = UNION ({Partition(c[1], c[2], Built(c[2])) : c \in AllToAll}
                                    \cup {Partition(c[1], c[2], {one[c]} \ {Nothing}) :
                                              c \in AllToOne})
  BY DEF Connect
<1>7. ASSUME NEW c \in AllToAll
      PROVE  Partition(c[1], c[2], Built(c[2])) \subseteq sources \X targets
  BY <1>2, <1>3, <1>5
<1>8. ASSUME NEW c \in AllToOne
      PROVE  Partition(c[1], c[2], {one[c]} \ {Nothing}) \subseteq sources \X targets
  <2>1. {one[c]} \ {Nothing} \subseteq targets
    BY <1>4, <1>5, <1>6
  <2> QED
    BY <1>2, <1>3, <1>5, <2>1
<1> DEFINE A == {Partition(c[1], c[2], Built(c[2])) : c \in AllToAll}
           B == {Partition(c[1], c[2], {one[c]} \ {Nothing}) : c \in AllToOne}
<1>9. edges' = UNION (A \cup B)
  BY <1>6
<1>10. \A P \in A \cup B : P \subseteq sources \X targets
  BY <1>7, <1>8
<1>11. edges' \subseteq sources \X targets
  <2> HIDE DEF A, B, sources, targets
  <2> QED
    BY <1>9, <1>10
<1> QED
  BY <1>1, <1>11 DEF EdgesKnown

LEMMA ConnectKeeps ==
    ASSUME ScalingInv, Connect
    PROVE  ScalingInv'
<1>1. /\ stage = "containing" /\ Untreated = {} /\ stage' = "returning"
      /\ UNCHANGED <<instances, connections, current, modified, include, exclude,
                     previous, tree, treated, modifications, revived>>
  BY DEF Connect
<1>2. StoreTyped' /\ PreviousIsStored' /\ AskedTyped'
  BY <1>1, StoreTypedKept, PreviousIsStoredKept DEF ScalingInv, AskedTyped
<1>3. TreeGrown'
  BY <1>1 DEF ScalingInv, TreeGrown, Untreated, Place
<1>4. HintsKept'
  BY <1>1 DEF ScalingInv, HintsKept, PreviousInstances, Hinted, MembersOf
<1> QED
  BY <1>1, <1>2, <1>3, <1>4, ConnectEdges DEF ScalingInv

\* Of the modification nothing is left.
LEMMA IdleKeeps ==
    ASSUME StoreTyped', stage' = "idle", modified' = <<>>,
           tree' = <<>>, treated' = {}
    PROVE  ScalingInv'
<1>1. DOMAIN tree' = {} /\ DOMAIN modified' = {}
  OBVIOUS
<1> QED
  BY <1>1, FS_EmptySet
  DEF ScalingInv, AskedTyped, PreviousIsStored, TreeGrown, EdgesKnown, HintsKept

LEMMA RaiseKeeps ==
    ASSUME ScalingInv, Raise
    PROVE  ScalingInv'
<1>1. StoreTyped'
  BY StoreTypedKept DEF Raise, ScalingInv
<1> QED
  BY <1>1, IdleKeeps DEF Raise

\* What is stored of a difference: nodes only, and connections between them.
LEMMA ReturnStores ==
    ASSUME ScalingInv, Return
    PROVE  /\ Added \subseteq {i \in DOMAIN tree : i.of \in Nodes}
           /\ DOMAIN instances' = (DOMAIN instances \ Removed) \cup Added
           /\ connections' \subseteq (DOMAIN instances') \X (DOMAIN instances')
<1> DEFINE N == {i \in DOMAIN tree : i.of \in Nodes}
<1>1. stage = "returning" /\ ~KeyError
  BY DEF Return
<1>2. edges \subseteq N \X (N \cup DOMAIN instances)
  BY <1>1 DEF ScalingInv, EdgesKnown
<1>3. DOMAIN instances \subseteq DOMAIN previous.up /\ previous.edges = connections
  BY <1>1 DEF ScalingInv, PreviousIsStored
<1>4. \A i \in DOMAIN instances : i.of \in Nodes
  BY DEF ScalingInv, StoreTyped, InstanceOf
<1>5. connections \subseteq (DOMAIN instances) \X (DOMAIN instances)
  BY DEF ScalingInv, StoreTyped
<1>6. ASSUME NEW c \in edges
      PROVE  /\ c[1] \in NewGraphNodes /\ c[2] \in NewGraphNodes
             /\ c[1] \in N /\ c[2] \in N \cup DOMAIN instances
             /\ c = <<c[1], c[2]>>
  BY <1>2 DEF NewGraphNodes
<1>7. Added \subseteq N
  <2> SUFFICES ASSUME NEW i \in Added
               PROVE  i \in N
    OBVIOUS
  <2>1. i \in NewGraphNodes /\ i \notin DOMAIN previous.up /\ i.of \in Nodes
    BY DEF Added
  <2>2. CASE i \in DOMAIN tree
    BY <2>1, <2>2
  <2>3. CASE i \notin DOMAIN tree
    <3>1. \E c : c \in edges /\ i = c[2]
      BY <2>1, <2>3 DEF NewGraphNodes
    <3>2. PICK c : c \in edges /\ i = c[2]
      BY <3>1
    <3>3. c[2] \in N \cup DOMAIN instances
      BY <1>6, <3>2
    <3> QED
      BY <1>3, <2>1, <3>2, <3>3
  <2> QED
    BY <2>2, <2>3
<1>8. DOMAIN instances' = (DOMAIN instances \ Removed) \cup Added
  BY DEF Return
\* What is in the new graph is stored, if it is of a node.
<1>9. ASSUME NEW i \in NewGraphNodes, i \in N \cup DOMAIN instances
      PROVE  i \in DOMAIN instances'
  <2>1. i.of \in Nodes
    BY <1>4, <1>9
  <2>2. CASE i \in DOMAIN previous.up
    <3>1. i \in DOMAIN instances
      <4>1. i \notin StoredGroups
        BY <2>1, StoredGroupsFinite, PlanAssumption DEF ScalingInv, InstanceOf
      <4>2. DOMAIN previous.up = DOMAIN instances \cup StoredGroups
        BY <1>1 DEF ScalingInv, PreviousIsStored
      <4> QED
        BY <2>2, <4>1, <4>2
    <3>2. i \notin Removed
      BY DEF Removed
    <3> QED
      BY <1>8, <3>1, <3>2
  <2>3. CASE i \notin DOMAIN previous.up
    BY <1>8, <2>1, <2>3 DEF Added
  <2> QED
    BY <2>2, <2>3
<1>10. ASSUME NEW c \in connections'
       PROVE  c = <<c[1], c[2]>> /\ c[1] \in DOMAIN instances' /\ c[2] \in DOMAIN instances'
  <2>1. \/ c \in (connections \ Reduced) \cup Extended /\ c[1] \notin Removed
        \/ c \in edges /\ c[1] \in Added
    BY DEF Return
  <2>2. CASE c \in edges
    BY <1>6, <1>9, <2>2
  <2>3. CASE c \notin edges
    <3>1. c \in connections /\ c \notin Reduced /\ c[1] \notin Removed
      BY <2>1, <2>3 DEF Extended
    <3>2. c[1] \in DOMAIN instances
      BY <1>5, <3>1
    <3>3. c[1] \in NewGraphNodes
      BY <1>3, <3>1, <3>2 DEF Removed
    <3> QED
      BY <1>3, <2>3, <3>1, <3>3 DEF Reduced
  <2> QED
    BY <2>2, <2>3
<1>11. connections' \subseteq (DOMAIN instances') \X (DOMAIN instances')
  BY <1>10
<1> QED
  BY <1>7, <1>8, <1>11

LEMMA ReturnKeeps ==
    ASSUME ScalingInv, Return
    PROVE  ScalingInv'
<1>1. /\ Added \subseteq {i \in DOMAIN tree : i.of \in Nodes}
      /\ DOMAIN instances' = (DOMAIN instances \ Removed) \cup Added
      /\ connections' \subseteq (DOMAIN instances') \X (DOMAIN instances')
  BY ReturnStores
<1>2. IsFiniteSet(DOMAIN instances')
  <2>1. IsFiniteSet(DOMAIN tree) /\ IsFiniteSet(DOMAIN instances)
    BY DEF ScalingInv, TreeGrown, StoreTyped
  <2>2. IsFiniteSet(Added)
    BY <1>1, <2>1, FS_Subset
  <2>3. IsFiniteSet(DOMAIN instances \ Removed)
    BY <2>1, FS_Subset
  <2> QED
    BY <1>1, <2>2, <2>3, FS_Union
<1>3. DOMAIN instances' \subseteq InstanceOf(Nodes)
  BY <1>1 DEF ScalingInv, StoreTyped, TreeGrown, InstanceOf
<1>4. ASSUME NEW i \in DOMAIN instances'
      PROVE  /\ instances'[i].scaling_groups \in Seq(InstanceOf(Groups))
             /\ DOMAIN instances'[i] = {"contained_in", "scaling_groups", "host_id"}
  <2>1. CASE i \in Added
    <3>1. i \in DOMAIN tree
      BY <1>1, <2>1
    <3>2. Stored(i).scaling_groups \in Seq(InstanceOf(Groups))
      BY <3>1, StoredGroupsAreSequence DEF ScalingInv
    <3>3. instances'[i] = Stored(i)
      BY <1>4, <2>1 DEF Return
    <3>4. DOMAIN Stored(i) = {"contained_in", "scaling_groups", "host_id"}
      BY DEF Stored
    <3> QED
      BY <3>2, <3>3, <3>4
  <2>2. CASE i \notin Added
    <3>1. i \in DOMAIN instances
      BY <1>1, <1>4, <2>2
    <3>2. /\ instances[i].scaling_groups \in Seq(InstanceOf(Groups))
          /\ DOMAIN instances[i] = {"contained_in", "scaling_groups", "host_id"}
      BY <3>1 DEF ScalingInv, StoreTyped
    <3>3. \/ instances'[i] = instances[i]
          \/ instances'[i] = [instances[i] EXCEPT !.contained_in = Nothing]
      BY <1>4, <2>2 DEF Return
    <3> QED
      BY <3>2, <3>3
  <2> QED
    BY <2>1, <2>2
<1>5. current' \in [Elements -> Nat]
  BY DEF Return, ScalingInv, AskedTyped, StoreTyped
<1>6. StoreTyped'
  BY <1>1, <1>2, <1>3, <1>4, <1>5 DEF StoreTyped
<1> QED
  BY <1>6, IdleKeeps DEF Return

LEMMA InitHolds ==
    ASSUME DeploymentInit
    PROVE  ScalingInv
<1>1. /\ DOMAIN instances = {} /\ DOMAIN modified = {} /\ DOMAIN tree = {}
      /\ StoredGroups = {} /\ DOMAIN previous.up = {}
      /\ previous.edges = connections /\ connections = {} /\ treated = {}
      /\ stage = "containing"
  BY DEF DeploymentInit, NoDeployment, StoredGroups
<1>2. current \in [Elements -> Nat]
  BY PlanAssumption DEF DeploymentInit
<1>3. StoreTyped /\ AskedTyped /\ PreviousIsStored
  BY <1>1, <1>2, FS_EmptySet DEF StoreTyped, AskedTyped, PreviousIsStored
<1>4. TreeGrown /\ EdgesKnown /\ HintsKept
  BY <1>1, FS_EmptySet DEF TreeGrown, EdgesKnown, HintsKept
<1> QED
  BY <1>1, <1>3, <1>4 DEF ScalingInv

LEMMA StutteringKeeps ==
    ASSUME ScalingInv, UNCHANGED <<instances, connections, current, stage, modified,
                                   include, exclude, previous, tree, treated, edges>>
    PROVE  ScalingInv'
<1>1. StoredGroups' = StoredGroups /\ Untreated' = Untreated
      /\ (\A j : PreviousUp(j)' = PreviousUp(j))
  BY SameStore DEF Untreated
<1>2. StoreTyped' /\ AskedTyped'
  BY DEF ScalingInv, StoreTyped, AskedTyped
<1>3. PreviousIsStored'
  BY <1>1 DEF ScalingInv, PreviousIsStored
<1>4. TreeGrown' /\ EdgesKnown'
  BY <1>1 DEF ScalingInv, TreeGrown, EdgesKnown, Place
<1>5. HintsKept'
  BY DEF ScalingInv, HintsKept, PreviousInstances, Hinted, MembersOf
<1> QED
  BY <1>2, <1>3, <1>4, <1>5 DEF ScalingInv

\* The invariant holds of every reachable state.
THEOREM ScalingHolds == DeploymentSpec => []ScalingInv
<1>1. DeploymentInit => ScalingInv
  BY InitHolds
<1>2. ScalingInv /\ [DeploymentNext]_deploymentVars => ScalingInv'
  <2> SUFFICES ASSUME ScalingInv, [DeploymentNext]_deploymentVars
               PROVE  ScalingInv'
    OBVIOUS
  <2>1. ASSUME NEW e \in Elements, NEW delta \in -MaxInstances .. MaxInstances,
               ScaleEntity(e, delta)
        PROVE  ScalingInv'
    <3> DEFINE totals == [x \in {e} |-> current[e] + delta]
    <3>1. DOMAIN totals \subseteq Elements
      OBVIOUS
    <3>2. \A x \in DOMAIN totals : totals[x] \in Nat
      BY <2>1, PlanAssumption DEF ScaleEntity
    <3>3. StartModification(totals)
      BY <2>1 DEF ScaleEntity
    <3> HIDE DEF totals
    <3> QED
      BY <3>1, <3>2, <3>3, StartKeeps
  <2>2. ASSUME NEW S \in Together, NEW totals \in [S -> 0 .. MaxInstances],
               ModifyTogether(totals)
        PROVE  ScalingInv'
    <3>1. DOMAIN totals \subseteq Elements
      BY PlanAssumption
    <3>2. \A x \in DOMAIN totals : totals[x] \in Nat
      BY PlanAssumption
    <3>3. StartModification(totals)
      BY <2>2 DEF ModifyTogether
    <3> QED
      BY <3>1, <3>2, <3>3, StartKeeps
  <2>3. CASE BuildNodeInstances
    BY <2>3, BuildingKeeps
  <2>4. CASE Connect
    BY <2>4, ConnectKeeps
  <2>5. CASE Return
    BY <2>5, ReturnKeeps
  <2>6. CASE Raise
    BY <2>6, RaiseKeeps
  <2>7. CASE UNCHANGED deploymentVars
    BY <2>7, StutteringKeeps DEF deploymentVars
  <2> QED
    BY <2>1, <2>2, <2>3, <2>4, <2>5, <2>6, <2>7 DEF DeploymentNext
<1> QED
  BY <1>1, <1>2, PTL DEF DeploymentSpec

-----------------------------------------------------------------------------
(* The hints *)

\* What the property calls by the store is what the code works out of the graphs.
LEMMA SameInstances ==
    ASSUME PreviousIsStored, stage # "idle", NEW e, NEW p
    PROVE  InContainer(e, p) = PreviousInstances(e, p)
<1>1. DOMAIN previous.up = DOMAIN instances \cup StoredGroups
  BY DEF PreviousIsStored
<1>2. \A j \in DOMAIN previous.up : previous.up[j] = PreviousUp(j)
  BY DEF PreviousIsStored
<1> QED
  BY <1>1, <1>2 DEF InContainer, InstancesOf, PreviousInstances

LEMMA SameHints ==
    ASSUME NEW hints, NEW S
    PROVE  Meant(hints, S) = Hinted(hints, S)
BY DEF Meant, Hinted, MembersOf

\* In a container that has gone, nothing of what was in it is left.
LEMMA NothingStaysInGone ==
    ASSUME TreeGrown, NEW e \in Elements, NEW p,
           Container[e] # Nothing, p # Nothing, p \notin DOMAIN tree
    PROVE  PreviousInstances(e, p) \cap DOMAIN tree = {}
<1> SUFFICES ASSUME NEW i \in PreviousInstances(e, p), i \in DOMAIN tree
             PROVE  FALSE
  OBVIOUS
<1>1. i \in DOMAIN previous.up /\ i.of = e /\ p = previous.up[i]
  BY DEF PreviousInstances
<1>2. Place(e, tree[i].up)
  BY <1>1 DEF TreeGrown
<1>3. tree[i].up \in DOMAIN tree
  BY <1>2 DEF Place
<1>4. tree[i].up \in {Nothing, previous.up[i]}
  BY <1>1 DEF TreeGrown
<1>5. Nothing \notin DOMAIN tree
  BY NothingIsNoInstance DEF TreeGrown
<1> QED
  BY <1>1, <1>3, <1>4, <1>5

HintsAre(e, p) ==
    LET before == InContainer(e, p)
        gone   == before \ DOMAIN tree
        first  == Meant(include, before)
        spared == Meant(exclude, before) \ first
    IN  /\ first \subseteq gone \/ gone \subseteq first
        /\ gone \cap spared = {} \/ before \ spared \subseteq gone

LEMMA HintsAtReturn ==
    ASSUME ScalingInv, stage = "returning", NEW e \in DOMAIN modified,
           NEW p \in IF Container[e] = Nothing THEN {Nothing}
                     ELSE {q \in DOMAIN previous.up : q.of = Container[e]}
    PROVE  HintsAre(e, p)
<1> DEFINE before == PreviousInstances(e, p)
<1>1. /\ before = InContainer(e, p)
      /\ Hinted(include, before) = Meant(include, before)
      /\ Hinted(exclude, before) = Meant(exclude, before)
  BY SameInstances, SameHints DEF ScalingInv
<1>2. SUFFICES Honoured(before, before \ DOMAIN tree, Hinted(include, before),
                        Hinted(exclude, before) \ Hinted(include, before))
  <2> HIDE DEF before
  <2> QED
    BY <1>1, <1>2 DEF Honoured, HintsAre
<1>3. e \in Elements
  BY DEF ScalingInv, AskedTyped
<1>4. CASE <<e, p>> \in treated
  BY <1>4 DEF ScalingInv, HintsKept
<1>5. CASE <<e, p>> \notin treated
  <2>1. Untreated = {}
    BY DEF ScalingInv, TreeGrown
  <2>2. DOMAIN previous.up \subseteq InstanceOf(Elements)
    BY PreviousIsFinite DEF ScalingInv
  <2>3. Container[e] # Nothing /\ p # Nothing /\ p \notin DOMAIN tree
    <3>1. Nothing \notin DOMAIN previous.up
      BY <2>2, NothingIsNoInstance
    <3>2. Container[e] = Nothing => p = Nothing
      OBVIOUS
    <3>3. Container[e] # Nothing => p # Nothing /\ p.of = Container[e]
      BY <3>1
    <3>4. \A q \in DOMAIN tree \cup {Nothing} : <<e, q>> \in Untreated \/ <<e, q>> \in treated
             \/ ~(IF Container[e] = Nothing THEN q = Nothing
                                             ELSE q # Nothing /\ q.of = Container[e])
      BY <1>3 DEF Untreated
    <3> QED
      BY <1>5, <2>1, <3>2, <3>3, <3>4
  <2>4. before \cap DOMAIN tree = {}
    BY <1>3, <2>3, NothingStaysInGone DEF ScalingInv
  <2>5. before \ DOMAIN tree = before
    BY <2>4
  <2>6. Hinted(include, before) \subseteq before
    BY DEF Hinted
  <2> QED
    BY <2>5, <2>6 DEF Honoured
<1> QED
  BY <1>4, <1>5

\* Of any sequence of modifications, whatever the plan: in each container the
\* included instances went first, and an excluded one only where all others did.
THEOREM HintsAreHonoured == DeploymentSpec => HintsHonoured
<1>1. ScalingInv /\ [DeploymentNext]_deploymentVars =>
         [Return => \A e \in DOMAIN modified :
             \A p \in IF Container[e] = Nothing THEN {Nothing}
                      ELSE {q \in DOMAIN previous.up : q.of = Container[e]} :
                 HintsAre(e, p)]_deploymentVars
  <2> SUFFICES ASSUME ScalingInv, Return, NEW e \in DOMAIN modified,
                      NEW p \in IF Container[e] = Nothing THEN {Nothing}
                                ELSE {q \in DOMAIN previous.up : q.of = Container[e]}
               PROVE  HintsAre(e, p)
    OBVIOUS
  <2>1. stage = "returning"
    BY DEF Return
  <2> QED
    BY <2>1, HintsAtReturn
<1> QED
  BY <1>1, ScalingHolds, PTL DEF DeploymentSpec, HintsHonoured, HintsAre
=============================================================================
