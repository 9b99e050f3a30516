------------------------- MODULE TaskConsumerProofs -------------------------
(***************************************************************************)
(* With late_ack no task is lost, without it none is run twice, and no     *)
(* slot of the pool is lost while it consumes, whatever the pool's size,   *)
(* the number of tasks and the number of times the process or its          *)
(* connection dies.                                                        *)
(***************************************************************************)
EXTENDS TaskConsumer, FiniteSetTheorems, TLAPS

(* The channel methods asked for on behalf of a task that has been run. *)
HandledEnvelope == {e \in Envelope : handled[e.of.message] # {}}

(* Whatever is queued for the connection thread when late_ack is set is    *)
(* about a task that has been handled: its ack is asked for after the task *)
(* has run.                                                                *)
OutboxIsHandled == late_ack => outbox \in Seq(HandledEnvelope)

(* The inductive invariant.  AtLeastOnce alone is not inductive: nothing   *)
(* in it says what an ack the connection thread makes is an ack of.  An    *)
(* answer is asked for by a thread that has run its task.                  *)
AnswersAreHandled ==
    late_ack => \A d \in Delivery : thread[d] = "answering" => handled[d.message] # {}

NothingLostInv ==
    /\ handled \in [Message -> SUBSET (1..MaxSession)]
    /\ thread \in [Delivery -> ThreadState]
    /\ OutboxIsHandled
    /\ AnswersAreHandled
    /\ AtLeastOnce

(* A queue of envelopes of one kind keeps to it. *)
LEMMA QueueSteps ==
    ASSUME NEW E, NEW s \in Seq(E), NEW e \in E
    PROVE  /\ Append(s, e) \in Seq(E)
           /\ s # <<>> => Tail(s) \in Seq(E) /\ Head(s) \in E
  OBVIOUS

LEMMA QueueGrows ==
    ASSUME NEW E, NEW F, E \subseteq F, NEW s \in Seq(E)
    PROVE  s \in Seq(F)
  OBVIOUS

LEMMA NothingLostInit == Init => NothingLostInv
<1> SUFFICES ASSUME Init PROVE NothingLostInv
  OBVIOUS
<1>1. handled \in [Message -> SUBSET (1..MaxSession)]
  BY DEF Init
<1>2. thread \in [Delivery -> ThreadState] /\ AnswersAreHandled
  BY DEF Init, ThreadState, AnswersAreHandled
<1>3. OutboxIsHandled
  BY DEF Init, OutboxIsHandled
<1>4. AtLeastOnce
  BY DEF Init, AtLeastOnce
<1> QED
  BY <1>1, <1>2, <1>3, <1>4 DEF NothingLostInv

(* A step that asks for no channel method, runs no task and lets no thread *)
(* reach its answer only has to keep the messages at the broker.           *)
LEMMA QuietStep ==
    ASSUME NothingLostInv,
           UNCHANGED <<late_ack, handled>>,
           outbox' = outbox \/ outbox' = <<>>,
           thread' \in [Delivery -> ThreadState],
           \A d \in Delivery : thread'[d] = "answering" => thread[d] = "answering",
           queue \cup unacked \subseteq queue' \cup unacked'
    PROVE  NothingLostInv'
<1>0. HandledEnvelope' = HandledEnvelope
  BY DEF HandledEnvelope
<1>1. OutboxIsHandled'
  <2>1. CASE outbox' = outbox
    BY <1>0, <2>1 DEF NothingLostInv, OutboxIsHandled
  <2>2. CASE outbox' = <<>>
    BY <2>2 DEF OutboxIsHandled
  <2> QED
    BY <2>1, <2>2
<1>2. AnswersAreHandled'
  BY DEF NothingLostInv, AnswersAreHandled
<1>3. AtLeastOnce'
  BY DEF NothingLostInv, AtLeastOnce
<1> QED
  BY <1>1, <1>2, <1>3 DEF NothingLostInv

(* A step of thread d that asks for a channel method once d's task has run, *)
(* or without late_ack.                                                    *)
LEMMA AskingStep ==
    ASSUME NothingLostInv, NEW d \in Delivery, NEW method \in {"basic_ack", "reply"},
           UNCHANGED <<late_ack, handled, queue, unacked>>,
           Ask(d, method),
           late_ack => handled[d.message] # {},
           thread' \in [Delivery -> ThreadState],
           \A x \in Delivery : thread'[x] = "answering" => thread[x] = "answering"
    PROVE  NothingLostInv'
<1> DEFINE e == [method |-> method, of |-> d]
<1>1. e \in Envelope /\ outbox' = Append(outbox, e)
  BY DEF Envelope, Ask
<1>2. OutboxIsHandled'
  <2> SUFFICES ASSUME late_ack PROVE outbox' \in Seq(HandledEnvelope)
    BY DEF OutboxIsHandled, HandledEnvelope
  <2>1. outbox \in Seq(HandledEnvelope)
    BY DEF NothingLostInv, OutboxIsHandled
  <2>2. e \in HandledEnvelope
    BY <1>1 DEF HandledEnvelope
  <2> HIDE DEF e
  <2> QED
    BY <1>1, <2>1, <2>2, QueueSteps
<1>3. AnswersAreHandled'
  BY DEF NothingLostInv, AnswersAreHandled
<1>4. AtLeastOnce'
  BY DEF NothingLostInv, AtLeastOnce
<1> QED
  BY <1>2, <1>3, <1>4 DEF NothingLostInv

(* One step per action of Next. *)
LEMMA NothingLostStep == NothingLostInv /\ [Next]_vars => NothingLostInv'
<1> SUFFICES ASSUME NothingLostInv, [Next]_vars PROVE NothingLostInv'
  OBVIOUS
<1> USE DEF broker, pool, past
<1>t. thread \in [Delivery -> ThreadState]
  BY DEF NothingLostInv
<1>h. handled \in [Message -> SUBSET (1..MaxSession)]
  BY DEF NothingLostInv
<1>1. CASE LinkDrops
  BY <1>1, <1>t, QuietStep DEF LinkDrops
<1>2. CASE Restart
  <2>1. thread' \in [Delivery -> ThreadState]
    BY <1>2, <1>t DEF Restart, ThreadState
  <2>2. \A d \in Delivery : thread'[d] # "answering"
    BY <1>2 DEF Restart
  <2> QED
    BY <1>2, <2>1, <2>2, QuietStep DEF Restart
<1>3. ASSUME NEW m \in Message, Deliver(m) PROVE NothingLostInv'
  <2>1. thread' \in [Delivery -> ThreadState]
    BY <1>3, <1>t DEF Deliver, Process, Goto, ThreadState
  <2>2. \A d \in Delivery : thread'[d] = "answering" => thread[d] = "answering"
    BY <1>3, <1>t DEF Deliver, Process, Goto
  <2>3. UNCHANGED <<late_ack, handled, outbox>>
    BY <1>3 DEF Deliver
  <2>4. queue \cup unacked \subseteq queue' \cup unacked'
    BY <1>3 DEF Deliver
  <2> QED
    BY <2>1, <2>2, <2>3, <2>4, QuietStep
<1>4. CASE AppendTask
  BY <1>4, <1>t, QuietStep DEF AppendTask
<1>5. CASE MethodSucceeds
  <2> DEFINE e == Head(outbox)
  <2>1. outbox # <<>> /\ outbox' = Tail(outbox) /\ UNCHANGED <<late_ack, handled, queue>>
    BY <1>5 DEF MethodSucceeds, Done
  <2>2. unacked' = unacked \/ unacked' = unacked \ {e.of.message}
    BY <1>5 DEF MethodSucceeds
  <2>3. thread' \in [Delivery -> ThreadState]
    BY <1>5, <1>t DEF MethodSucceeds, Done, Goto, ThreadState
  <2>4. \A d \in Delivery : d # e.of => thread'[d] = thread[d]
    BY <1>5, <1>t DEF MethodSucceeds, Done, Goto
  <2>5. HandledEnvelope' = HandledEnvelope
    BY <2>1 DEF HandledEnvelope
  <2> HIDE DEF e
  <2>6. late_ack => /\ outbox \in Seq(HandledEnvelope)
                    /\ Tail(outbox) \in Seq(HandledEnvelope)
                    /\ e \in HandledEnvelope
    BY <2>1, QueueSteps DEF NothingLostInv, OutboxIsHandled, e
  <2>7. OutboxIsHandled'
    BY <2>1, <2>5, <2>6 DEF OutboxIsHandled
  <2>8. late_ack => handled[e.of.message] # {} /\ e.of.message \in Message
    BY <2>6 DEF HandledEnvelope, Envelope, Delivery
  <2>9. AnswersAreHandled'
    BY <2>1, <2>4, <2>8 DEF NothingLostInv, AnswersAreHandled
  <2>10. AtLeastOnce'
    BY <2>1, <2>2, <2>8 DEF NothingLostInv, AtLeastOnce
  <2> QED
    BY <1>h, <2>1, <2>3, <2>7, <2>9, <2>10 DEF NothingLostInv
<1>6. CASE MethodMeetsClosedConnection
  <2>1. /\ outbox # <<>> /\ outbox' = Append(Tail(outbox), Head(outbox))
        /\ UNCHANGED <<late_ack, handled, queue, unacked, thread>>
    BY <1>6 DEF MethodMeetsClosedConnection
  <2>2. HandledEnvelope' = HandledEnvelope
    BY <2>1 DEF HandledEnvelope
  <2>3. late_ack => outbox' \in Seq(HandledEnvelope)
    BY <2>1, QueueSteps DEF NothingLostInv, OutboxIsHandled
  <2>4. OutboxIsHandled'
    BY <2>1, <2>2, <2>3 DEF OutboxIsHandled
  <2>5. AnswersAreHandled' /\ AtLeastOnce'
    BY <2>1 DEF NothingLostInv, AnswersAreHandled, AtLeastOnce
  <2> QED
    BY <1>h, <1>t, <2>1, <2>4, <2>5 DEF NothingLostInv
<1>7. CASE MethodRaises
  <2>1. outbox # <<>> /\ outbox' = Tail(outbox) /\ UNCHANGED <<late_ack, handled, queue, unacked>>
    BY <1>7 DEF MethodRaises
  <2>2. thread' \in [Delivery -> ThreadState]
    BY <1>7, <1>t DEF MethodRaises, Goto, ThreadState
  <2>3. \A d \in Delivery : thread'[d] = "answering" => thread[d] = "answering"
    BY <1>7, <1>t DEF MethodRaises, Goto
  <2>4. HandledEnvelope' = HandledEnvelope
    BY <2>1 DEF HandledEnvelope
  <2>5. OutboxIsHandled'
    BY <2>1, <2>4, QueueSteps DEF NothingLostInv, OutboxIsHandled
  <2>6. AnswersAreHandled' /\ AtLeastOnce'
    BY <2>1, <2>3 DEF NothingLostInv, AnswersAreHandled, AtLeastOnce
  <2> QED
    BY <1>h, <2>1, <2>2, <2>5, <2>6 DEF NothingLostInv
<1>8. CASE Drained \/ NoticeDrop \/ Reconnect
  BY <1>8, <1>t, QuietStep DEF Drained, NoticeDrop, Reconnect
<1>9. ASSUME NEW d \in Delivery, Start(d) PROVE NothingLostInv'
  <2>1. thread' \in [Delivery -> ThreadState]
    BY <1>9, <1>t DEF Start, Goto, ThreadState
  <2>2. \A x \in Delivery : thread'[x] = "answering" => thread[x] = "answering"
    BY <1>9, <1>t DEF Start, Goto
  <2>3. UNCHANGED <<late_ack, handled, queue, unacked>>
    BY <1>9 DEF Start
  <2>4. CASE late_ack /\ UNCHANGED outbox
    BY <2>1, <2>2, <2>3, <2>4, QuietStep
  <2>5. CASE ~late_ack /\ Ask(d, "basic_ack")
    BY <2>1, <2>2, <2>3, <2>5, AskingStep
  <2> QED
    BY <1>9, <2>4, <2>5 DEF Start
<1>10. ASSUME NEW d \in Delivery, HandleTask(d) PROVE NothingLostInv'
  <2>1. /\ handled' = [handled EXCEPT ![d.message] = @ \cup {d.session}]
        /\ UNCHANGED <<late_ack, queue, unacked>>
    BY <1>10 DEF HandleTask
  <2>2. d.message \in Message /\ d.session \in 1..MaxSession
    BY DEF Delivery
  <2>3. handled' \in [Message -> SUBSET (1..MaxSession)]
    BY <1>h, <2>1, <2>2
  <2>4. /\ handled'[d.message] # {}
        /\ \A m \in Message : handled[m] # {} => handled'[m] # {}
    BY <1>h, <2>1, <2>2
  <2>5. thread' \in [Delivery -> ThreadState]
    BY <1>10, <1>t DEF HandleTask, Goto, ThreadState
  <2>6. \A x \in Delivery : x # d => thread'[x] = thread[x]
    BY <1>10, <1>t DEF HandleTask, Goto
  <2>7. HandledEnvelope \subseteq HandledEnvelope'
    BY <2>4 DEF HandledEnvelope, Envelope, Delivery
  <2>8. late_ack => outbox' = Append(outbox, [method |-> "basic_ack", of |-> d])
    BY <1>10 DEF HandleTask, Ask
  <2>9. [method |-> "basic_ack", of |-> d] \in HandledEnvelope'
    BY <2>4 DEF HandledEnvelope, Envelope
  <2>10. OutboxIsHandled'
    <3> SUFFICES ASSUME late_ack PROVE outbox' \in Seq(HandledEnvelope')
      BY <2>1 DEF OutboxIsHandled
    <3>1. outbox \in Seq(HandledEnvelope')
      BY <2>7, QueueGrows DEF NothingLostInv, OutboxIsHandled
    <3> QED
      BY <2>8, <2>9, <3>1, QueueSteps
  <2>11. AnswersAreHandled'
    BY <2>1, <2>4, <2>6 DEF NothingLostInv, AnswersAreHandled, Delivery
  <2>12. AtLeastOnce'
    BY <2>1, <2>4 DEF NothingLostInv, AtLeastOnce
  <2> QED
    BY <2>3, <2>5, <2>10, <2>11, <2>12 DEF NothingLostInv
<1>11. ASSUME NEW d \in Delivery, Answer(d) PROVE NothingLostInv'
  <2>1. thread' \in [Delivery -> ThreadState]
    BY <1>11, <1>t DEF Answer, Goto, ThreadState
  <2>2. \A x \in Delivery : thread'[x] = "answering" => thread[x] = "answering"
    BY <1>11, <1>t DEF Answer, Goto
  <2>3. UNCHANGED <<late_ack, handled, queue, unacked>>
    BY <1>11 DEF Answer
  <2>4. late_ack => handled[d.message] # {}
    BY <1>11 DEF Answer, NothingLostInv, AnswersAreHandled
  <2>5. CASE Ask(d, "reply")
    BY <2>1, <2>2, <2>3, <2>4, <2>5, AskingStep
  <2>6. CASE UNCHANGED outbox
    BY <2>1, <2>2, <2>3, <2>6, QuietStep
  <2> QED
    BY <1>11, <2>5, <2>6 DEF Answer
<1>12. ASSUME NEW d \in Delivery, StopAgent(d) PROVE NothingLostInv'
  <2>1. thread' \in [Delivery -> ThreadState]
    BY <1>12, <1>t DEF StopAgent, ThreadState
  <2>2. \A x \in Delivery : thread'[x] # "answering"
    BY <1>12 DEF StopAgent
  <2> QED
    BY <1>12, <2>1, <2>2, QuietStep DEF StopAgent
<1>13. ASSUME NEW d \in Delivery, RunNext(d) \/ Release(d) PROVE NothingLostInv'
  <2>1. thread' \in [Delivery -> ThreadState]
    BY <1>13, <1>t DEF RunNext, Release, Goto, ThreadState
  <2>2. \A x \in Delivery : thread'[x] = "answering" => thread[x] = "answering"
    BY <1>13, <1>t DEF RunNext, Release, Goto
  <2> QED
    BY <1>13, <2>1, <2>2, QuietStep DEF RunNext, Release
<1>14. CASE UNCHANGED vars
  BY <1>14, <1>t, QuietStep DEF vars
<1> QED
  BY <1>1, <1>2, <1>3, <1>4, <1>5, <1>6, <1>7, <1>8, <1>9, <1>10, <1>11, <1>12,
     <1>13, <1>14 DEF Next, Connection, Work

(* With late_ack a task that was never handled is still with the broker.   *)
THEOREM NoTaskIsLost == Spec => []AtLeastOnce
<1>1. NothingLostInv => AtLeastOnce
  BY DEF NothingLostInv
<1> QED
  BY <1>1, NothingLostInit, NothingLostStep, PTL DEF Spec
-----------------------------------------------------------------------------
(* The pool.  Slots are counted by the threads that hold one, and a count  *)
(* changes by one only if the thread that gets a slot held none and the    *)
(* one that gives it up held one.  So the invariant says of what waits for *)
(* a thread, or will be delivered, that it has none, and of the outbox     *)
(* that whoever asked for a method is still waiting for it.                *)
Elems(s) == {s[i] : i \in 1..Len(s)}

Distinct(s) == \A i, j \in 1..Len(s) : s[i] = s[j] => i = j

Waiting == Elems(tasks_buffer) \cup Elems(pending)
Holders == {d \in Delivery : HoldsSlot(d)}
Live    == {"consuming", "appending", "reconnecting"}

(* A message that may still be delivered by the session there is. *)
Coming(d) == \/ d.session > session
             \/ d.session = session /\ link /\ d.message \in queue

TypesInv ==
    /\ late_ack \in BOOLEAN
    /\ queue \subseteq Message
    /\ unacked \subseteq Message
    /\ link \in BOOLEAN
    /\ session \in 1..MaxSession
    /\ conn \in ConnState
    /\ pending \in Seq(Delivery)
    /\ outbox \in Seq(Envelope)
    /\ sem \in Nat
    /\ tasks_buffer \in Seq(Delivery)
    /\ thread \in [Delivery -> ThreadState]
    /\ result \in [Delivery -> Result]
    /\ handled \in [Message -> SUBSET (1..MaxSession)]
    /\ lost_ack \in BOOLEAN

WaitingInv ==
    /\ pending = <<>> \/ \E d \in Delivery : pending = <<d>> /\ d \notin Elems(tasks_buffer)
    /\ conn \in {"consuming", "reconnecting"} => pending = <<>>
    /\ Distinct(tasks_buffer)
    /\ \A d \in Waiting : thread[d] = "none"

FreshInv == \A d \in Delivery : Coming(d) => thread[d] = "none" /\ d \notin Waiting

Asking(e) == IF e.method = "basic_ack" THEN "acking" ELSE "sending"

OutboxInv ==
    conn # "exited" => Distinct(outbox) /\ \A e \in Elems(outbox) : thread[e.of] = Asking(e)

SlotInv ==
    /\ IsFiniteSet(Holders)
    /\ sem + Cardinality(Holders) <= threadpool_size
    /\ conn \in Live => sem + Cardinality(Holders) = threadpool_size

PoolInv == TypesInv /\ WaitingInv /\ FreshInv /\ OutboxInv /\ SlotInv

(* What a queue without repetitions holds after an append and a pop. *)
LEMMA Appended ==
    ASSUME NEW E, NEW s \in Seq(E), NEW e \in E
    PROVE  /\ Append(s, e) \in Seq(E)
           /\ Elems(Append(s, e)) = Elems(s) \cup {e}
           /\ Distinct(s) /\ e \notin Elems(s) => Distinct(Append(s, e))
<1> DEFINE a == Append(s, e)
<1>1. /\ a \in Seq(E) /\ Len(s) \in Nat /\ Len(a) = Len(s) + 1 /\ a[Len(s) + 1] = e
      /\ \A i \in 1..Len(s) : a[i] = s[i]
  OBVIOUS
<1> HIDE DEF a
<1>2. Elems(a) = Elems(s) \cup {e}
  <2>1. 1..Len(a) = 1..Len(s) \cup {Len(s) + 1}
    BY <1>1
  <2> QED
    BY <1>1, <2>1 DEF Elems
<1>3. ASSUME Distinct(s), e \notin Elems(s) PROVE Distinct(a)
  <2> SUFFICES ASSUME NEW i \in 1..Len(a), NEW j \in 1..Len(a), a[i] = a[j] PROVE i = j
    BY DEF Distinct
  <2>1. \A k \in 1..Len(s) : s[k] # e
    BY <1>3 DEF Elems
  <2>2. CASE i \in 1..Len(s) /\ j \in 1..Len(s)
    BY <1>1, <1>3, <2>2 DEF Distinct
  <2>3. CASE i = Len(s) + 1 \/ j = Len(s) + 1
    BY <1>1, <2>1, <2>3
  <2> QED
    BY <1>1, <2>2, <2>3
<1> QED
  BY <1>1, <1>2, <1>3 DEF a

LEMMA Popped ==
    ASSUME NEW E, NEW s \in Seq(E), s # <<>>
    PROVE  /\ Tail(s) \in Seq(E) /\ Head(s) \in E /\ Head(s) \in Elems(s)
           /\ Distinct(s) => Distinct(Tail(s)) /\ Elems(Tail(s)) = Elems(s) \ {Head(s)}
<1> DEFINE t == Tail(s)
<1>1. /\ t \in Seq(E) /\ Len(s) \in Nat \ {0} /\ Len(t) = Len(s) - 1 /\ Head(s) = s[1]
      /\ \A i \in 1..Len(t) : t[i] = s[i + 1]
      /\ s[1] \in E
  OBVIOUS
<1> HIDE DEF t
<1>2. Head(s) \in Elems(s)
  BY <1>1 DEF Elems
<1>3. ASSUME Distinct(s) PROVE Distinct(t)
  BY <1>1, <1>3 DEF Distinct
<1>4. ASSUME Distinct(s) PROVE Elems(t) = Elems(s) \ {Head(s)}
  <2>1. ASSUME NEW i \in 1..Len(t) PROVE t[i] \in Elems(s) \ {Head(s)}
    <3>1. i + 1 \in 1..Len(s) /\ 1 \in 1..Len(s) /\ i + 1 # 1
      BY <1>1
    <3> QED
      BY <1>1, <1>4, <3>1 DEF Elems, Distinct
  <2>2. ASSUME NEW i \in 1..Len(s), s[i] # Head(s) PROVE s[i] \in Elems(t)
    <3>1. i - 1 \in 1..Len(t) /\ t[i - 1] = s[i]
      BY <1>1, <2>2
    <3> QED
      BY <3>1 DEF Elems
  <2> QED
    BY <2>1, <2>2 DEF Elems
<1> QED
  BY <1>1, <1>2, <1>3, <1>4 DEF t

LEMMA Rotated ==
    ASSUME NEW E, NEW s \in Seq(E), s # <<>>, Distinct(s)
    PROVE  /\ Distinct(Append(Tail(s), Head(s)))
           /\ Elems(Append(Tail(s), Head(s))) = Elems(s)
<1> DEFINE t == Tail(s)
           h == Head(s)
<1>1. /\ t \in Seq(E) /\ h \in E /\ h \in Elems(s)
      /\ Distinct(t) /\ Elems(t) = Elems(s) \ {h}
  BY Popped
<1> HIDE DEF t, h
<1>2. Distinct(Append(t, h)) /\ Elems(Append(t, h)) = Elems(t) \cup {h}
  BY <1>1, Appended
<1> QED
  BY <1>1, <1>2 DEF t, h

LEMMA ElemsTyped ==
    ASSUME NEW E, NEW s \in Seq(E)
    PROVE  Elems(s) \subseteq E
  BY DEF Elems

LEMMA FewElems ==
    ASSUME NEW d
    PROVE  Elems(<<>>) = {} /\ Elems(<<d>>) = {d} /\ Distinct(<<>>)
  BY DEF Elems, Distinct
LEMMA TypesInit == Init => TypesInv
<1> SUFFICES ASSUME Init PROVE TypesInv
  OBVIOUS
<1>1. sem \in Nat /\ session \in 1..MaxSession
  BY PoolAssumption DEF Init
<1>2. /\ thread \in [Delivery -> ThreadState]
      /\ result \in [Delivery -> Result]
      /\ handled \in [Message -> SUBSET (1..MaxSession)]
  BY DEF Init, ThreadState, Result
<1>3. pending \in Seq(Delivery) /\ tasks_buffer \in Seq(Delivery) /\ outbox \in Seq(Envelope)
  BY DEF Init
<1> QED
  BY <1>1, <1>2, <1>3 DEF Init, TypesInv, ConnState

LEMMA AskTypes ==
    ASSUME outbox \in Seq(Envelope), NEW d \in Delivery,
           NEW method \in {"basic_ack", "reply"}, Ask(d, method)
    PROVE  outbox' \in Seq(Envelope)
<1>1. [method |-> method, of |-> d] \in Envelope
  BY DEF Envelope
<1> QED
  BY <1>1, Appended DEF Ask

LEMMA TypesStep ==
    ASSUME TypesInv, [Next]_vars
    PROVE  TypesInv'
<1> USE DEF TypesInv, broker, pool, past
<1>1. CASE LinkDrops
  BY <1>1 DEF LinkDrops
<1>2. CASE Restart
  <2>1. thread' \in [Delivery -> ThreadState] /\ conn' \in ConnState
    BY <1>2 DEF Restart, ThreadState, ConnState
  <2>2. session' \in 1..MaxSession /\ sem' \in Nat
    BY <1>2, PoolAssumption DEF Restart
  <2> QED
    BY <1>2, <2>1, <2>2 DEF Restart
<1>3. ASSUME NEW m \in Message, Deliver(m) PROVE TypesInv'
  <2> DEFINE d == [message |-> m, session |-> session]
  <2>1. d \in Delivery
    BY DEF Delivery
  <2>2. Process(d)
    BY <1>3 DEF Deliver
  <2> HIDE DEF d
  <2>3. thread' \in [Delivery -> ThreadState] /\ conn' \in ConnState
    BY <2>1, <2>2 DEF Process, Goto, ThreadState, ConnState
  <2>4. pending' \in Seq(Delivery) /\ sem' \in Nat
    <3>1. <<d>> \in Seq(Delivery)
      BY <2>1
    <3>3. pending' = pending \/ pending' = <<d>>
      BY <2>2 DEF Process
    <3>4. sem' \in Nat
      <4>1. CASE d.message \notin Malformed /\ sem > 0
        BY <2>2, <4>1 DEF Process
      <4>2. CASE d.message \in Malformed \/ sem = 0
        BY <2>2, <4>2 DEF Process
      <4> QED
        BY <4>1, <4>2
    <3> QED
      BY <3>1, <3>3, <3>4
  <2> QED
    BY <1>3, <2>3, <2>4 DEF Deliver
<1>4. CASE AppendTask
  BY <1>4 DEF AppendTask, ConnState
<1>5. CASE MethodSucceeds
  <2>1. outbox' \in Seq(Envelope)
    BY <1>5, Popped DEF MethodSucceeds, Done
  <2>2. thread' \in [Delivery -> ThreadState]
    BY <1>5 DEF MethodSucceeds, Done, Goto, ThreadState
  <2>3. unacked' \subseteq Message /\ lost_ack' \in BOOLEAN
    BY <1>5 DEF MethodSucceeds
  <2> QED
    BY <1>5, <2>1, <2>2, <2>3 DEF MethodSucceeds
<1>6. CASE MethodMeetsClosedConnection
  <2>1. outbox' \in Seq(Envelope)
    BY <1>6, Popped, Appended DEF MethodMeetsClosedConnection
  <2> QED
    BY <1>6, <2>1 DEF MethodMeetsClosedConnection, ConnState
<1>7. CASE MethodRaises
  <2>1. outbox' \in Seq(Envelope)
    BY <1>7, Popped DEF MethodRaises
  <2>2. thread' \in [Delivery -> ThreadState]
    BY <1>7 DEF MethodRaises, Goto, ThreadState
  <2>3. conn' \in ConnState
    BY <1>7 DEF MethodRaises, ConnState
  <2> QED
    BY <1>7, <2>1, <2>2, <2>3 DEF MethodRaises
<1>8. CASE Drained \/ NoticeDrop \/ Reconnect
  <2>1. CASE Drained \/ NoticeDrop
    BY <2>1 DEF Drained, NoticeDrop, ConnState
  <2>2. CASE Reconnect
    <3>1. \/ session < MaxSession /\ session' = session + 1 /\ link' = TRUE
          \/ UNCHANGED <<session, link>>
      BY <2>2 DEF Reconnect
    <3>3. session' \in 1..MaxSession
      BY <3>1, PoolAssumption
    <3>4. link' \in BOOLEAN
      BY <3>1
    <3>2. conn' \in ConnState
      BY <2>2 DEF Reconnect, ConnState
    <3> QED
      BY <2>2, <3>2, <3>3, <3>4 DEF Reconnect
  <2> QED
    BY <1>8, <2>1, <2>2
<1>9. ASSUME NEW d \in Delivery, Start(d) PROVE TypesInv'
  <2>1. thread' \in [Delivery -> ThreadState]
    BY <1>9 DEF Start, Goto, ThreadState
  <2>2. outbox' \in Seq(Envelope)
    BY <1>9, AskTypes DEF Start
  <2> QED
    BY <1>9, <2>1, <2>2 DEF Start
<1>10. ASSUME NEW d \in Delivery, HandleTask(d) PROVE TypesInv'
  <2>1. thread' \in [Delivery -> ThreadState]
    BY <1>10 DEF HandleTask, Goto, ThreadState
  <2>2. outbox' \in Seq(Envelope)
    BY <1>10, AskTypes DEF HandleTask
  <2>3. result' \in [Delivery -> Result]
    BY <1>10 DEF HandleTask
  <2>4. handled' \in [Message -> SUBSET (1..MaxSession)]
    BY <1>10 DEF HandleTask, Delivery
  <2> QED
    BY <1>10, <2>1, <2>2, <2>3, <2>4 DEF HandleTask
<1>11. ASSUME NEW d \in Delivery, Answer(d) PROVE TypesInv'
  <2>1. thread' \in [Delivery -> ThreadState]
    BY <1>11 DEF Answer, Goto, ThreadState
  <2>2. outbox' \in Seq(Envelope)
    BY <1>11, AskTypes DEF Answer
  <2> QED
    BY <1>11, <2>1, <2>2 DEF Answer
<1>12. ASSUME NEW d \in Delivery, StopAgent(d) PROVE TypesInv'
  <2>1. thread' \in [Delivery -> ThreadState] /\ conn' \in ConnState
    BY <1>12 DEF StopAgent, ThreadState, ConnState
  <2> QED
    BY <1>12, <2>1 DEF StopAgent
<1>13. ASSUME NEW d \in Delivery, RunNext(d) PROVE TypesInv'
  <2>1. thread' \in [Delivery -> ThreadState]
    BY <1>13 DEF RunNext, Goto, ThreadState
  <2>2. tasks_buffer' \in Seq(Delivery)
    <3>1. \/ tasks_buffer' = tasks_buffer
          \/ tasks_buffer # <<>> /\ tasks_buffer' = Tail(tasks_buffer)
      BY <1>13 DEF RunNext
    <3>2. tasks_buffer # <<>> => Tail(tasks_buffer) \in Seq(Delivery)
      BY Popped
    <3> QED
      BY <3>1, <3>2
  <2> QED
    BY <1>13, <2>1, <2>2 DEF RunNext
<1>14. ASSUME NEW d \in Delivery, Release(d) PROVE TypesInv'
  <2>1. thread' \in [Delivery -> ThreadState]
    BY <1>14 DEF Release, Goto, ThreadState
  <2> QED
    BY <1>14, <2>1 DEF Release
<1>15. CASE UNCHANGED vars
  BY <1>15 DEF vars
<1> QED
  BY <1>1, <1>2, <1>3, <1>4, <1>5, <1>6, <1>7, <1>8, <1>9, <1>10, <1>11, <1>12,
     <1>13, <1>14, <1>15 DEF Next, Connection, Work
(* What a step has to respect for each part of the invariant to survive it. *)
LEMMA WaitingKept ==
    ASSUME WaitingInv, UNCHANGED <<pending, tasks_buffer>>,
           \A d \in Waiting : thread[d] = "none" => thread'[d] = "none",
           conn' \in {"consuming", "reconnecting"} => conn \in {"consuming", "reconnecting"}
    PROVE  WaitingInv' /\ Waiting' = Waiting
  BY DEF WaitingInv, Waiting

LEMMA FreshKept ==
    ASSUME FreshInv, Waiting' \subseteq Waiting,
           \A d \in Delivery : Coming(d)' =>
               Coming(d) /\ (thread[d] = "none" => thread'[d] = "none")
    PROVE  FreshInv'
  BY DEF FreshInv

LEMMA OutboxTyped ==
    ASSUME TypesInv
    PROVE  \A e \in Elems(outbox) : e \in Envelope /\ e.of \in Delivery
<1>1. outbox \in Seq(Envelope)
  BY DEF TypesInv
<1>2. Elems(outbox) \subseteq Envelope
  BY <1>1, ElemsTyped
<1> QED
  BY <1>2 DEF Envelope

LEMMA OutboxKept ==
    ASSUME TypesInv, OutboxInv, outbox' = outbox,
           conn' # "exited" => conn # "exited",
           \A d \in Delivery : thread[d] \in {"acking", "sending"} => thread'[d] = thread[d]
    PROVE  OutboxInv'
<1>1. \A e \in Elems(outbox) : e.of \in Delivery
  BY OutboxTyped
<1> QED
  BY <1>1 DEF OutboxInv, Asking

LEMMA SlotKept ==
    ASSUME SlotInv, sem' = sem, \A d \in Delivery : HoldsSlot(d)' <=> HoldsSlot(d),
           conn' \in Live => conn \in Live
    PROVE  SlotInv'
<1>1. Holders' = Holders
  BY DEF Holders
<1> QED
  BY <1>1 DEF SlotInv, Live

LEMMA SlotTaken ==
    ASSUME TypesInv, SlotInv, NEW d \in Delivery, ~HoldsSlot(d), HoldsSlot(d)',
           \A x \in Delivery \ {d} : HoldsSlot(x)' <=> HoldsSlot(x),
           sem > 0, sem' = sem - 1, conn' \in Live => conn \in Live
    PROVE  SlotInv'
<1>1. Holders' = Holders \cup {d} /\ d \notin Holders
  BY DEF Holders
<1>2. IsFiniteSet(Holders') /\ Cardinality(Holders') = Cardinality(Holders) + 1
  BY <1>1, FS_AddElement DEF SlotInv
<1>3. Cardinality(Holders) \in Nat
  BY FS_CardinalityType DEF SlotInv
<1>4. sem \in Nat /\ threadpool_size \in Nat
  BY PoolAssumption DEF TypesInv
<1> QED
  BY <1>2, <1>3, <1>4 DEF SlotInv, Live

LEMMA SlotGivenUp ==
    ASSUME TypesInv, SlotInv, NEW d \in Delivery, HoldsSlot(d), ~HoldsSlot(d)',
           \A x \in Delivery \ {d} : HoldsSlot(x)' <=> HoldsSlot(x),
           \/ sem' = sem + 1 /\ (conn' \in Live => conn \in Live)
           \/ sem' = sem /\ conn' \notin Live
    PROVE  SlotInv'
<1>1. Holders' = Holders \ {d} /\ d \in Holders
  BY DEF Holders
<1>2. IsFiniteSet(Holders') /\ Cardinality(Holders') = Cardinality(Holders) - 1
  BY <1>1, FS_RemoveElement DEF SlotInv
<1>3. Cardinality(Holders) \in Nat
  BY FS_CardinalityType DEF SlotInv
<1>4. sem \in Nat /\ threadpool_size \in Nat
  BY PoolAssumption DEF TypesInv
<1> QED
  BY <1>2, <1>3, <1>4 DEF SlotInv, Live

(* The head of the outbox is taken off; nobody else waits for its method.  *)
LEMMA OutboxPopped ==
    ASSUME TypesInv, OutboxInv, conn # "exited", outbox # <<>>, outbox' = Tail(outbox),
           \A d \in Delivery \ {Head(outbox).of} : thread'[d] = thread[d]
    PROVE  /\ OutboxInv'
           /\ Head(outbox) \in Envelope
           /\ thread[Head(outbox).of] = Asking(Head(outbox))
<1> DEFINE e == Head(outbox)
<1>1. /\ e \in Elems(outbox) /\ Elems(outbox') = Elems(outbox) \ {e} /\ Distinct(outbox')
      /\ e \in Envelope
  BY Popped DEF OutboxInv, TypesInv
<1>2. \A x \in Elems(outbox) : x \in Envelope /\ x.of \in Delivery /\ thread[x.of] = Asking(x)
  BY OutboxTyped DEF OutboxInv
<1> HIDE DEF e
<1>3. ASSUME NEW x \in Elems(outbox'), x.of = e.of PROVE FALSE
  <2>1. Asking(x) = Asking(e) /\ x \in Envelope /\ e \in Envelope /\ x # e
    BY <1>1, <1>2, <1>3
  <2>2. x.method = e.method
    BY <2>1 DEF Asking, Envelope
  <2> QED
    BY <1>3, <2>1, <2>2 DEF Envelope
<1>4. \A x \in Elems(outbox') : thread'[x.of] = Asking(x)
  BY <1>1, <1>2, <1>3 DEF e
<1> QED
  BY <1>1, <1>2, <1>4 DEF OutboxInv, Asking, e

(* A thread that was waiting for nothing asks for a method. *)
LEMMA OutboxGrows ==
    ASSUME TypesInv, OutboxInv, NEW d \in Delivery, NEW method \in {"basic_ack", "reply"},
           Ask(d, method), conn' = conn,
           thread[d] \notin {"acking", "sending"},
           thread'[d] = Asking([method |-> method, of |-> d]),
           \A x \in Delivery \ {d} : thread'[x] = thread[x]
    PROVE  OutboxInv'
<1> DEFINE e == [method |-> method, of |-> d]
<1>1. e \in Envelope /\ e.of = d /\ outbox' = Append(outbox, e) /\ outbox \in Seq(Envelope)
  BY DEF Envelope, Ask, TypesInv
<1>2. thread'[d] = Asking(e)
  OBVIOUS
<1> HIDE DEF e
<1>3. CASE conn # "exited"
  <2>1. \A x \in Elems(outbox) : x.of \in Delivery /\ x.of # d
    BY <1>1, <1>3, ElemsTyped DEF OutboxInv, Envelope, Asking
  <2>2. e \notin Elems(outbox)
    BY <1>1, <2>1
  <2>3. Distinct(outbox') /\ Elems(outbox') = Elems(outbox) \cup {e}
    BY <1>1, <1>3, <2>2, Appended DEF OutboxInv
  <2> QED
    BY <1>1, <1>2, <1>3, <2>1, <2>3 DEF OutboxInv, Asking
<1> QED
  BY <1>3 DEF OutboxInv
-----------------------------------------------------------------------------
LEMMA PoolInit == Init => PoolInv
<1> SUFFICES ASSUME Init PROVE PoolInv
  OBVIOUS
<1>1. Holders = {} /\ Waiting = {}
  BY FewElems DEF Init, Holders, HoldsSlot, Waiting
<1>2. SlotInv
  BY <1>1, FS_EmptySet, PoolAssumption DEF Init, SlotInv
<1>3. WaitingInv /\ FreshInv /\ OutboxInv
  BY <1>1, FewElems DEF Init, WaitingInv, FreshInv, OutboxInv
<1> QED
  BY <1>2, <1>3, TypesInit DEF PoolInv

(* A step that moves no thread and no task.                                *)
LEMMA PoolUnmoved ==
    ASSUME PoolInv, TypesInv', UNCHANGED <<pending, tasks_buffer, outbox, sem, thread>>,
           \A d \in Delivery : Coming(d)' => Coming(d),
           \/ conn' = conn
           \/ conn' \in {"draining", "gone"}  /\ conn # "exited"
           \/ conn' \in {"consuming", "reconnecting"}
                /\ conn \in {"consuming", "reconnecting"}
    PROVE  PoolInv'
<1>1. WaitingInv' /\ Waiting' = Waiting
  BY WaitingKept DEF PoolInv
<1>2. FreshInv'
  BY <1>1, FreshKept DEF PoolInv
<1>3. OutboxInv'
  BY OutboxKept DEF PoolInv
<1>4. SlotInv'
  BY SlotKept DEF PoolInv, HoldsSlot, Live
<1> QED
  BY <1>1, <1>2, <1>3, <1>4 DEF PoolInv

LEMMA PoolRestart ==
    ASSUME PoolInv, TypesInv', Restart
    PROVE  PoolInv'
<1>1. Holders' = {} /\ Waiting' = {} /\ Elems(outbox') = {} /\ Distinct(outbox')
      /\ Distinct(tasks_buffer')
  BY FewElems DEF Restart, Holders, HoldsSlot, Waiting
<1>2. SlotInv'
  BY <1>1, FS_EmptySet, PoolAssumption DEF Restart, SlotInv
<1>3. WaitingInv' /\ OutboxInv'
  BY <1>1 DEF Restart, WaitingInv, OutboxInv
<1>4. ASSUME NEW d \in Delivery, Coming(d)' PROVE thread'[d] = "none"
  <2>1. session \in Nat /\ d.session \in Nat /\ session' = session + 1
    BY DEF Restart, PoolInv, TypesInv, Delivery
  <2>2. d.session > session
    BY <1>4, <2>1 DEF Coming
  <2> QED
    BY <2>2 DEF PoolInv, FreshInv, Coming, Restart
<1> QED
  BY <1>1, <1>2, <1>3, <1>4 DEF PoolInv, FreshInv

LEMMA PoolDeliver ==
    ASSUME PoolInv, TypesInv', NEW m \in Message, Deliver(m)
    PROVE  PoolInv'
<1>d. PICK d \in Delivery : d = [message |-> m, session |-> session]
  BY DEF PoolInv, TypesInv, Delivery
<1>1. /\ Coming(d) /\ ~Coming(d)'
      /\ \A x \in Delivery : Coming(x)' => Coming(x)
  BY <1>d DEF Deliver, PoolInv, TypesInv, Delivery, Coming
<1>2. /\ Process(d) /\ conn = "consuming" /\ pending = <<>>
      /\ UNCHANGED <<outbox, tasks_buffer>>
  BY <1>d DEF Deliver, PoolInv, WaitingInv
<1>3. thread[d] = "none" /\ d \notin Waiting
  BY <1>1 DEF PoolInv, FreshInv
<1>4. CASE UNCHANGED <<conn, pending, sem, thread>>
  BY <1>1, <1>2, <1>4, PoolUnmoved
<1>5. CASE sem > 0 /\ sem' = sem - 1 /\ Goto(d, "starting") /\ UNCHANGED <<conn, pending>>
  <2>1. /\ thread'[d] = "starting"
        /\ \A x \in Delivery \ {d} : thread'[x] = thread[x]
    BY <1>1, <1>5 DEF Goto, PoolInv, TypesInv
  <2>2. \A x \in Waiting : thread[x] = "none" => thread'[x] = "none"
    <3>1. Waiting \subseteq Delivery
      BY ElemsTyped DEF Waiting, PoolInv, TypesInv
    <3> QED
      BY <1>3, <2>1, <3>1
  <2>3. WaitingInv' /\ Waiting' = Waiting
    BY <1>2, <1>5, <2>2, WaitingKept DEF PoolInv
  <2>4. FreshInv'
    BY <1>1, <2>1, <2>3, FreshKept DEF PoolInv
  <2>5. OutboxInv'
    BY <1>2, <1>3, <1>5, <2>1, OutboxKept DEF PoolInv
  <2>6. SlotInv'
    BY <1>1, <1>3, <1>5, <2>1, SlotTaken DEF PoolInv, HoldsSlot
  <2> QED
    BY <2>3, <2>4, <2>5, <2>6 DEF PoolInv
<1>6. CASE conn' = "appending" /\ pending' = <<d>> /\ UNCHANGED <<sem, thread>>
  <2>1. Waiting = Elems(tasks_buffer) /\ Waiting' = Waiting \cup {d}
    BY <1>2, <1>6, FewElems DEF Waiting
  <2>2. WaitingInv'
    BY <1>1, <1>2, <1>3, <1>6, <2>1 DEF PoolInv, WaitingInv
  <2>3. FreshInv'
    BY <1>1, <1>6, <2>1 DEF PoolInv, FreshInv
  <2>4. OutboxInv'
    BY <1>2, <1>6, OutboxKept DEF PoolInv
  <2>5. SlotInv'
    BY <1>2, <1>6, SlotKept DEF PoolInv, HoldsSlot, Live
  <2> QED
    BY <2>2, <2>3, <2>4, <2>5 DEF PoolInv
<1> QED
  BY <1>2, <1>4, <1>5, <1>6 DEF Process

LEMMA AppendWaits ==
    ASSUME PoolInv, AppendTask
    PROVE  Waiting' = Waiting /\ Distinct(tasks_buffer')
<1>0. /\ pending' = <<>> /\ tasks_buffer' = tasks_buffer \o pending
      /\ tasks_buffer \in Seq(Delivery)
  BY DEF AppendTask, PoolInv, TypesInv
<1>1. CASE pending = <<>>
  <2>1. tasks_buffer' = tasks_buffer
    BY <1>0, <1>1
  <2> QED
    BY <1>0, <1>1, <2>1 DEF Waiting, PoolInv, WaitingInv
<1>2. ASSUME NEW d \in Delivery, pending = <<d>>, d \notin Elems(tasks_buffer)
      PROVE  Waiting' = Waiting /\ Distinct(tasks_buffer')
  <2>1. tasks_buffer' = Append(tasks_buffer, d)
    BY <1>0, <1>2
  <2>2. Elems(tasks_buffer') = Elems(tasks_buffer) \cup {d} /\ Distinct(tasks_buffer')
    <3>1. Distinct(tasks_buffer)
      BY DEF PoolInv, WaitingInv
    <3>2. /\ Elems(Append(tasks_buffer, d)) = Elems(tasks_buffer) \cup {d}
          /\ Distinct(Append(tasks_buffer, d))
      BY <1>0, <1>2, <3>1, Appended
    <3> QED
      BY <2>1, <3>2
  <2>3. Elems(pending) = {d} /\ Elems(pending') = {}
    BY <1>0, <1>2, FewElems
  <2> QED
    BY <2>2, <2>3 DEF Waiting
<1> QED
  BY <1>1, <1>2 DEF PoolInv, WaitingInv

LEMMA PoolAppend ==
    ASSUME PoolInv, TypesInv', AppendTask
    PROVE  PoolInv'
<1>1. /\ conn = "appending" /\ conn' = "consuming" /\ pending' = <<>>
      /\ tasks_buffer' = tasks_buffer \o pending
      /\ UNCHANGED <<queue, link, session, outbox, sem, thread>>
      /\ tasks_buffer \in Seq(Delivery)
  BY DEF AppendTask, broker, pool, past, PoolInv, TypesInv
<1>2. Waiting' = Waiting /\ Distinct(tasks_buffer')
  BY AppendWaits
<1>3. WaitingInv'
  BY <1>1, <1>2 DEF PoolInv, WaitingInv
<1>4. FreshInv'
  BY <1>1, <1>2, FreshKept DEF PoolInv, Coming
<1>5. OutboxInv'
  BY <1>1, OutboxKept DEF PoolInv
<1>6. SlotInv'
  BY <1>1, SlotKept DEF PoolInv, HoldsSlot, Live
<1> QED
  BY <1>3, <1>4, <1>5, <1>6 DEF PoolInv

(* A method was done for the thread at the head of the outbox, which goes  *)
(* on with its slot.                                                       *)
LEMMA PoolMethodSucceeds ==
    ASSUME PoolInv, TypesInv', MethodSucceeds
    PROVE  PoolInv'
<1>1. /\ conn \in {"consuming", "draining"} /\ outbox # <<>> /\ outbox' = Tail(outbox)
      /\ UNCHANGED <<queue, link, session, conn, pending, tasks_buffer, sem>>
  BY DEF MethodSucceeds, Done, pool
<1>2. PICK d \in Delivery : d = Head(outbox).of /\ thread[d] \in {"acking", "sending"}
  <2>1. Head(outbox) \in Elems(outbox) /\ Head(outbox) \in Envelope
    BY <1>1, Popped DEF PoolInv, TypesInv
  <2> QED
    BY <1>1, <2>1 DEF PoolInv, OutboxInv, Asking, Envelope
<1>3. /\ thread'[d] \in {"sent", "handling", "answering"}
      /\ \A x \in Delivery \ {d} : thread'[x] = thread[x]
  BY <1>2 DEF MethodSucceeds, Done, Goto, PoolInv, TypesInv
<1>4. Waiting \subseteq Delivery
  BY ElemsTyped DEF Waiting, PoolInv, TypesInv
<1>5. WaitingInv' /\ Waiting' = Waiting
  BY <1>1, <1>2, <1>3, <1>4, WaitingKept DEF PoolInv
<1>6. FreshInv'
  BY <1>1, <1>2, <1>3, <1>5, FreshKept DEF PoolInv, Coming
<1>7. OutboxInv'
  BY <1>1, <1>2, <1>3, OutboxPopped DEF PoolInv
<1>8. SlotInv'
  BY <1>1, <1>2, <1>3, SlotKept DEF PoolInv, HoldsSlot, Live
<1> QED
  BY <1>5, <1>6, <1>7, <1>8 DEF PoolInv

LEMMA PoolMethodAgain ==
    ASSUME PoolInv, TypesInv', MethodMeetsClosedConnection
    PROVE  PoolInv'
<1>1. /\ conn \in {"consuming", "draining"} /\ outbox # <<>>
      /\ outbox' = Append(Tail(outbox), Head(outbox))
      /\ \/ conn = "consuming" /\ conn' = "reconnecting"
         \/ conn' = "gone"
      /\ UNCHANGED <<queue, link, session, thread, pending, tasks_buffer, sem>>
  BY DEF MethodMeetsClosedConnection, pool, broker
<1>2. Distinct(outbox) /\ outbox \in Seq(Envelope)
  BY <1>1 DEF PoolInv, OutboxInv, TypesInv
<1>3. Distinct(outbox') /\ Elems(outbox') = Elems(outbox)
  BY <1>1, <1>2, Rotated
<1>4. OutboxInv'
  BY <1>1, <1>3 DEF PoolInv, OutboxInv, Asking
<1>5. WaitingInv' /\ Waiting' = Waiting
  BY <1>1, WaitingKept DEF PoolInv
<1>6. FreshInv'
  BY <1>1, <1>5, FreshKept DEF PoolInv, Coming
<1>7. SlotInv'
  BY <1>1, SlotKept DEF PoolInv, HoldsSlot, Live
<1> QED
  BY <1>4, <1>5, <1>6, <1>7 DEF PoolInv

(* The thread that asked dies with its slot, but then consume() ends too.  *)
LEMMA PoolMethodRaises ==
    ASSUME PoolInv, TypesInv', MethodRaises
    PROVE  PoolInv'
<1>1. /\ conn \in {"consuming", "draining"} /\ outbox # <<>> /\ outbox' = Tail(outbox)
      /\ conn' \in {"draining", "gone"}
      /\ UNCHANGED <<queue, link, session, pending, tasks_buffer, sem>>
  BY DEF MethodRaises, pool, broker
<1>2. PICK d \in Delivery : d = Head(outbox).of /\ thread[d] \in {"acking", "sending"}
  <2>1. Head(outbox) \in Elems(outbox) /\ Head(outbox) \in Envelope
    BY <1>1, Popped DEF PoolInv, TypesInv
  <2> QED
    BY <1>1, <2>1 DEF PoolInv, OutboxInv, Asking, Envelope
<1>3. thread'[d] = "raised" /\ \A x \in Delivery \ {d} : thread'[x] = thread[x]
  BY <1>2 DEF MethodRaises, Goto, PoolInv, TypesInv
<1>4. Waiting \subseteq Delivery
  BY ElemsTyped DEF Waiting, PoolInv, TypesInv
<1>5. WaitingInv' /\ Waiting' = Waiting
  BY <1>1, <1>2, <1>3, <1>4, WaitingKept DEF PoolInv
<1>6. FreshInv'
  BY <1>1, <1>2, <1>3, <1>5, FreshKept DEF PoolInv, Coming
<1>7. OutboxInv'
  BY <1>1, <1>2, <1>3, OutboxPopped DEF PoolInv
<1>8. SlotInv'
  BY <1>1, <1>2, <1>3, SlotGivenUp DEF PoolInv, HoldsSlot, Live
<1> QED
  BY <1>5, <1>6, <1>7, <1>8 DEF PoolInv

(* A thread that asks for nothing, or for a method, and keeps its slot.    *)
LEMMA PoolWorks ==
    ASSUME PoolInv, TypesInv', NEW d \in Delivery,
           Start(d) \/ HandleTask(d) \/ Answer(d)
    PROVE  PoolInv'
<1>1. UNCHANGED <<queue, link, session, conn, pending, tasks_buffer, sem>>
  BY DEF Start, HandleTask, Answer, pool, broker
<1>2. /\ thread[d] \in {"starting", "handling", "answering"}
      /\ thread'[d] \in {"handling", "acking", "answering", "sending", "sent"}
      /\ \A x \in Delivery \ {d} : thread'[x] = thread[x]
  BY DEF Start, HandleTask, Answer, Goto, PoolInv, TypesInv
<1>3. \/ outbox' = outbox
      \/ Ask(d, "basic_ack") /\ thread'[d] = "acking"
      \/ Ask(d, "reply") /\ thread'[d] = "sending"
  BY DEF Start, HandleTask, Answer, Goto, PoolInv, TypesInv
<1>4. Waiting \subseteq Delivery
  BY ElemsTyped DEF Waiting, PoolInv, TypesInv
<1>5. WaitingInv' /\ Waiting' = Waiting
  BY <1>1, <1>2, <1>4, WaitingKept DEF PoolInv
<1>6. FreshInv'
  BY <1>1, <1>2, <1>5, FreshKept DEF PoolInv, Coming
<1>7. OutboxInv'
  <2>1. CASE outbox' = outbox
    BY <1>1, <1>2, <2>1, OutboxKept DEF PoolInv
  <2>2. CASE Ask(d, "basic_ack") /\ thread'[d] = "acking"
    BY <1>1, <1>2, <2>2, OutboxGrows DEF PoolInv, Asking
  <2>3. CASE Ask(d, "reply") /\ thread'[d] = "sending"
    BY <1>1, <1>2, <2>3, OutboxGrows DEF PoolInv, Asking
  <2> QED
    BY <1>3, <2>1, <2>2, <2>3
<1>8. SlotInv'
  BY <1>1, <1>2, SlotKept DEF PoolInv, HoldsSlot, Live
<1> QED
  BY <1>5, <1>6, <1>7, <1>8 DEF PoolInv
(* os._exit: no slot is held any more. *)
LEMMA PoolStops ==
    ASSUME PoolInv, TypesInv', NEW d \in Delivery, StopAgent(d)
    PROVE  PoolInv'
<1>1. /\ conn' = "exited" /\ UNCHANGED <<queue, link, session, pending, tasks_buffer, sem>>
      /\ \A x \in Delivery : thread'[x] = IF thread[x] = "none" THEN "none" ELSE "ended"
  BY DEF StopAgent, pool, broker
<1>2. Waiting \subseteq Delivery
  BY ElemsTyped DEF Waiting, PoolInv, TypesInv
<1>3. WaitingInv' /\ Waiting' = Waiting
  BY <1>1, <1>2, WaitingKept DEF PoolInv
<1>4. FreshInv'
  BY <1>1, <1>3, FreshKept DEF PoolInv, Coming
<1>5. Holders' = {}
  BY <1>1 DEF Holders, HoldsSlot
<1>6. SlotInv'
  <2>1. sem \in Nat /\ threadpool_size \in Nat /\ Cardinality(Holders) \in Nat
    BY FS_CardinalityType, PoolAssumption DEF PoolInv, TypesInv, SlotInv
  <2>2. IsFiniteSet(Holders') /\ Cardinality(Holders') = 0
    BY <1>5, FS_EmptySet
  <2> QED
    BY <1>1, <2>1, <2>2 DEF PoolInv, SlotInv, Live
<1> QED
  BY <1>1, <1>3, <1>4, <1>6 DEF PoolInv, OutboxInv

(* The slot passes from d's thread to that of the oldest task that waits,  *)
(* or is about to be free.                                                 *)
LEMMA PoolRunsNext ==
    ASSUME PoolInv, TypesInv', NEW d \in Delivery, RunNext(d)
    PROVE  PoolInv'
<1>1. thread[d] = "sent" /\ UNCHANGED <<queue, link, session, conn, pending, outbox, sem>>
  BY DEF RunNext, broker
<1>2. CASE tasks_buffer = <<>> /\ Goto(d, "releasing") /\ UNCHANGED tasks_buffer
  <2>1. thread'[d] = "releasing" /\ \A x \in Delivery \ {d} : thread'[x] = thread[x]
    BY <1>2 DEF Goto, PoolInv, TypesInv
  <2>2. Waiting \subseteq Delivery
    BY ElemsTyped DEF Waiting, PoolInv, TypesInv
  <2>3. WaitingInv' /\ Waiting' = Waiting
    BY <1>1, <1>2, <2>1, <2>2, WaitingKept DEF PoolInv
  <2>4. FreshInv'
    BY <1>1, <2>1, <2>3, FreshKept DEF PoolInv, Coming
  <2>5. OutboxInv'
    BY <1>1, <2>1, OutboxKept DEF PoolInv
  <2>6. SlotInv'
    BY <1>1, <2>1, SlotKept DEF PoolInv, HoldsSlot, Live
  <2> QED
    BY <2>3, <2>4, <2>5, <2>6 DEF PoolInv
<1>3. CASE /\ tasks_buffer # <<>>
           /\ tasks_buffer' = Tail(tasks_buffer)
           /\ thread' = [thread EXCEPT ![d] = "ended", ![Head(tasks_buffer)] = "starting"]
  <2>1. PICK n \in Delivery : n = Head(tasks_buffer)
    BY <1>3, Popped DEF PoolInv, TypesInv
  <2>2. /\ n \in Elems(tasks_buffer)
        /\ Elems(tasks_buffer') = Elems(tasks_buffer) \ {n} /\ Distinct(tasks_buffer')
    BY <1>3, <2>1, Popped DEF PoolInv, TypesInv, WaitingInv
  <2>3. thread[n] = "none" /\ n # d
    BY <1>1, <2>2 DEF PoolInv, WaitingInv, Waiting
  <2>4. /\ thread'[d] = "ended" /\ thread'[n] = "starting"
        /\ \A x \in Delivery \ {d, n} : thread'[x] = thread[x]
    BY <1>3, <2>1, <2>3 DEF PoolInv, TypesInv
  <2>5. n \notin Elems(pending) /\ Elems(pending') = Elems(pending)
    <3>1. CASE pending = <<>>
      BY <1>1, <3>1, FewElems
    <3>2. ASSUME NEW x \in Delivery, pending = <<x>>, x \notin Elems(tasks_buffer)
          PROVE  n \notin Elems(pending) /\ Elems(pending') = Elems(pending)
      <4>1. Elems(pending) = {x} /\ pending' = pending /\ n # x
        BY <1>1, <2>2, <3>2, FewElems
      <4> QED
        BY <4>1
    <3> QED
      BY <3>1, <3>2 DEF PoolInv, WaitingInv
  <2>6. Waiting' = Waiting \ {n} /\ Waiting \subseteq Delivery /\ n \in Waiting
    BY <2>2, <2>5, ElemsTyped DEF Waiting, PoolInv, TypesInv
  <2>7. WaitingInv'
    BY <1>1, <2>2, <2>3, <2>4, <2>6 DEF PoolInv, WaitingInv
  <2>8. FreshInv'
    BY <1>1, <2>4, <2>6 DEF PoolInv, FreshInv, Coming
  <2>9. OutboxInv'
    BY <1>1, <2>3, <2>4, OutboxKept DEF PoolInv
  <2>10. SlotInv'
    <3>1. Holders' = (Holders \ {d}) \cup {n} /\ d \in Holders /\ n \notin Holders
      BY <1>1, <2>3, <2>4 DEF Holders, HoldsSlot
    <3>2. IsFiniteSet(Holders) /\ Cardinality(Holders) \in Nat
      BY FS_CardinalityType DEF PoolInv, SlotInv
    <3>3. /\ IsFiniteSet(Holders \ {d})
          /\ Cardinality(Holders \ {d}) = Cardinality(Holders) - 1
      BY <3>1, <3>2, FS_RemoveElement
    <3>4. IsFiniteSet(Holders') /\ Cardinality(Holders') = Cardinality(Holders)
      <4> DEFINE H == Holders \ {d}
      <4>1. n \notin H /\ IsFiniteSet(H) /\ Cardinality(H) = Cardinality(Holders) - 1
        BY <3>1, <3>3
      <4>2. Holders' = H \cup {n}
        BY <3>1
      <4> HIDE DEF H
      <4>3. IsFiniteSet(H \cup {n}) /\ Cardinality(H \cup {n}) = Cardinality(H) + 1
        BY <4>1, FS_AddElement
      <4> QED
        BY <3>2, <4>1, <4>2, <4>3
    <3> QED
      BY <1>1, <3>4 DEF PoolInv, SlotInv, Live
  <2> QED
    BY <2>7, <2>8, <2>9, <2>10 DEF PoolInv
<1> QED
  BY <1>2, <1>3 DEF RunNext

LEMMA PoolReleases ==
    ASSUME PoolInv, TypesInv', NEW d \in Delivery, Release(d)
    PROVE  PoolInv'
<1>1. /\ thread[d] = "releasing" /\ sem' = sem + 1
      /\ UNCHANGED <<queue, link, session, conn, pending, outbox, tasks_buffer>>
      /\ thread'[d] = "ended" /\ \A x \in Delivery \ {d} : thread'[x] = thread[x]
  BY DEF Release, Goto, broker, PoolInv, TypesInv
<1>2. Waiting \subseteq Delivery
  BY ElemsTyped DEF Waiting, PoolInv, TypesInv
<1>3. WaitingInv' /\ Waiting' = Waiting
  BY <1>1, <1>2, WaitingKept DEF PoolInv
<1>4. FreshInv'
  BY <1>1, <1>3, FreshKept DEF PoolInv, Coming
<1>5. OutboxInv'
  BY <1>1, OutboxKept DEF PoolInv
<1>6. SlotInv'
  BY <1>1, SlotGivenUp DEF PoolInv, HoldsSlot, Live
<1> QED
  BY <1>3, <1>4, <1>5, <1>6 DEF PoolInv

(* One step per action of Next. *)
LEMMA PoolStep == PoolInv /\ [Next]_vars => PoolInv'
<1> SUFFICES ASSUME PoolInv, [Next]_vars PROVE PoolInv'
  OBVIOUS
<1>t. TypesInv'
  BY TypesStep DEF PoolInv
<1>1. CASE LinkDrops
  BY <1>1, <1>t, PoolUnmoved DEF LinkDrops, Coming, pool
<1>2. CASE Restart
  BY <1>2, <1>t, PoolRestart
<1>3. ASSUME NEW m \in Message, Deliver(m) PROVE PoolInv'
  BY <1>3, <1>t, PoolDeliver
<1>4. CASE AppendTask
  BY <1>4, <1>t, PoolAppend
<1>5. CASE MethodSucceeds \/ MethodMeetsClosedConnection \/ MethodRaises
  BY <1>5, <1>t, PoolMethodSucceeds, PoolMethodAgain, PoolMethodRaises
<1>6. CASE Drained \/ NoticeDrop
  BY <1>6, <1>t, PoolUnmoved DEF Drained, NoticeDrop, Coming, pool, broker
<1>7. CASE Reconnect
  <2>1. /\ UNCHANGED <<queue, pending, tasks_buffer, outbox, sem, thread>>
        /\ conn = "reconnecting" /\ conn' \in {"consuming", "gone"}
    BY <1>7 DEF Reconnect, pool
  <2>2. ASSUME NEW d \in Delivery, Coming(d)' PROVE Coming(d)
    <3>1. session \in Nat /\ d.session \in Nat
      BY DEF PoolInv, TypesInv, Delivery
    <3>2. CASE session' = session + 1
      BY <2>2, <3>1, <3>2 DEF Coming
    <3>3. CASE UNCHANGED <<session, link>>
      BY <2>1, <2>2, <3>3 DEF Coming
    <3> QED
      BY <1>7, <3>2, <3>3 DEF Reconnect
  <2> QED
    BY <1>t, <2>1, <2>2, PoolUnmoved
<1>8. ASSUME NEW d \in Delivery, Work(d) PROVE PoolInv'
  BY <1>8, <1>t, PoolWorks, PoolStops, PoolRunsNext, PoolReleases DEF Work
<1>9. CASE UNCHANGED vars
  BY <1>9, <1>t, PoolUnmoved DEF vars, Coming
<1> QED
  BY <1>1, <1>2, <1>3, <1>4, <1>5, <1>6, <1>7, <1>8, <1>9 DEF Next, Connection

(* While the consumer consumes, no slot of the pool is lost and none is    *)
(* given out twice (process, _maybe_run_next_task).                        *)
THEOREM SlotsStayAccountedFor == Spec => []SlotsAccountedFor
<1>1. PoolInv => SlotsAccountedFor
  BY DEF PoolInv, SlotInv, SlotsAccountedFor, Holders, Live
<1> QED
  BY <1>1, PoolInit, PoolStep, PTL DEF Spec

(* The types of the state; with the counting above, the semaphore is never *)
(* released beyond its pool.                                               *)
THEOREM TypeCorrect == Spec => []TypeOK
<1>1. ASSUME PoolInv PROVE TypeOK
  <2>1. sem \in Nat /\ threadpool_size \in Nat /\ Cardinality(Holders) \in Nat
    BY <1>1, FS_CardinalityType, PoolAssumption DEF PoolInv, TypesInv, SlotInv
  <2>2. sem \in 0..threadpool_size
    BY <1>1, <2>1 DEF PoolInv, SlotInv
  <2> QED
    BY <1>1, <2>2 DEF PoolInv, TypesInv, TypeOK
<1> QED
  BY <1>1, PoolInit, PoolStep, PTL DEF Spec
-----------------------------------------------------------------------------
(* At most once.  A delivery whose ack is still to be made is unacked at   *)
(* the broker as long as its session lasts, and the ack that lets a task   *)
(* run takes it from there: nothing can deliver it again.                  *)
ToAck(d) == thread[d] \in {"starting", "acking"} \/ d \in Waiting

BrokerInv ==
    /\ queue \cap unacked = {}
    /\ ~late_ack => \A d \in Delivery :
          ToAck(d) /\ d.session = session /\ link => d.message \in unacked

OnceInv ==
    ~late_ack /\ ~lost_ack =>
        /\ \A m \in Message :
              \/ handled[m] = {}
              \/ m \notin queue \cup unacked /\ \E s \in 1..MaxSession : handled[m] = {s}
        /\ \A d \in Delivery : thread[d] = "handling" =>
              d.message \notin queue \cup unacked /\ handled[d.message] = {}
        /\ \A d, x \in Delivery :
              thread[d] = "handling" /\ thread[x] = "handling" /\ d.message = x.message => d = x

LEMMA BrokerKept ==
    ASSUME BrokerInv, UNCHANGED <<late_ack, queue, unacked, session, link>>,
           \A d \in Delivery : ToAck(d)' => ToAck(d)
    PROVE  BrokerInv'
  BY DEF BrokerInv

LEMMA OnceKept ==
    ASSUME OnceInv, UNCHANGED <<late_ack, handled>>, lost_ack => lost_ack',
           queue' \cup unacked' \subseteq queue \cup unacked,
           \A d \in Delivery : thread'[d] = "handling" => thread[d] = "handling"
    PROVE  OnceInv'
<1>1. \A d \in Delivery : d.message \in Message
  BY DEF Delivery
<1> QED
  BY <1>1 DEF OnceInv

LEMMA OnceVacuous ==
    ASSUME UNCHANGED <<late_ack, lost_ack>>, late_ack \/ lost_ack
    PROVE  OnceInv'
<1>1. late_ack' = late_ack /\ lost_ack' = lost_ack
  OBVIOUS
<1>2. CASE late_ack
  BY <1>1, <1>2 DEF OnceInv
<1>3. CASE lost_ack
  BY <1>1, <1>3 DEF OnceInv
<1> QED
  BY <1>2, <1>3

(* The ack of d's task is done, or its answer.                             *)
LEMMA MethodOnce ==
    ASSUME PoolInv, BrokerInv, OnceInv, MethodSucceeds
    PROVE  BrokerInv' /\ OnceInv'
<1>1. /\ conn # "exited" /\ outbox # <<>> /\ ~Stale(Head(outbox))
      /\ UNCHANGED <<late_ack, handled, queue, session, link, pending, tasks_buffer, result>>
  BY DEF MethodSucceeds, pool
<1>2. PICK d \in Delivery, e \in Envelope :
          e = Head(outbox) /\ d = e.of /\ thread[d] = Asking(e)
  <2>1. Head(outbox) \in Elems(outbox) /\ Head(outbox) \in Envelope
    BY <1>1, Popped DEF PoolInv, TypesInv
  <2> QED
    BY <1>1, <2>1 DEF PoolInv, OutboxInv, Envelope
<1>3. /\ thread'[d] = CASE e.method = "reply" -> "sent"
                        [] e.method = "basic_ack" /\ result[d] = "none" -> "handling"
                        [] OTHER -> "answering"
      /\ \A x \in Delivery \ {d} : thread'[x] = thread[x]
  BY <1>2 DEF MethodSucceeds, Done, Goto, PoolInv, TypesInv
<1>4. Waiting' = Waiting /\ d \notin Waiting
  BY <1>1, <1>2 DEF Waiting, PoolInv, WaitingInv, Asking
<1>5. \A x \in Delivery : ToAck(x)' => ToAck(x) /\ x # d
  BY <1>2, <1>3, <1>4 DEF ToAck
<1>6. \/ /\ link /\ lost_ack' = lost_ack
         /\ unacked' = IF e.method = "basic_ack" THEN unacked \ {d.message} ELSE unacked
      \/ ~link /\ e.method = "basic_ack" /\ unacked' = unacked /\ lost_ack' = TRUE
  BY <1>2 DEF MethodSucceeds
<1>7. CASE e.method = "basic_ack" /\ link
  <2>1. d.session = session /\ ToAck(d) /\ d.message \in Message
    BY <1>1, <1>2, <1>7 DEF Stale, ToAck, Asking, Delivery
  <2>2. unacked' = unacked \ {d.message} /\ lost_ack' = lost_ack
    BY <1>6, <1>7
  <2>3. \A x \in Delivery \ {d} : x.session = session => x.message # d.message
    BY <2>1 DEF Delivery
  <2>4. BrokerInv'
    BY <1>1, <1>5, <2>2, <2>3 DEF BrokerInv
  <2>5. ASSUME ~late_ack, ~lost_ack PROVE OnceInv'
    <3>1. /\ d.message \in unacked /\ d.message \notin queue
          /\ handled[d.message] = {}
          /\ \A x \in Delivery : thread[x] = "handling" => x.message # d.message
      BY <1>7, <2>1, <2>5 DEF BrokerInv, OnceInv
    <3> QED
      BY <1>1, <1>3, <2>2, <2>5, <3>1 DEF OnceInv
  <2>6. CASE late_ack \/ lost_ack
    BY <1>1, <2>2, <2>4, <2>6, OnceVacuous
  <2> QED
    BY <2>4, <2>5, <2>6
<1>8. CASE e.method = "basic_ack" /\ ~link
  <2>1. unacked' = unacked /\ lost_ack' = TRUE
    BY <1>6, <1>8
  <2> QED
    BY <1>1, <1>5, <2>1, BrokerKept DEF OnceInv
<1>9. CASE e.method = "reply"
  <2>1. unacked' = unacked /\ lost_ack' = lost_ack
    BY <1>6, <1>9
  <2>2. thread'[d] = "sent"
    BY <1>3, <1>9
  <2> QED
    BY <1>1, <1>3, <1>5, <2>1, <2>2, BrokerKept, OnceKept
<1> QED
  BY <1>7, <1>8, <1>9 DEF Envelope

LEMMA DeliverOnce ==
    ASSUME PoolInv, BrokerInv, OnceInv, NEW m \in Message, Deliver(m)
    PROVE  BrokerInv' /\ OnceInv'
<1>d. PICK d \in Delivery : d = [message |-> m, session |-> session]
  BY DEF PoolInv, TypesInv, Delivery
<1>1. /\ m \in queue /\ queue' = queue \ {m} /\ unacked' = unacked \cup {m}
      /\ UNCHANGED <<late_ack, handled, lost_ack, link, session, tasks_buffer>>
      /\ Process(d) /\ pending = <<>> /\ d.message = m
  BY <1>d DEF Deliver, past, PoolInv, WaitingInv
<1>2. \A x \in Delivery \ {d} : thread'[x] = thread[x]
  BY <1>1 DEF Process, Goto, PoolInv, TypesInv
<1>3. thread'[d] = thread[d] \/ thread'[d] = "starting"
  BY <1>1 DEF Process, Goto, PoolInv, TypesInv
<1>4. pending' = pending \/ pending' = <<d>>
  BY <1>1 DEF Process
<1>5. Waiting' \subseteq Waiting \cup {d}
  BY <1>1, <1>4, FewElems DEF Waiting
<1>6. BrokerInv'
  BY <1>1, <1>2, <1>5 DEF BrokerInv, ToAck
<1>7. OnceInv'
  BY <1>1, <1>2, <1>3, OnceKept
<1> QED
  BY <1>6, <1>7

LEMMA HandleOnce ==
    ASSUME PoolInv, BrokerInv, OnceInv, NEW d \in Delivery, HandleTask(d)
    PROVE  BrokerInv' /\ OnceInv'
<1>1. /\ thread[d] = "handling"
      /\ handled' = [handled EXCEPT ![d.message] = @ \cup {d.session}]
      /\ UNCHANGED <<late_ack, lost_ack, queue, unacked, link, session, pending, tasks_buffer>>
      /\ \A x \in Delivery \ {d} : thread'[x] = thread[x]
      /\ thread'[d] \in {"acking", "answering"}
      /\ ~late_ack => thread'[d] = "answering"
  BY DEF HandleTask, Goto, broker, pool, PoolInv, TypesInv
<1>2. Waiting' = Waiting
  BY <1>1 DEF Waiting
<1>3. BrokerInv'
  BY <1>1, <1>2 DEF BrokerInv, ToAck
<1>4. d.message \in Message /\ d.session \in 1..MaxSession
  BY DEF Delivery
<1>5. /\ handled'[d.message] = handled[d.message] \cup {d.session}
      /\ \A m \in Message \ {d.message} : handled'[m] = handled[m]
  BY <1>1, <1>4 DEF PoolInv, TypesInv
<1>6. ASSUME ~late_ack, ~lost_ack PROVE OnceInv'
  <2>1. /\ d.message \notin queue \cup unacked /\ handled[d.message] = {}
        /\ \A x \in Delivery \ {d} : thread[x] = "handling" => x.message # d.message
    BY <1>1, <1>6 DEF OnceInv
  <2>2. handled'[d.message] = {d.session}
    BY <1>5, <2>1
  <2>3. \A x \in Delivery : thread'[x] = "handling" =>
            x # d /\ thread[x] = "handling" /\ x.message \in Message \ {d.message}
    BY <1>1, <1>6, <2>1 DEF Delivery
  <2> QED
    BY <1>1, <1>4, <1>5, <1>6, <2>1, <2>2, <2>3 DEF OnceInv
<1>7. CASE late_ack \/ lost_ack
  BY <1>1, <1>3, <1>7, OnceVacuous
<1> QED
  BY <1>3, <1>6, <1>7
LEMMA OnceStep ==
    ASSUME PoolInv, BrokerInv, OnceInv, [Next]_vars
    PROVE  BrokerInv' /\ OnceInv'
<1> USE DEF broker, pool, past
<1>t. thread \in [Delivery -> ThreadState]
  BY DEF PoolInv, TypesInv
<1>1. CASE LinkDrops
  BY <1>1, OnceKept DEF LinkDrops, BrokerInv
<1>2. CASE Restart
  <2>1. \A d \in Delivery : thread'[d] \in {"none", "ended"}
    BY <1>2 DEF Restart
  <2>2. Waiting' = {}
    BY <1>2, FewElems DEF Restart, Waiting
  <2> QED
    BY <1>2, <2>1, <2>2, OnceKept DEF Restart, BrokerInv, ToAck
<1>3. ASSUME NEW m \in Message, Deliver(m) PROVE BrokerInv' /\ OnceInv'
  BY <1>3, DeliverOnce
<1>4. CASE AppendTask
  <2>1. Waiting' \subseteq Waiting
    BY <1>4, AppendWaits
  <2> QED
    BY <1>4, <2>1, OnceKept, BrokerKept DEF AppendTask, ToAck
<1>5. CASE MethodSucceeds
  BY <1>5, MethodOnce
<1>6. CASE MethodMeetsClosedConnection \/ Drained \/ NoticeDrop
  <2>1. UNCHANGED <<late_ack, lost_ack, handled, queue, unacked, session, link, thread,
                    pending, tasks_buffer>>
    BY <1>6 DEF MethodMeetsClosedConnection, Drained, NoticeDrop
  <2> QED
    BY <2>1, OnceKept, BrokerKept DEF ToAck, Waiting
<1>7. CASE MethodRaises
  <2>1. UNCHANGED <<late_ack, lost_ack, handled, queue, unacked, session, link,
                    pending, tasks_buffer>>
    BY <1>7 DEF MethodRaises
  <2>2. \A d \in Delivery : thread'[d] = thread[d] \/ thread'[d] = "raised"
    BY <1>7, <1>t DEF MethodRaises, Goto
  <2> QED
    BY <2>1, <2>2, OnceKept, BrokerKept DEF ToAck, Waiting
<1>8. CASE Reconnect
  <2>1. UNCHANGED <<late_ack, lost_ack, handled, queue, unacked, thread, pending, tasks_buffer>>
    BY <1>8 DEF Reconnect
  <2>2. OnceInv'
    BY <2>1, OnceKept
  <2>3. CASE UNCHANGED <<session, link>>
    <3>1. \A d \in Delivery : ToAck(d)' => ToAck(d)
      BY <2>1 DEF ToAck, Waiting
    <3> QED
      BY <2>1, <2>2, <2>3, <3>1, BrokerKept
  <2>4. CASE session' = session + 1
    <3>1. ASSUME NEW d \in Delivery, d.session = session' PROVE ~ToAck(d)'
      <4>1. session \in Nat /\ d.session > session
        BY <2>4, <3>1 DEF PoolInv, TypesInv, Delivery
      <4>2. thread[d] = "none" /\ d \notin Waiting
        BY <4>1 DEF PoolInv, FreshInv, Coming
      <4> QED
        BY <2>1, <4>2 DEF ToAck, Waiting
    <3>2. queue' \cap unacked' = {}
      BY <2>1 DEF BrokerInv
    <3> QED
      BY <2>1, <2>2, <3>1, <3>2 DEF BrokerInv
  <2> QED
    BY <1>8, <2>2, <2>3, <2>4 DEF Reconnect
<1>9. ASSUME NEW d \in Delivery, Start(d) PROVE BrokerInv' /\ OnceInv'
  <2>1. /\ UNCHANGED <<late_ack, lost_ack, handled, queue, unacked, session, link,
                       pending, tasks_buffer>>
        /\ thread[d] = "starting" /\ \A x \in Delivery \ {d} : thread'[x] = thread[x]
        /\ \/ late_ack /\ thread'[d] = "handling"
           \/ ~late_ack /\ thread'[d] = "acking"
    BY <1>9, <1>t DEF Start, Goto
  <2>2. BrokerInv'
    BY <2>1, BrokerKept DEF ToAck, Waiting
  <2>3. CASE late_ack
    BY <2>1, <2>2, <2>3, OnceVacuous
  <2>4. CASE ~late_ack
    <3>1. \A x \in Delivery : thread'[x] = "handling" => thread[x] = "handling"
      BY <2>1, <2>4
    <3> QED
      BY <2>1, <2>2, <3>1, OnceKept
  <2> QED
    BY <2>2, <2>3, <2>4
<1>10. ASSUME NEW d \in Delivery, HandleTask(d) PROVE BrokerInv' /\ OnceInv'
  BY <1>10, HandleOnce
<1>11. ASSUME NEW d \in Delivery, Answer(d) \/ StopAgent(d) \/ Release(d)
       PROVE  BrokerInv' /\ OnceInv'
  <2>1. UNCHANGED <<late_ack, lost_ack, handled, queue, unacked, session, link,
                    pending, tasks_buffer>>
    BY <1>11 DEF Answer, StopAgent, Release
  <2>2. \A x \in Delivery :
           thread'[x] = thread[x] \/ thread'[x] \in {"sending", "sent", "ended"}
    BY <1>11, <1>t DEF Answer, StopAgent, Release, Goto
  <2> QED
    BY <2>1, <2>2, OnceKept, BrokerKept DEF ToAck, Waiting
<1>12. ASSUME NEW d \in Delivery, RunNext(d) PROVE BrokerInv' /\ OnceInv'
  <2>1. UNCHANGED <<late_ack, lost_ack, handled, queue, unacked, session, link, pending>>
    BY <1>12 DEF RunNext
  <2>2. CASE tasks_buffer = <<>> /\ Goto(d, "releasing") /\ UNCHANGED tasks_buffer
    <3>1. \A x \in Delivery : thread'[x] = thread[x] \/ thread'[x] = "releasing"
      BY <1>t, <2>2 DEF Goto
    <3> QED
      BY <2>1, <2>2, <3>1, OnceKept, BrokerKept DEF ToAck, Waiting
  <2>3. CASE /\ tasks_buffer # <<>>
             /\ tasks_buffer' = Tail(tasks_buffer)
             /\ thread' = [thread EXCEPT ![d] = "ended", ![Head(tasks_buffer)] = "starting"]
    <3>1. /\ Head(tasks_buffer) \in Waiting
          /\ Elems(tasks_buffer') \subseteq Elems(tasks_buffer)
      BY <2>3, Popped DEF PoolInv, TypesInv, WaitingInv, Waiting
    <3>2. Waiting' \subseteq Waiting
      BY <2>1, <3>1 DEF Waiting
    <3>3. \A x \in Delivery : \/ thread'[x] = thread[x]
                              \/ thread'[x] = "ended"
                              \/ thread'[x] = "starting" /\ x \in Waiting
      BY <1>t, <2>3, <3>1
    <3> QED
      BY <2>1, <3>2, <3>3, OnceKept, BrokerKept DEF ToAck
  <2> QED
    BY <1>12, <2>2, <2>3 DEF RunNext
<1>13. CASE UNCHANGED vars
  BY <1>13, OnceKept, BrokerKept DEF vars, ToAck, Waiting
<1> QED
  BY <1>1, <1>2, <1>3, <1>4, <1>5, <1>6, <1>7, <1>8, <1>9, <1>10, <1>11, <1>12,
     <1>13 DEF Next, Connection, Work

(* Without late_ack a task is handled once at most, over all redeliveries  *)
(* and restarts (_process_message), unless an ack was written to a dead    *)
(* connection.                                                             *)
THEOREM NoTaskIsRunTwice == Spec => []AtMostOnce
<1>1. Init => PoolInv /\ BrokerInv /\ OnceInv
  <2>1. ASSUME Init PROVE BrokerInv /\ OnceInv
    <3>1. \A d \in Delivery : thread[d] = "none" /\ d \notin Waiting
      BY <2>1, FewElems DEF Init, Waiting
    <3> QED
      BY <2>1, <3>1 DEF Init, BrokerInv, OnceInv, ToAck
  <2> QED
    BY <2>1, PoolInit
<1>2. (PoolInv /\ BrokerInv /\ OnceInv) /\ [Next]_vars => (PoolInv /\ BrokerInv /\ OnceInv)'
  BY PoolStep, OnceStep
<1>3. ASSUME PoolInv, OnceInv PROVE AtMostOnce
  <2> SUFFICES ASSUME ~late_ack, ~lost_ack, NEW m \in Message
               PROVE  Cardinality(handled[m]) <= 1
    BY DEF AtMostOnce
  <2>1. CASE handled[m] = {}
    BY <2>1, FS_EmptySet
  <2>2. ASSUME NEW k, handled[m] = {k} PROVE Cardinality(handled[m]) <= 1
    BY <2>2, FS_Singleton
  <2> QED
    BY <1>3, <2>1, <2>2 DEF OnceInv
<1> QED
  BY <1>1, <1>2, <1>3, PTL DEF Spec
=============================================================================
