-------------------------- MODULE RemoteTaskProofs --------------------------
(***************************************************************************)
(* Proofs about the sending of remote tasks and the keeping of their       *)
(* responses, for every set of tasks and every number of lives, of         *)
(* connections and of requests.                                            *)
(***************************************************************************)
EXTENDS RemoteTask, TLAPS

(* Whatever is on its way to being sent was not sent before: not by this   *)
(* process, which is at that step, and not by an earlier one, for a task   *)
(* is only sent again if neither "sent" nor an end was stored.             *)
SentOnceInv ==
    /\ stored \in [Task -> StoredState]
    /\ requests \in [Task -> Nat]
    /\ pc \in [Task -> Step]
    /\ should_send \in [Task -> BOOLEAN]
    /\ ~unconfirmed => \A t \in Task :
          /\ requests[t] <= 1
          /\ stored[t] \in {"pending", "sending"} => requests[t] = 0
          /\ should_send[t] /\ pc[t] \notin {"ready", "done"} => requests[t] = 0
          /\ pc[t] = "send" => should_send[t] /\ stored[t] \in {"sent", "terminated"}
          /\ pc[t] # "publish"

(* A response that was kept has the tag it came with, if its session lasts. *)
TagsAreRight ==
    \A t \in Task : \A kept \in responses[t] \cup popped[t] :
        /\ kept.session \in 1..session
        /\ kept.session = session =>
              kept.tag \in 1..Len(delivered) /\ delivered[kept.tag].of = t

(* Whatever was acked, is about to be, or was seen to be terminated is. *)
StoredFirst ==
    /\ \A t \in settled : stored[t] = "terminated"
    /\ \A t \in Task : pc[t] = "ack" => stored[t] = "terminated"
    /\ conn \in {"callback", "basic_ack"} => current \in 1..Len(delivered)
    /\ conn = "basic_ack" => stored[delivered[current].of] = "terminated"
    /\ ~wrong_ack => \A i \in acked : stored[delivered[i].of] = "terminated"

KeptInv ==
    /\ stored \in [Task -> StoredState]
    /\ pc \in [Task -> Step]
    /\ session \in Nat \ {0}
    /\ answered \subseteq Response
    /\ queue \subseteq Response
    /\ delivered \in Seq(Response)
    /\ acked \subseteq 1..Len(delivered)
    /\ settled \subseteq Task
    /\ responses \in [Task -> SUBSET [tag : Nat, session : Nat]]
    /\ popped \in [Task -> SUBSET [tag : Nat, session : Nat]]
    /\ TagsAreRight
    /\ StoredFirst
    /\ ResponseKeptUntilStored

-----------------------------------------------------------------------------
LEMMA SentOnceInit == Init => SentOnceInv
  BY DEF Init, SentOnceInv, StoredState, Step

LEMMA SentOnceStep == SentOnceInv /\ [Next]_vars => SentOnceInv'
<1> SUFFICES ASSUME SentOnceInv, [Next]_vars PROVE SentOnceInv'
  OBVIOUS
<1> USE DEF SentOnceInv, StoredState, Step, world, channel, dicts, Goto, SetState, Settle
<1>1. ASSUME NEW t \in Task, Apply(t) PROVE SentOnceInv'
  <2>1. should_send' \in [Task -> BOOLEAN] /\ stored' \in [Task -> StoredState]
    BY <1>1 DEF Apply
  <2>2. should_send'[t] => stored[t] \in {"pending", "sending"}
    BY <1>1 DEF Apply
  <2>3. \A x \in Task \ {t} :
           should_send'[x] = should_send[x] /\ stored'[x] = stored[x] /\ pc'[x] = pc[x]
    BY <1>1 DEF Apply
  <2>4. stored'[t] \in {"pending", "sending"} => stored[t] \in {"pending", "sending"}
    BY <1>1 DEF Apply
  <2>5. pc' \in [Task -> Step] /\ pc'[t] = "look" /\ UNCHANGED <<requests, unconfirmed>>
    BY <1>1 DEF Apply
  <2> QED
    BY <2>1, <2>2, <2>3, <2>4, <2>5
<1>2. ASSUME NEW t \in Task, Look(t) PROVE SentOnceInv'
  BY <1>2 DEF Look
<1>3. ASSUME NEW t \in Task, Register(t) PROVE SentOnceInv'
  BY <1>3 DEF Register
<1>4. ASSUME NEW t \in Task, SettleKept(t) PROVE SentOnceInv'
  BY <1>4 DEF SettleKept
<1>5. ASSUME NEW t \in Task, AckKept(t) PROVE SentOnceInv'
  BY <1>5 DEF AckKept
<1>6. ASSUME NEW t \in Task, MarkSent(t) PROVE SentOnceInv'
  BY <1>6 DEF MarkSent
<1>7. ASSUME NEW t \in Task, SendTask(t) PROVE SentOnceInv'
  BY <1>7 DEF SendTask
<1>8. ASSUME NEW t \in Task, SendUnconfirmed(t) PROVE SentOnceInv'
  BY <1>8 DEF SendUnconfirmed
<1>9. ASSUME NEW t \in Task, SendFails(t) PROVE SentOnceInv'
  BY <1>9 DEF SendFails
<1>10. ASSUME NEW r \in Response, Deliver(r) PROVE SentOnceInv'
  BY <1>10 DEF Deliver
<1>11. CASE CallBack
  BY <1>11 DEF CallBack
<1>12. CASE AckResponse \/ Reconnect
  BY <1>12 DEF AckResponse, Reconnect
<1>13. ASSUME NEW r \in Response, Answer(r) PROVE SentOnceInv'
  BY <1>13 DEF Answer
<1>14. CASE Resume
  BY <1>14 DEF Resume
<1>15. CASE UNCHANGED vars
  BY <1>15 DEF vars
<1> QED
  BY <1>1, <1>2, <1>3, <1>4, <1>5, <1>6, <1>7, <1>8, <1>9, <1>10, <1>11, <1>12,
     <1>13, <1>14, <1>15 DEF Next, ApplyAsync, Connection

(* No operation is requested twice, however often the process that runs    *)
(* the execution dies and the execution is resumed (apply_async,           *)
(* send_task), unless the broker took a message without confirming it.     *)
THEOREM NothingIsSentTwice == Spec => []RequestedOnce
<1>1. SentOnceInv => RequestedOnce
  BY DEF SentOnceInv, RequestedOnce
<1> QED
  BY <1>1, SentOnceInit, SentOnceStep, PTL DEF Spec

-----------------------------------------------------------------------------
LEMMA KeptInit == Init => KeptInv
  BY DEF Init, KeptInv, StoredState, Step, TagsAreRight, StoredFirst,
         ResponseKeptUntilStored, Response

(* Storing ends only adds to what is terminated. *)
LEMMA StoringSteps ==
    ASSUME KeptInv,
           stored' \in [Task -> StoredState],
           \A t \in Task : stored[t] = "terminated" => stored'[t] = "terminated",
           settled' \subseteq Task,
           \A t \in settled' : stored'[t] = "terminated",
           pc' \in [Task -> Step],
           \A t \in Task : pc'[t] = "ack" => stored'[t] = "terminated",
           responses' \in [Task -> SUBSET [tag : Nat, session : Nat]],
           popped' \in [Task -> SUBSET [tag : Nat, session : Nat]],
           \A t \in Task : responses'[t] \cup popped'[t] \subseteq responses[t] \cup popped[t],
           UNCHANGED <<queue, answered, wrong_ack, session, delivered, acked>>,
           UNCHANGED <<conn, current>>
    PROVE  KeptInv'
<1>1. TagsAreRight'
  BY DEF KeptInv, TagsAreRight
<1>2. \A i \in 1..Len(delivered) : delivered[i] \in Response
  BY DEF KeptInv
<1>3. StoredFirst'
  BY <1>2 DEF KeptInv, StoredFirst, Response
<1>4. ResponseKeptUntilStored'
  BY DEF KeptInv, ResponseKeptUntilStored, Unacked, Response
<1> QED
  BY <1>1, <1>3, <1>4 DEF KeptInv

(* A new connection forgets the tags and gets back what was not acked. *)
LEMMA RedeliverSteps ==
    ASSUME KeptInv, Redeliver,
           UNCHANGED <<stored, answered, wrong_ack>>,
           settled' \subseteq settled,
           pc' \in [Task -> Step],
           \A t \in Task : pc'[t] = "ack" => pc[t] = "ack",
           responses' \in [Task -> SUBSET [tag : Nat, session : Nat]],
           popped' \in [Task -> SUBSET [tag : Nat, session : Nat]],
           \A t \in Task : responses'[t] \cup popped'[t] \subseteq responses[t] \cup popped[t]
    PROVE  KeptInv'
<1>1. session' = session + 1 /\ session' \in Nat \ {0}
  BY DEF Redeliver, KeptInv
<1>2. TagsAreRight'
  BY <1>1 DEF KeptInv, TagsAreRight
<1>3. StoredFirst'
  BY DEF KeptInv, StoredFirst, Redeliver
<1>4. Unacked \subseteq Response
  BY DEF KeptInv, Unacked
<1>5. delivered' \in Seq(Response) /\ acked' \subseteq 1..Len(delivered') /\ queue' \subseteq Response
  BY <1>4 DEF KeptInv, Redeliver
<1>6. ResponseKeptUntilStored'
  BY DEF KeptInv, ResponseKeptUntilStored, Redeliver
<1> QED
  BY <1>1, <1>2, <1>3, <1>5, <1>6 DEF KeptInv

(* One more response has the next tag; the tags there were stay right. *)
LEMMA DeliverSteps == ASSUME KeptInv, NEW r \in Response, Deliver(r) PROVE KeptInv'
<1> DEFINE n == Len(delivered) + 1
<1>1. /\ delivered' \in Seq(Response)
      /\ Len(delivered') = n
      /\ delivered'[n] = r
      /\ \A i \in 1..Len(delivered) : delivered'[i] = delivered[i]
      /\ Len(delivered) \in Nat
  BY DEF KeptInv, Deliver
<1>2. /\ UNCHANGED <<stored, answered, session, acked, popped, pc, settled, wrong_ack>>
      /\ queue' = queue \ {r} /\ r \in queue
      /\ conn' = "up" \/ (conn' = "callback" /\ current' = n)
  BY <1>1 DEF Deliver
<1> HIDE DEF n
<1>3. responses' \in [Task -> SUBSET [tag : Nat, session : Nat]] /\ TagsAreRight'
  <2>1. CASE responses' = responses
    BY <1>1, <1>2, <2>1 DEF KeptInv, TagsAreRight, n
  <2>2. CASE responses' = [responses EXCEPT ![r.of] = {[tag |-> n, session |-> session]}]
    <3>1. [tag |-> n, session |-> session] \in [tag : Nat, session : Nat]
      BY <1>1 DEF KeptInv, n
    <3>2. responses' \in [Task -> SUBSET [tag : Nat, session : Nat]]
      BY <2>2, <3>1 DEF KeptInv
    <3>3. r.of \in Task /\ session \in 1..session
      BY DEF Response, KeptInv
    <3>4. ASSUME NEW t \in Task, NEW kept \in responses'[t] \cup popped'[t]
          PROVE  /\ kept.session \in 1..session'
                 /\ kept.session = session' =>
                       kept.tag \in 1..Len(delivered') /\ delivered'[kept.tag].of = t
      <4>1. CASE kept \in responses[t] \cup popped[t]
        <5>1. /\ kept.session \in 1..session
              /\ kept.session = session =>
                    kept.tag \in 1..Len(delivered) /\ delivered[kept.tag].of = t
          BY <4>1 DEF KeptInv, TagsAreRight
        <5>2. 1..Len(delivered) \subseteq 1..Len(delivered')
          BY <1>1 DEF n
        <5> QED
          BY <1>1, <1>2, <5>1, <5>2
      <4>2. CASE t = r.of /\ kept = [tag |-> n, session |-> session]
        BY <1>1, <1>2, <3>3, <4>2 DEF n
      <4> QED
        BY <1>2, <2>2, <3>4, <4>1, <4>2 DEF KeptInv
    <3> QED
      BY <3>2, <3>4 DEF TagsAreRight
  <2> QED
    BY <2>1, <2>2, <1>1 DEF Deliver, n
<1>4. acked' \subseteq 1..Len(delivered') /\ acked \subseteq 1..Len(delivered)
  BY <1>1, <1>2 DEF KeptInv, n
<1>5. StoredFirst'
  <2>1. \A i \in acked' : delivered'[i] = delivered[i] /\ i \in acked
    BY <1>1, <1>2, <1>4
  <2>2. n \in 1..Len(delivered')
    BY <1>1 DEF n
  <2> QED
    BY <1>2, <2>1, <2>2 DEF KeptInv, StoredFirst
<1>6. ResponseKeptUntilStored'
  <2>1. Unacked \cup {r} \subseteq Unacked'
    <3>1. n \in (1..Len(delivered')) \ acked'
      BY <1>1, <1>2, <1>4 DEF n
    <3>2. \A i \in (1..Len(delivered)) \ acked :
             i \in (1..Len(delivered')) \ acked' /\ delivered'[i] = delivered[i]
      BY <1>1, <1>2 DEF n
    <3> QED
      BY <1>1, <3>1, <3>2 DEF Unacked
  <2> QED
    BY <1>2, <2>1 DEF KeptInv, ResponseKeptUntilStored
<1> QED
  BY <1>1, <1>2, <1>3, <1>4, <1>5, <1>6 DEF KeptInv

(* An ack of the response with tag i, whose outcome is stored, unless the  *)
(* tag is of an earlier connection.                                        *)
LEMMA AckSteps ==
    ASSUME KeptInv, NEW i \in 1..Len(delivered),
           acked' = acked \cup {i},
           ~wrong_ack' => ~wrong_ack /\ stored[delivered[i].of] = "terminated",
           conn' = "up",
           pc' \in [Task -> Step],
           \A t \in Task : pc'[t] = "ack" => pc[t] = "ack",
           popped' \in [Task -> SUBSET [tag : Nat, session : Nat]],
           \A t \in Task : popped'[t] \subseteq popped[t],
           UNCHANGED <<stored, settled, answered, queue, session, delivered, responses>>
    PROVE  KeptInv'
<1>1. TagsAreRight'
  BY DEF KeptInv, TagsAreRight
<1>2. StoredFirst'
  BY DEF KeptInv, StoredFirst
<1>3. ResponseKeptUntilStored'
  BY DEF KeptInv, ResponseKeptUntilStored, Unacked
<1>4. acked' \subseteq 1..Len(delivered')
  BY DEF KeptInv
<1> QED
  BY <1>1, <1>2, <1>3, <1>4 DEF KeptInv

(* One step per action of Next. *)
LEMMA KeptStep == KeptInv /\ [Next]_vars => KeptInv'
<1> SUFFICES ASSUME KeptInv, [Next]_vars PROVE KeptInv'
  OBVIOUS
<1> USE DEF world, channel, dicts
<1>k. /\ stored \in [Task -> StoredState]
      /\ pc \in [Task -> Step]
      /\ settled \subseteq Task
      /\ responses \in [Task -> SUBSET [tag : Nat, session : Nat]]
      /\ popped \in [Task -> SUBSET [tag : Nat, session : Nat]]
      /\ \A t \in settled : stored[t] = "terminated"
      /\ \A t \in Task : pc[t] = "ack" => stored[t] = "terminated"
  BY DEF KeptInv, StoredFirst
<1>1. ASSUME NEW t \in Task, Apply(t) \/ MarkSent(t) PROVE KeptInv'
  BY <1>1, <1>k, StoringSteps DEF Apply, MarkSent, Goto, SetState, StoredState, Step
<1>2. ASSUME NEW t \in Task, SettleKept(t) \/ SendFails(t) PROVE KeptInv'
  BY <1>2, <1>k, StoringSteps
     DEF SettleKept, SendFails, Goto, Settle, SetState, StoredState, Step
<1>3. ASSUME NEW t \in Task, Look(t) PROVE KeptInv'
  BY <1>3, <1>k, StoringSteps DEF Look, Goto, Step
<1>4. ASSUME NEW t \in Task, Register(t) \/ SendTask(t) PROVE KeptInv'
  BY <1>4, <1>k, StoringSteps DEF Register, SendTask, Goto, Step
<1>5. ASSUME NEW t \in Task, AckKept(t) PROVE KeptInv'
  <2>1. /\ pc' \in [Task -> Step]
        /\ \A x \in Task : pc'[x] = "ack" => pc[x] = "ack"
        /\ popped' \in [Task -> SUBSET [tag : Nat, session : Nat]]
        /\ \A x \in Task : popped'[x] \subseteq popped[x]
        /\ UNCHANGED <<stored, settled, answered, queue, session, delivered,
                       current, responses>>
        /\ pc[t] = "ack" /\ conn = "up"
    BY <1>5, <1>k DEF AckKept, Goto, Step
  <2>2. PICK kept \in popped[t] :
          /\ wrong_ack' = (wrong_ack \/ kept.session # session)
          /\ \/ /\ kept.tag \in (1..Len(delivered)) \ acked
                /\ acked' = acked \cup {kept.tag}
                /\ conn' = conn
             \/ acked' = acked /\ conn' = "gone"
    BY <1>5 DEF AckKept
  <2>3. kept.session = session => delivered[kept.tag].of = t
    BY <2>2 DEF KeptInv, TagsAreRight
  <2>4. CASE acked' = acked /\ conn' = "gone"
    <3>1. TagsAreRight'
      BY <2>1, <2>4 DEF KeptInv, TagsAreRight
    <3>2. ~wrong_ack' => ~wrong_ack
      BY <2>2
    <3>3. StoredFirst'
      BY <2>1, <2>4, <3>2 DEF KeptInv, StoredFirst
    <3>4. ResponseKeptUntilStored'
      BY <2>1, <2>4, <3>2 DEF KeptInv, ResponseKeptUntilStored, Unacked
    <3> QED
      BY <2>1, <2>4, <3>1, <3>3, <3>4 DEF KeptInv
  <2>5. CASE kept.tag \in 1..Len(delivered) /\ acked' = acked \cup {kept.tag} /\ conn' = conn
    <3>1. ~wrong_ack' => ~wrong_ack /\ stored[delivered[kept.tag].of] = "terminated"
      BY <1>k, <2>1, <2>2, <2>3
    <3> QED
      BY <2>1, <2>5, <3>1, AckSteps
  <2> QED
    BY <2>2, <2>4, <2>5
<1>6. ASSUME NEW t \in Task, SendUnconfirmed(t) PROVE KeptInv'
  BY <1>6, <1>k, RedeliverSteps DEF SendUnconfirmed, Goto, Step
<1>7. ASSUME NEW r \in Response, Deliver(r) PROVE KeptInv'
  BY <1>7, DeliverSteps
<1>8. CASE CallBack
  <2>1. current \in 1..Len(delivered) /\ delivered[current] \in Response
    BY <1>8 DEF CallBack, KeptInv, StoredFirst
  <2>2. delivered[current].of \in Task
    BY <2>1 DEF Response
  <2>3. /\ stored' \in [Task -> StoredState]
        /\ settled' \subseteq Task
        /\ \A t \in Task : stored[t] = "terminated" => stored'[t] = "terminated"
        /\ \A t \in settled' : stored'[t] = "terminated"
        /\ stored'[delivered[current].of] = "terminated"
    BY <1>8, <1>k, <2>2 DEF CallBack, Settle, SetState, StoredState
  <2>4. /\ conn' = "basic_ack"
        /\ UNCHANGED <<queue, answered, wrong_ack, session, delivered, acked, current,
                       pc, responses, popped>>
    BY <1>8 DEF CallBack
  <2>5. TagsAreRight'
    BY <2>4 DEF KeptInv, TagsAreRight
  <2>6. \A i \in 1..Len(delivered) : delivered[i] \in Response
    BY DEF KeptInv
  <2>7. StoredFirst'
    BY <2>1, <2>3, <2>4, <2>6 DEF KeptInv, StoredFirst, Response
  <2>8. ResponseKeptUntilStored'
    BY <2>3, <2>4 DEF KeptInv, ResponseKeptUntilStored, Unacked, Response
  <2> QED
    BY <2>3, <2>4, <2>5, <2>7, <2>8 DEF KeptInv
<1>9. CASE AckResponse
  <2>1. current \in 1..Len(delivered) /\ stored[delivered[current].of] = "terminated"
    BY <1>9 DEF AckResponse, KeptInv, StoredFirst
  <2> QED
    BY <1>9, <1>k, <2>1, AckSteps DEF AckResponse
<1>10. CASE Reconnect
  BY <1>10, <1>k, RedeliverSteps DEF Reconnect
<1>11. ASSUME NEW r \in Response, Answer(r) PROVE KeptInv'
  <2>1. TagsAreRight' /\ StoredFirst'
    BY <1>11 DEF Answer, KeptInv, TagsAreRight, StoredFirst
  <2>2. ResponseKeptUntilStored'
    BY <1>11 DEF Answer, KeptInv, ResponseKeptUntilStored, Unacked
  <2> QED
    BY <1>11, <2>1, <2>2 DEF Answer, KeptInv
<1>12. CASE Resume
  BY <1>12, <1>k, RedeliverSteps DEF Resume, Step
<1>13. CASE UNCHANGED vars
  BY <1>13 DEF vars, KeptInv, TagsAreRight, StoredFirst, ResponseKeptUntilStored, Unacked
<1> QED
  BY <1>1, <1>2, <1>3, <1>4, <1>5, <1>6, <1>7, <1>8, <1>9, <1>10, <1>11, <1>12,
     <1>13 DEF Next, ApplyAsync, Connection

(* No crash of the workflow loses a response whose outcome is not stored   *)
(* (process, wait_for_task), unless a tag of an earlier connection was     *)
(* acked.                                                                  *)
THEOREM ResponsesAreKept == Spec => []ResponseKeptUntilStored
<1>1. KeptInv => ResponseKeptUntilStored
  BY DEF KeptInv
<1> QED
  BY <1>1, KeptInit, KeptStep, PTL DEF Spec
-----------------------------------------------------------------------------
(* What KeptInv does not say of the types: counters within their bounds,   *)
(* and the rest of the dicts and of the channel.                           *)
CountersInv ==
    /\ requests \in [Task -> 0..MaxRequest]
    /\ life \in 1..MaxLife
    /\ session \in 1..MaxSession
    /\ conn \in {"up", "callback", "basic_ack", "gone"}
    /\ current \in 0..Len(delivered)
    /\ tasks \subseteq Task
    /\ should_send \in [Task -> BOOLEAN]
    /\ unconfirmed \in BOOLEAN
    /\ wrong_ack \in BOOLEAN

LEMMA CountersInit == Init => CountersInv
<1> SUFFICES ASSUME Init PROVE CountersInv
  OBVIOUS
<1>1. 0 \in 0..MaxRequest /\ 1 \in 1..MaxLife /\ 1 \in 1..MaxSession
  BY RemoteAssumption
<1>2. requests \in [Task -> 0..MaxRequest] /\ should_send \in [Task -> BOOLEAN]
  BY <1>1 DEF Init
<1>3. current \in 0..Len(delivered)
  BY DEF Init
<1> QED
  BY <1>1, <1>2, <1>3 DEF Init, CountersInv

LEMMA CountersStep == CountersInv /\ KeptInv /\ [Next]_vars => CountersInv'
<1> SUFFICES ASSUME CountersInv, KeptInv, [Next]_vars PROVE CountersInv'
  OBVIOUS
<1> USE DEF CountersInv, world, channel, dicts
<1>d. delivered \in Seq(Response)
  BY DEF KeptInv
<1>0. ASSUME NEW t \in Task, Apply(t) PROVE CountersInv'
  <2>1. should_send' \in [Task -> BOOLEAN]
    BY <1>0 DEF Apply
  <2> QED
    BY <1>0, <2>1 DEF Apply
<1>1. ASSUME NEW t \in Task, Look(t) \/ Register(t) \/ SettleKept(t) PROVE CountersInv'
  BY <1>1 DEF Look, Register, SettleKept
<1>2. ASSUME NEW t \in Task, AckKept(t) PROVE CountersInv'
  BY <1>2 DEF AckKept
<1>3. ASSUME NEW t \in Task, MarkSent(t) \/ SendFails(t) PROVE CountersInv'
  BY <1>3 DEF MarkSent, SendFails
<1>4. ASSUME NEW t \in Task, SendTask(t) PROVE CountersInv'
  BY <1>4, RemoteAssumption DEF SendTask
<1>5. ASSUME NEW t \in Task, SendUnconfirmed(t) PROVE CountersInv'
  BY <1>5, RemoteAssumption DEF SendUnconfirmed, Redeliver
<1>6. ASSUME NEW r \in Response, Deliver(r) PROVE CountersInv'
  <2>1. Len(delivered') = Len(delivered) + 1 /\ Len(delivered) \in Nat
    BY <1>6, <1>d DEF Deliver
  <2> QED
    BY <1>6, <2>1 DEF Deliver
<1>7. CASE CallBack \/ AckResponse
  BY <1>7, <1>d DEF CallBack, AckResponse
<1>8. CASE Reconnect
  BY <1>8, RemoteAssumption DEF Reconnect, Redeliver
<1>9. ASSUME NEW r \in Response, Answer(r) PROVE CountersInv'
  BY <1>9 DEF Answer
<1>10. CASE Resume
  BY <1>10, RemoteAssumption DEF Resume, Redeliver
<1>11. CASE UNCHANGED vars
  BY <1>11 DEF vars
<1> QED
  BY <1>0, <1>1, <1>2, <1>3, <1>4, <1>5, <1>6, <1>7, <1>8, <1>9, <1>10, <1>11
     DEF Next, ApplyAsync, Connection

(* The types of the state; a response that is kept came by a connection    *)
(* there has been (wait_for_task, process).                                *)
THEOREM TypeCorrect == Spec => []TypeOK
<1>1. ASSUME KeptInv, CountersInv PROVE TypeOK
  <2>1. \A t \in Task : \A kept \in responses[t] \cup popped[t] :
            kept.session \in 1..MaxSession
    <3>1. session \in 1..MaxSession /\ MaxSession \in Nat
      BY <1>1, RemoteAssumption DEF CountersInv
    <3>2. \A n \in 1..session : n \in 1..MaxSession
      BY <3>1
    <3> QED
      BY <1>1, <3>2 DEF KeptInv, TagsAreRight
  <2>2. responses \in [Task -> SUBSET Kept] /\ popped \in [Task -> SUBSET Kept]
    BY <1>1, <2>1 DEF KeptInv, Kept
  <2> QED
    BY <1>1, <2>2 DEF KeptInv, CountersInv, TypeOK
<1> QED
  BY <1>1, KeptInit, KeptStep, CountersInit, CountersStep, PTL DEF Spec
=============================================================================
