----------------------------- MODULE RemoteTask -----------------------------
(***************************************************************************)
(* A workflow's remote operations from RemoteWorkflowTask.apply_async to   *)
(* _WorkflowTaskHandler's callback, over crashes of the workflow's process *)
(* and its resumption from the stored states.                              *)
(*                                                                         *)
(* The state of every task is stored at the manager as it changes.  The    *)
(* responses of an execution wait in a durable queue; what this process    *)
(* was given and did not ack is given again to its next connection, or to  *)
(* the process that resumes the execution.  A response is matched with its *)
(* task by two dicts: _tasks, of tasks that wait for a response, and       *)
(* _responses, of responses that nobody waited for yet.                    *)
(*                                                                         *)
(* What a response says does not matter here: the states succeeded, failed *)
(* and rescheduled are all "terminated".                                   *)
(***************************************************************************)
EXTENDS Naturals, Sequences, FiniteSets

CONSTANTS
    Task,       \* the remote tasks of a stored graph
    MaxLife,    \* bound: processes that run the execution
    MaxSession, \* bound: connections to the broker, in all lives together
    MaxRequest  \* bound: requests that one task's publishing may leave

ASSUME RemoteAssumption ==
    MaxLife \in Nat \ {0} /\ MaxSession \in Nat \ {0} /\ MaxRequest \in Nat \ {0}

(* The answer to the nth request for a task; its correlation_id is the     *)
(* task's id.                                                              *)
Response == [of : Task, n : 1..MaxRequest]

VARIABLES
    stored,       \* state of each task in the manager's storage
    requests,     \* requests for each task that reached its queue
    answered,     \* history: the responses the agents have sent
    queue,        \* responses at the broker that are not delivered
    life,         \* number of the process
    session,      \* number of the connection
    delivered,    \* responses of this session; the index is the delivery tag
    acked,        \* tags of this session that were acked
    conn,         \* "up", "gone", or what process() is doing
    current,      \* delivery tag process() is busy with
    tasks,        \* _tasks
    responses,    \* _responses: tag and session of the response kept, or {}
    popped,       \* the response wait_for_task took from there, or {}
    pc,           \* where apply_async of each task is
    should_send,  \* apply_async's local variable
    settled,      \* tasks whose async_result.result is set in this life
    unconfirmed,  \* history: a publish was repeated for want of a confirm
    wrong_ack     \* history: a tag of an earlier session was acked

vars == <<stored, requests, answered, queue, life, session, delivered, acked, conn,
          current, tasks, responses, popped, pc, should_send, settled, unconfirmed, wrong_ack>>

dicts   == <<tasks, responses, popped>>
world   == <<requests, answered, queue, life, unconfirmed>>
channel == <<session, delivered, acked, conn, current>>

StoredState == {"pending", "sending", "sent", "terminated"}
Step == {"ready", "look", "settle", "ack", "register", "waited", "send", "publish",
         "done"}
Kept == [tag : Nat, session : 1..MaxSession]

TypeOK ==
    /\ stored \in [Task -> StoredState]
    /\ requests \in [Task -> 0..MaxRequest]
    /\ answered \subseteq Response
    /\ queue \subseteq Response
    /\ life \in 1..MaxLife
    /\ session \in 1..MaxSession
    /\ delivered \in Seq(Response)
    /\ acked \subseteq 1..Len(delivered)
    /\ conn \in {"up", "callback", "basic_ack", "gone"}
    /\ current \in 0..Len(delivered)
    /\ tasks \subseteq Task
    /\ responses \in [Task -> SUBSET Kept]
    /\ popped \in [Task -> SUBSET Kept]
    /\ pc \in [Task -> Step]
    /\ should_send \in [Task -> BOOLEAN]
    /\ settled \subseteq Task
    /\ unconfirmed \in BOOLEAN
    /\ wrong_ack \in BOOLEAN

Init ==
    /\ stored = [t \in Task |-> "pending"]
    /\ requests = [t \in Task |-> 0]
    /\ answered = {}
    /\ queue = {}
    /\ life = 1
    /\ session = 1
    /\ delivered = <<>>
    /\ acked = {}
    /\ conn = "up"
    /\ current = 0
    /\ tasks = {}
    /\ responses = [t \in Task |-> {}]
    /\ popped = [t \in Task |-> {}]
    /\ pc = [t \in Task |-> "ready"]
    /\ should_send = [t \in Task |-> FALSE]
    /\ settled = {}
    /\ unconfirmed = FALSE
    /\ wrong_ack = FALSE

Goto(t, step) == pc' = [pc EXCEPT ![t] = step]

(* set_state: a terminated task stays as it is. *)
SetState(t, s) ==
    stored' = [stored EXCEPT ![t] = IF @ = "terminated" THEN @ ELSE s]

(* _task_callback, when it has something to say; and the state of a task   *)
(* that could not be sent.                                                 *)
Settle(t) ==
    /\ SetState(t, "terminated")
    /\ settled' = settled \cup {t}

Unacked == {delivered[i] : i \in (1..Len(delivered)) \ acked}

(* A new connection: the broker gives the client again what it did not ack. *)
Redeliver ==
    /\ session < MaxSession
    /\ session' = session + 1
    /\ queue' = queue \cup Unacked
    /\ delivered' = <<>>
    /\ acked' = {}
    /\ conn' = "up"
    /\ current' = 0

-----------------------------------------------------------------------------
(* apply_async of task t                                                   *)

(* A terminated task is not restored at all. *)
Apply(t) ==
    /\ pc[t] = "ready"
    /\ stored[t] # "terminated"
    /\ should_send' = [should_send EXCEPT ![t] = stored[t] \in {"pending", "sending"}]
    /\ SetState(t, IF stored[t] = "pending" THEN "sending" ELSE stored[t])
    /\ Goto(t, "look")
    /\ UNCHANGED <<world, channel, dicts, settled, wrong_ack>>

(* wait_for_task: is there a response already? *)
Look(t) ==
    /\ pc[t] = "look"
    /\ popped' = [popped EXCEPT ![t] = responses[t]]
    /\ responses' = [responses EXCEPT ![t] = {}]
    /\ Goto(t, IF responses[t] # {} THEN "settle" ELSE "register")
    /\ UNCHANGED <<world, channel, stored, tasks, should_send, settled,
                   wrong_ack>>

Register(t) ==
    /\ pc[t] = "register"
    /\ tasks' = tasks \cup {t}
    /\ Goto(t, "waited")
    /\ UNCHANGED <<world, channel, stored, responses, popped, should_send,
                   settled, wrong_ack>>

SettleKept(t) ==
    /\ pc[t] = "settle"
    /\ Settle(t)
    /\ Goto(t, "ack")
    /\ UNCHANGED <<world, channel, dicts, should_send, wrong_ack>>

(* channel_method('basic_ack') names no channel: the tag is taken for one  *)
(* of the connection there is now.  If it was never given out there, the   *)
(* broker closes the channel, and consume() ends.                          *)
AckKept(t) ==
    /\ pc[t] = "ack"
    /\ conn = "up"
    /\ \E kept \in popped[t] :
          /\ wrong_ack' = (wrong_ack \/ kept.session # session)
          /\ \/ /\ kept.tag \in (1..Len(delivered)) \ acked
                /\ acked' = acked \cup {kept.tag}
                /\ conn' = conn
             \/ /\ kept.tag \notin (1..Len(delivered)) \ acked
                /\ acked' = acked
                /\ conn' = "gone"
    /\ popped' = [popped EXCEPT ![t] = {}]
    /\ Goto(t, "waited")
    /\ UNCHANGED <<world, session, delivered, current, stored, tasks,
                   responses, should_send, settled>>

(* Mutant: the state is stored after the message is sent, not before. *)
MarkSentLate(t) ==
    /\ pc[t] = "waited"
    /\ Goto(t, IF should_send[t] THEN "send" ELSE "done")
    /\ UNCHANGED <<world, channel, stored, dicts, should_send, settled,
                   wrong_ack>>

MarkSent(t) ==
    /\ pc[t] = "waited"
    /\ \/ should_send[t] /\ SetState(t, "sent") /\ Goto(t, "send")
       \/ ~should_send[t] /\ UNCHANGED stored /\ Goto(t, "done")
    /\ UNCHANGED <<world, channel, dicts, should_send, settled, wrong_ack>>

(* send_task, when the agent is alive and the broker confirms the message *)
SendTask(t) ==
    /\ pc[t] \in {"send", "publish"}
    /\ conn = "up"
    /\ requests[t] < MaxRequest
    /\ requests' = [requests EXCEPT ![t] = @ + 1]
    /\ Goto(t, "done")
    /\ UNCHANGED <<answered, queue, life, unconfirmed, channel, stored, dicts,
                   should_send, settled, wrong_ack>>

(* The message arrives but the connection closes before the confirm does:  *)
(* the envelope is queued again, and sent again on the next connection.    *)
SendUnconfirmed(t) ==
    /\ pc[t] \in {"send", "publish"}
    /\ conn = "up"
    /\ requests[t] + 1 < MaxRequest
    /\ requests' = [requests EXCEPT ![t] = @ + 1]
    /\ Goto(t, "publish")
    /\ unconfirmed' = TRUE
    /\ Redeliver
    /\ UNCHANGED <<answered, life, stored, dicts, should_send, settled,
                   wrong_ack>>

(* No agent is known (_set_queue_kwargs), or it is not alive (send_task). *)
SendFails(t) ==
    /\ pc[t] \in {"look", "send"}
    /\ Settle(t)
    /\ Goto(t, "done")
    /\ UNCHANGED <<world, channel, dicts, should_send, wrong_ack>>

ApplyAsync(t) ==
    \/ Apply(t) \/ Look(t) \/ Register(t) \/ SettleKept(t) \/ AckKept(t)
    \/ MarkSent(t) \/ SendTask(t) \/ SendUnconfirmed(t) \/ SendFails(t)

-----------------------------------------------------------------------------
(* The connection thread: _WorkflowTaskHandler.process                     *)

(* Mutant: the response is acked before the callback stores its outcome. *)
DeliverAcks(r) ==
    /\ conn = "up"
    /\ r \in queue
    /\ queue' = queue \ {r}
    /\ delivered' = Append(delivered, r)
    /\ acked' = acked \cup {Len(delivered')}
    /\ \/ /\ r.of \in tasks
          /\ tasks' = tasks \ {r.of}
          /\ conn' = "callback"
          /\ current' = Len(delivered')
          /\ responses' = responses
       \/ /\ r.of \notin tasks
          /\ responses' = [responses EXCEPT
                 ![r.of] = {[tag |-> Len(delivered'), session |-> session]}]
          /\ UNCHANGED <<tasks, conn, current>>
    /\ UNCHANGED <<stored, requests, answered, life, session, popped, pc,
                   should_send, settled, unconfirmed, wrong_ack>>

(* Mutant: a response nobody waits for is acked and forgotten. *)
DeliverForgets(r) ==
    /\ conn = "up"
    /\ r \in queue
    /\ queue' = queue \ {r}
    /\ delivered' = Append(delivered, r)
    /\ \/ /\ r.of \in tasks
          /\ tasks' = tasks \ {r.of}
          /\ conn' = "callback"
          /\ current' = Len(delivered')
          /\ acked' = acked
       \/ /\ r.of \notin tasks
          /\ acked' = acked \cup {Len(delivered')}
          /\ UNCHANGED <<tasks, conn, current>>
    /\ UNCHANGED <<stored, requests, answered, life, session, responses, popped,
                   pc, should_send, settled, unconfirmed, wrong_ack>>

Deliver(r) ==
    /\ conn = "up"
    /\ r \in queue
    /\ queue' = queue \ {r}
    /\ delivered' = Append(delivered, r)
    /\ \/ /\ r.of \in tasks
          /\ tasks' = tasks \ {r.of}
          /\ conn' = "callback"
          /\ current' = Len(delivered')
          /\ responses' = responses
       \/ /\ r.of \notin tasks
          /\ responses' = [responses EXCEPT
                 ![r.of] = {[tag |-> Len(delivered'), session |-> session]}]
          /\ UNCHANGED <<tasks, conn, current>>
    /\ UNCHANGED <<stored, requests, answered, life, session, acked, popped,
                   pc, should_send, settled, unconfirmed, wrong_ack>>

CallBack ==
    /\ conn = "callback"
    /\ LET t == delivered[current].of
       IN  IF t \in settled THEN UNCHANGED <<stored, settled>> ELSE Settle(t)
    /\ conn' = "basic_ack"
    /\ UNCHANGED <<world, session, delivered, acked, current, dicts, pc,
                   should_send, wrong_ack>>

AckResponse ==
    /\ conn = "basic_ack"
    /\ acked' = acked \cup {current}
    /\ conn' = "up"
    /\ current' = 0
    /\ UNCHANGED <<world, session, delivered, stored, dicts, pc, should_send,
                   settled, wrong_ack>>

(* ConnectionClosed: consume() connects again. *)
Reconnect ==
    /\ conn \in {"up", "basic_ack"}
    /\ Redeliver
    /\ UNCHANGED <<stored, requests, answered, life, dicts, pc, should_send,
                   settled, unconfirmed, wrong_ack>>

Connection == (\E r \in Response : Deliver(r)) \/ CallBack \/ AckResponse

-----------------------------------------------------------------------------
(* The agents, and the management worker that resumes an execution, are    *)
(* outside this code.                                                      *)

Answer(r) ==
    /\ r \notin answered
    /\ r.n <= requests[r.of]
    /\ answered' = answered \cup {r}
    /\ queue' = queue \cup {r}
    /\ UNCHANGED <<requests, life, unconfirmed, channel, stored, dicts, pc,
                   should_send, settled, wrong_ack>>

(* The process dies and another one resumes the execution. *)
Resume ==
    /\ life < MaxLife
    /\ life' = life + 1
    /\ Redeliver
    /\ tasks' = {}
    /\ responses' = [t \in Task |-> {}]
    /\ popped' = [t \in Task |-> {}]
    /\ pc' = [t \in Task |-> "ready"]
    /\ should_send' = [t \in Task |-> FALSE]
    /\ settled' = {}
    /\ UNCHANGED <<stored, requests, answered, unconfirmed, wrong_ack>>

Next == \/ \E t \in Task : ApplyAsync(t)
        \/ Connection \/ Reconnect
        \/ \E r \in Response : Answer(r)
        \/ Resume

Spec == Init /\ [][Next]_vars

(* Threads run, the broker delivers, and every agent answers at last. *)
Fairness == /\ \A t \in Task : WF_vars(ApplyAsync(t))
            /\ WF_vars(Connection)
            /\ \A r \in Response : WF_vars(Answer(r))

FairSpec == Spec /\ Fairness

-----------------------------------------------------------------------------
(* However often the process dies and is resumed, an operation is sent to  *)
(* its agent once at most: apply_async stores "sent" before it sends.  The *)
(* one exception is a message the broker took without confirming it.       *)
RequestedOnce == ~unconfirmed => \A t \in Task : requests[t] <= 1

(* A response leaves the broker only when its outcome is stored, so no     *)
(* crash of the workflow can lose it: both process() and wait_for_task ack *)
(* after the callback.  The one exception is the ack of a tag of an        *)
(* earlier connection, which acks some other response.                     *)
ResponseKeptUntilStored ==
    ~wrong_ack => \A r \in answered \ (queue \cup Unacked) : stored[r.of] = "terminated"

(* "sent" was stored, and the process died before it sent the message: the *)
(* process that resumes the execution waits for an answer to nothing.      *)
NeverSent(t) == /\ stored[t] = "sent"
                /\ requests[t] = 0
                /\ pc[t] = "done"

(* wait_for_task found no response, process() found no task, and each then *)
(* left what it had for the other.                                         *)
MissedEachOther(t) == t \in tasks /\ responses[t] # {}

(* Every task of the execution ends, but for the three ways the code has   *)
(* to lose one.                                                            *)
EveryTaskEnds ==
    \A t \in Task :
        []<>(stored[t] = "terminated" \/ NeverSent(t) \/ MissedEachOther(t) \/ conn = "gone")
=============================================================================
