---------------------------- MODULE TaskConsumer ----------------------------
(***************************************************************************)
(* cloudify.amqp_client.TaskConsumer, which runs the operations an agent   *)
(* or a management worker is sent, on the AMQPConnection that serves it.   *)
(*                                                                         *)
(* One connection thread (consume) reads the broker's deliveries and does  *)
(* every channel method other threads ask for through                      *)
(* _connection_tasks_queue; one thread per task (_process_message) acks    *)
(* it, runs it and answers it.  A semaphore bounds the threads, and a task *)
(* that finds it taken waits in _tasks_buffer for a thread that ends.      *)
(*                                                                         *)
(* The connection may drop, which the broker sees before the client does,  *)
(* and the process may die and be started again; either way the broker     *)
(* gives what was not acked to the next session.                           *)
(***************************************************************************)
EXTENDS Integers, Sequences, FiniteSets

CONSTANTS
    Message,         \* the tasks that are sent to the queue
    Malformed,       \* those whose body is not JSON
    threadpool_size, \* slots, and prefetch_count
    MaxSession       \* bound: connections, over every life of the process

ASSUME PoolAssumption ==
    /\ Malformed \subseteq Message
    /\ threadpool_size \in Nat \ {0}
    /\ MaxSession \in Nat \ {0}

(* A message delivered twice is handled by two threads with two tags. *)
Delivery == [message : Message, session : 1..MaxSession]

VARIABLES
    late_ack,     \* the class attribute: ack after handle_task, not before
    queue,        \* at the broker: messages not delivered
    unacked,      \* at the broker: delivered in this session and not acked
    link,         \* the broker still serves this session
    session,      \* number of the client's connection
    conn,         \* the connection thread
    pending,      \* what process() could not start, and will append
    outbox,       \* _connection_tasks_queue
    sem,          \* _sem
    tasks_buffer, \* _tasks_buffer
    thread,       \* the thread of each delivery
    result,       \* what handle_task returned
    handled,      \* history: the sessions in which each message was handled
    lost_ack      \* history: an ack was written to a dead connection

vars == <<late_ack, queue, unacked, link, session, conn, pending, outbox, sem,
          tasks_buffer, thread, result, handled, lost_ack>>

broker == <<queue, unacked, link, session>>
pool   == <<sem, tasks_buffer>>
past   == <<late_ack, handled, lost_ack>>

ConnState   == {"consuming", "appending", "reconnecting", "draining", "gone", "exited"}
ThreadState == {"none", "starting", "acking", "handling", "answering", "sending",
                "sent", "finishing", "releasing", "ended", "raised"}
Result      == {"none", "value", "NO_RESPONSE", "STOP_AGENT"}
Envelope    == [method : {"basic_ack", "reply"}, of : Delivery]

TypeOK ==
    /\ late_ack \in BOOLEAN
    /\ queue \subseteq Message
    /\ unacked \subseteq Message
    /\ link \in BOOLEAN
    /\ session \in 1..MaxSession
    /\ conn \in ConnState
    /\ pending \in Seq(Delivery)
    /\ outbox \in Seq(Envelope)
    /\ sem \in 0..threadpool_size
    /\ tasks_buffer \in Seq(Delivery)
    /\ thread \in [Delivery -> ThreadState]
    /\ result \in [Delivery -> Result]
    /\ handled \in [Message -> SUBSET (1..MaxSession)]
    /\ lost_ack \in BOOLEAN

Init ==
    /\ late_ack \in BOOLEAN
    /\ queue = Message
    /\ unacked = {}
    /\ link = TRUE
    /\ session = 1
    /\ conn = "consuming"
    /\ pending = <<>>
    /\ outbox = <<>>
    /\ sem = threadpool_size
    /\ tasks_buffer = <<>>
    /\ thread = [d \in Delivery |-> "none"]
    /\ result = [d \in Delivery |-> "none"]
    /\ handled = [m \in Message |-> {}]
    /\ lost_ack = FALSE

Goto(d, pc) == thread' = [thread EXCEPT ![d] = pc]

-----------------------------------------------------------------------------
(* The broker and the machine, outside this code.                          *)

(* The broker loses the client and takes back what was not acked. *)
LinkDrops ==
    /\ link
    /\ session < MaxSession
    /\ link' = FALSE
    /\ queue' = queue \cup unacked
    /\ unacked' = {}
    /\ UNCHANGED <<session, conn, pending, outbox, thread, result, pool, past>>

(* The process dies, or had ended, and is started again with empty memory. *)
Restart ==
    /\ session < MaxSession
    /\ session' = session + 1
    /\ link' = TRUE
    /\ queue' = queue \cup unacked
    /\ unacked' = {}
    /\ conn' = "consuming"
    /\ pending' = <<>>
    /\ outbox' = <<>>
    /\ sem' = threadpool_size
    /\ tasks_buffer' = <<>>
    /\ thread' = [d \in Delivery |-> IF thread[d] = "none" THEN "none" ELSE "ended"]
    /\ UNCHANGED <<result, past>>

-----------------------------------------------------------------------------
(* The connection thread                                                   *)

(* basic_qos: the broker delivers no more than this many unacked messages. *)
WindowOpen == Cardinality(unacked) < threadpool_size

(* process(): the semaphore is tried without waiting.  A body that does    *)
(* not parse is dropped, and never acked.                                  *)
Process(d) ==
    \/ /\ d.message \in Malformed
       /\ UNCHANGED <<conn, pending, sem, thread>>
    \/ /\ d.message \notin Malformed
       /\ sem > 0
       /\ sem' = sem - 1
       /\ Goto(d, "starting")
       /\ UNCHANGED <<conn, pending>>
    \/ /\ d.message \notin Malformed
       /\ sem = 0
       /\ conn' = "appending"
       /\ pending' = <<d>>
       /\ UNCHANGED <<sem, thread>>

Deliver(m) ==
    /\ conn = "consuming"
    /\ link
    /\ m \in queue
    /\ WindowOpen
    /\ queue' = queue \ {m}
    /\ unacked' = unacked \cup {m}
    /\ Process([message |-> m, session |-> session])
    /\ UNCHANGED <<link, session, outbox, tasks_buffer, result, past>>

(* _tasks_buffer.append, after the semaphore was found taken *)
AppendTask ==
    /\ conn = "appending"
    /\ tasks_buffer' = tasks_buffer \o pending
    /\ pending' = <<>>
    /\ conn' = "consuming"
    /\ UNCHANGED <<broker, outbox, sem, thread, result, past>>

(* A channel method was done: the thread that waits for it goes on. *)
Done(e) ==
    /\ outbox' = Tail(outbox)
    /\ Goto(e.of, CASE e.method = "reply" -> "sent"
                    [] e.method = "basic_ack" /\ result[e.of] = "none" -> "handling"
                    [] OTHER -> "answering")

(* Mutant: an ack of an earlier session is taken for done. *)
StaleNever(e) == FALSE

(* An ack belongs to the channel its message came by. *)
Stale(e) == e.method = "basic_ack" /\ e.of.session # session

MethodSucceeds ==
    /\ conn \in {"consuming", "draining"}
    /\ outbox # <<>>
    /\ LET e == Head(outbox) IN
           /\ ~Stale(e)
           /\ Done(e)
           /\ \/ /\ link
                 /\ unacked' = IF e.method = "basic_ack"
                               THEN unacked \ {e.of.message} ELSE unacked
                 /\ lost_ack' = lost_ack
              \/ /\ ~link             \* nobody confirms an ack
                 /\ e.method = "basic_ack"
                 /\ unacked' = unacked
                 /\ lost_ack' = TRUE
    /\ UNCHANGED <<late_ack, queue, link, session, conn, pending, result, handled, pool>>

(* ConnectionClosed: the envelope is queued again and consume() reconnects, *)
(* unless it is on its way out.                                            *)
MethodMeetsClosedConnection ==
    /\ conn \in {"consuming", "draining"}
    /\ outbox # <<>>
    /\ ~link
    /\ ~Stale(Head(outbox))
    /\ outbox' = Append(Tail(outbox), Head(outbox))
    /\ conn' = IF conn = "consuming" THEN "reconnecting" ELSE "gone"
    /\ UNCHANGED <<broker, pending, thread, result, pool, past>>

(* Any other error is raised in the thread that asked as well as here, and *)
(* ends consume(): at once, or for a ChannelClosed after what is left in   *)
(* the outbox was done.  An answer may meet one too: a reply queue that is *)
(* not empty, or an exchange that is gone, closes the channel, and nothing *)
(* succeeds on it afterwards.                                              *)
MethodRaises ==
    /\ conn \in {"consuming", "draining"}
    /\ outbox # <<>>
    /\ outbox' = Tail(outbox)
    /\ Goto(Head(outbox).of, "raised")
    /\ \/ /\ Stale(Head(outbox))
          /\ conn' \in IF conn = "consuming" THEN {"draining", "gone"} ELSE {"gone"}
       \/ /\ link
          /\ Head(outbox).method = "reply"
          /\ conn' = "gone"
    /\ UNCHANGED <<broker, pending, result, pool, past>>

Drained ==
    /\ conn = "draining"
    /\ outbox = <<>>
    /\ conn' = "gone"
    /\ UNCHANGED <<broker, pending, outbox, thread, result, pool, past>>

NoticeDrop ==
    /\ conn = "consuming"
    /\ ~link
    /\ conn' = "reconnecting"
    /\ UNCHANGED <<broker, pending, outbox, thread, result, pool, past>>

(* connect() succeeds before its deadline, or raises out of consume(). *)
Reconnect ==
    /\ conn = "reconnecting"
    /\ \/ /\ session < MaxSession
          /\ session' = session + 1
          /\ link' = TRUE
          /\ conn' = "consuming"
       \/ /\ conn' = "gone"
          /\ UNCHANGED <<session, link>>
    /\ UNCHANGED <<queue, unacked, pending, outbox, thread, result, pool, past>>

Connection == \/ \E m \in Message : Deliver(m)
              \/ AppendTask
              \/ MethodSucceeds \/ MethodMeetsClosedConnection \/ MethodRaises
              \/ Drained \/ NoticeDrop \/ Reconnect

-----------------------------------------------------------------------------
(* _process_message, in the thread of delivery d                           *)

Ask(d, method) == outbox' = Append(outbox, [method |-> method, of |-> d])

(* Mutant: acks first whatever late_ack says. *)
StartAcks(d) ==
    /\ thread[d] = "starting"
    /\ Goto(d, "acking")
    /\ Ask(d, "basic_ack")
    /\ UNCHANGED <<broker, conn, pending, result, pool, past>>

Start(d) ==
    /\ thread[d] = "starting"
    /\ \/ late_ack /\ Goto(d, "handling") /\ UNCHANGED outbox
       \/ ~late_ack /\ Goto(d, "acking") /\ Ask(d, "basic_ack")
    /\ UNCHANGED <<broker, conn, pending, result, pool, past>>

(* An exception of handle_task is a result like any other. *)
HandleTask(d) ==
    /\ thread[d] = "handling"
    /\ handled' = [handled EXCEPT ![d.message] = @ \cup {d.session}]
    /\ \E r \in Result \ {"none"} : result' = [result EXCEPT ![d] = r]
    /\ \/ late_ack /\ Goto(d, "acking") /\ Ask(d, "basic_ack")
       \/ ~late_ack /\ Goto(d, "answering") /\ UNCHANGED outbox
    /\ UNCHANGED <<late_ack, lost_ack, broker, conn, pending, pool>>

(* The response is published, or the reply queue deleted; with no reply_to *)
(* there is nothing to do.                                                 *)
Answer(d) ==
    /\ thread[d] = "answering"
    /\ \/ Goto(d, "sending") /\ Ask(d, "reply")
       \/ Goto(d, "sent") /\ UNCHANGED outbox
    /\ UNCHANGED <<broker, conn, pending, result, pool, past>>

(* os._exit, with whatever the other threads are doing *)
StopAgent(d) ==
    /\ thread[d] = "sent"
    /\ result[d] = "STOP_AGENT"
    /\ conn' = "exited"
    /\ thread' = [x \in Delivery |-> IF thread[x] = "none" THEN "none" ELSE "ended"]
    /\ UNCHANGED <<broker, pending, outbox, result, pool, past>>

(* Mutant: a thread that finds nothing to run next keeps its slot. *)
RunNextKeeps(d) ==
    /\ thread[d] = "sent"
    /\ result[d] # "STOP_AGENT"
    /\ \/ /\ tasks_buffer # <<>>
          /\ tasks_buffer' = Tail(tasks_buffer)
          /\ thread' = [thread EXCEPT ![d] = "ended", ![Head(tasks_buffer)] = "starting"]
       \/ /\ tasks_buffer = <<>>
          /\ Goto(d, "ended")
          /\ UNCHANGED tasks_buffer
    /\ UNCHANGED <<broker, conn, pending, outbox, sem, result, past>>

(* _maybe_run_next_task: the slot passes to the oldest task that waits.    *)
RunNext(d) ==
    /\ thread[d] = "sent"
    /\ result[d] # "STOP_AGENT"
    /\ \/ /\ tasks_buffer # <<>>
          /\ tasks_buffer' = Tail(tasks_buffer)
          /\ thread' = [thread EXCEPT ![d] = "ended", ![Head(tasks_buffer)] = "starting"]
       \/ /\ tasks_buffer = <<>>
          /\ Goto(d, "releasing")
          /\ UNCHANGED tasks_buffer
    /\ UNCHANGED <<broker, conn, pending, outbox, sem, result, past>>

(* Only now is the slot free: a task that came since the buffer was looked *)
(* at has been appended to it.                                             *)
Release(d) ==
    /\ thread[d] = "releasing"
    /\ sem' = sem + 1
    /\ Goto(d, "ended")
    /\ UNCHANGED <<broker, conn, pending, outbox, tasks_buffer, result, past>>

Work(d) == \/ Start(d) \/ HandleTask(d) \/ Answer(d)
           \/ StopAgent(d) \/ RunNext(d) \/ Release(d)

Next == \/ LinkDrops \/ Restart
        \/ Connection
        \/ \E d \in Delivery : Work(d)

Spec == Init /\ [][Next]_vars

(* Threads run, the broker goes on delivering, and whatever supervises the *)
(* process starts it again when it has ended.                              *)
Fairness == /\ WF_vars(\E m \in Message : Deliver(m))
            /\ WF_vars(Connection)
            /\ \A d \in Delivery : WF_vars(Work(d))
            /\ WF_vars(conn \in {"gone", "exited"} /\ Restart)

FairSpec == Spec /\ Fairness

-----------------------------------------------------------------------------
HoldsSlot(d) == thread[d] \notin {"none", "ended", "raised"}

(* While the consumer consumes, every slot of the pool is free or held by  *)
(* exactly one running thread, however slots pass from thread to thread    *)
(* and whatever the connection does (process, _maybe_run_next_task).       *)
SlotsAccountedFor ==
    conn \in {"consuming", "appending", "reconnecting"} =>
        sem + Cardinality({d \in Delivery : HoldsSlot(d)}) = threadpool_size

(* With late_ack a task that was never handled is still with the broker:   *)
(* no crash and no loss of the connection makes it disappear.              *)
AtLeastOnce ==
    late_ack => \A m \in Message : handled[m] = {} => m \in queue \cup unacked

(* Without late_ack a task is handled once at most, over all redeliveries  *)
(* and restarts: an ack that cannot be made keeps its thread from running  *)
(* the task.  The one way around is an ack the connection swallowed.       *)
AtMostOnce ==
    ~late_ack /\ ~lost_ack => \A m \in Message : Cardinality(handled[m]) <= 1

(* No slot is taken and yet a task waits: process() found no slot after    *)
(* the last thread had found no task.  The task waits for another to end.  *)
LeftInBuffer == tasks_buffer # <<>> /\ sem = threadpool_size

(* Messages that do not parse fill the prefetch window for ever.           *)
WindowBlocked == unacked # {} /\ unacked \subseteq Malformed /\ ~WindowOpen

(* Known to nobody: acked early, and its process died before running it.   *)
LostByDeath(m) ==
    /\ ~late_ack
    /\ m \notin queue \cup unacked
    /\ \A d \in Delivery : d.message = m => ~HoldsSlot(d)

(* Every task is handled at last, but for the three ways the code has to   *)
(* leave one: in the buffer, behind malformed messages, or acked by a      *)
(* process that died.  (Or the bound on sessions is reached.)              *)
EveryTaskRuns ==
    \A m \in Message \ Malformed :
        []<>(\/ handled[m] # {}
             \/ LeftInBuffer \/ WindowBlocked \/ LostByDeath(m)
             \/ session = MaxSession /\ conn \in {"gone", "exited"})
=============================================================================
