---------------------- MODULE ExecutionLifecycleProofs ----------------------
(***************************************************************************)
(* How an execution is said to have ended is how it did, for any number of *)
(* calls, errors and processes.                                            *)
(***************************************************************************)
EXTENDS ExecutionLifecycle, TLAPS

(* Where the parent is says what it knows, and what it is about to write.  *)
ParentKnows ==
    /\ parent = "starting" => child = "none" /\ result_queue = <<>>
    /\ parent = "notifying" => seen \in Cancelling
    /\ parent = "succeeding" => child = "returned"
    /\ parent = "cancelling" => /\ asked # "no"
                                /\ child \in {"cancelled", "none"} \/ Forced
    /\ parent = "failing" => child = "raised" \/ broken # "no"
    /\ status \in END_STATES => parent = "done"

(* What lies in the queue is how the child ended. *)
QueueTells ==
    result_queue # <<>> =>
        \/ result_queue = <<"result">> /\ child = "returned"
        \/ result_queue = <<"cancelled">> /\ child = "cancelled"
        \/ result_queue = <<"error">> /\ child = "raised"

(* Nobody gives way to a request that was not made. *)
OnlyIfAsked ==
    /\ status \in Cancelling => asked # "no"
    /\ seen \in Cancelling => asked # "no"
    /\ cancel_request => asked # "no"
    /\ child \in {"leaving_cancelled", "settling", "unwinding_cancelled", "cancelled"}
           => asked # "no"

OutcomeInv == ParentKnows /\ QueueTells /\ OnlyIfAsked /\ OutcomeIsTrue

LEMMA InitOutcome == Init => OutcomeInv
BY DEF Init, OutcomeInv, ParentKnows, QueueTells, OnlyIfAsked, OutcomeIsTrue, Forced,
       Cancelling, END_STATES

LEMMA NextOutcome == OutcomeInv /\ [Next]_vars => OutcomeInv'
<1> USE DEF OutcomeInv, ParentKnows, QueueTells, OnlyIfAsked, OutcomeIsTrue, Forced,
            Cancelling, END_STATES, manager, requests, iteration, workflow
<1> SUFFICES ASSUME OutcomeInv, [Next]_vars PROVE OutcomeInv'
    OBVIOUS
<1>1. CASE \E s \in Cancelling : RequestCancel(s)
      BY <1>1 DEF RequestCancel
<1>2. CASE Crash
      BY <1>2 DEF Crash
<1>3. CASE ChildStep
      <2>1. CASE BeginExecute BY <2>1 DEF BeginExecute, Child
      <2>2. CASE IsFinished BY <2>2 DEF IsFinished, Child
      <2>3. CASE TaskFails BY <2>3 DEF TaskFails, Child
      <2>4. CASE LeaveExecute BY <2>4 DEF LeaveExecute, Child
      <2>5. CASE BeginGet BY <2>5 DEF BeginGet, Child
      <2>6. CASE GetWakes BY <2>6 DEF GetWakes, Child
      <2>7. CASE GetLooks BY <2>7 DEF GetLooks, Child, Back
      <2>8. CASE GetSettles BY <2>8 DEF GetSettles, Child
      <2>9. CASE AuthorCode BY <2>9 DEF AuthorCode, Child
      <2>10. CASE ChildEnds
             <3>1. result_queue = <<>>
                   BY <2>10 DEF ChildEnds
             <3>2. Append(result_queue, "result") = <<"result">>
                   /\ Append(result_queue, "cancelled") = <<"cancelled">>
                   /\ Append(result_queue, "error") = <<"error">>
                   BY <3>1
             <3>. QED BY <2>10, <3>2 DEF ChildEnds, Child
      <2>. QED BY <1>3, <2>1, <2>2, <2>3, <2>4, <2>5, <2>6, <2>7, <2>8, <2>9, <2>10
               DEF ChildStep
<1>4. CASE Respond
      BY <1>4 DEF Respond
<1>5. CASE ParentStep
      <2>1. CASE WorkflowStarted BY <2>1 DEF WorkflowStarted, Parent, Child
      <2>2. CASE CannotRun BY <2>2 DEF CannotRun, Parent
      <2>3. CASE GetMessage
            <3>1. result_queue' = <<>>
                  BY <2>3 DEF GetMessage
            <3>2. \/ parent' = "succeeding" /\ child = "returned"
                  \/ parent' = "cancelling" /\ child = "cancelled"
                  \/ parent' = "failing" /\ child = "raised"
                  BY <2>3 DEF GetMessage, Parent
            <3>. QED BY <2>3, <3>1, <3>2 DEF GetMessage
      <2>4. CASE NoMessage BY <2>4 DEF NoMessage, Parent
      <2>5. CASE AskStatus BY <2>5 DEF AskStatus, Parent
      <2>6. CASE \E f \in Callback : CallCallback(f) BY <2>6 DEF CallCallback
      <2>7. CASE IterationBreaks BY <2>7 DEF IterationBreaks, Parent
      <2>8. CASE Notified BY <2>8 DEF Notified, Parent
      <2>9. CASE WriteStatus BY <2>9 DEF WriteStatus, Parent
      <2>10. CASE CallRaises BY <2>10 DEF CallRaises, Parent
      <2>11. CASE StartRaises BY <2>11 DEF StartRaises, Parent
      <2>12. CASE Exit BY <2>12 DEF Exit, Child, ChildEnded
      <2>. QED BY <1>5, <2>1, <2>2, <2>3, <2>4, <2>5, <2>6, <2>7, <2>8, <2>9, <2>10,
                  <2>11, <2>12 DEF ParentStep
<1>6. CASE UNCHANGED vars
      BY <1>6 DEF vars
<1>. QED BY <1>1, <1>2, <1>3, <1>4, <1>5, <1>6 DEF Next

(* The status of an execution that ended agrees with how its function did, *)
(* whatever was requested meanwhile, raised, or died and was begun again:  *)
(* _handle_remote_workflow never writes one for another.                   *)
THEOREM OutcomesAreTrue == Spec => []OutcomeIsTrue
<1>1. OutcomeInv => OutcomeIsTrue
      BY DEF OutcomeInv
<1>. QED BY InitOutcome, NextOutcome, <1>1, PTL DEF Spec
-----------------------------------------------------------------------------
(* The types need the rest only where the child ends: the queue holds one  *)
(* message at most because it is empty until then.  And a child that is in *)
(* get() has called it.                                                    *)
GetsCounted == child \in {"getting", "got", "settling"} => gets # 0

LEMMA GetsStep ==
    ASSUME TypeOK, GetsCounted, [Next]_vars
    PROVE  GetsCounted'
<1> USE DEF GetsCounted, Child, manager, requests, iteration, workflow
<1>1. CASE \E s \in Cancelling : RequestCancel(s)
      BY <1>1 DEF RequestCancel
<1>2. CASE Crash
      BY <1>2 DEF Crash
<1>3. CASE ChildStep
      <2>1. CASE BeginGet
            BY <2>1 DEF BeginGet, TypeOK
      <2>2. CASE BeginExecute \/ IsFinished \/ TaskFails \/ LeaveExecute
            BY <2>2 DEF BeginExecute, IsFinished, TaskFails, LeaveExecute
      <2>3. CASE GetWakes \/ GetLooks \/ GetSettles
            BY <2>3 DEF GetWakes, GetLooks, GetSettles, Back
      <2>4. CASE AuthorCode \/ ChildEnds
            BY <2>4 DEF AuthorCode, ChildEnds
      <2> QED BY <1>3, <2>1, <2>2, <2>3, <2>4 DEF ChildStep
<1>4. CASE Respond
      BY <1>4 DEF Respond
<1>5. CASE ParentStep
      <2>1. CASE WorkflowStarted \/ CannotRun \/ GetMessage \/ NoMessage \/ AskStatus
            BY <2>1 DEF WorkflowStarted, CannotRun, GetMessage, NoMessage, AskStatus
      <2>2. CASE (\E f \in Callback : CallCallback(f)) \/ IterationBreaks \/ Notified
            BY <2>2 DEF CallCallback, IterationBreaks, Notified
      <2>3. CASE WriteStatus \/ CallRaises \/ StartRaises \/ Exit
            BY <2>3 DEF WriteStatus, CallRaises, StartRaises, Exit
      <2> QED BY <1>5, <2>1, <2>2, <2>3 DEF ParentStep
<1>6. CASE UNCHANGED vars
      BY <1>6 DEF vars
<1> QED BY <1>1, <1>2, <1>3, <1>4, <1>5, <1>6 DEF Next

LEMMA LastMessage ==
    ASSUME OutcomeInv, GetMessage
    PROVE  result_queue' = <<>>
BY DEF OutcomeInv, QueueTells, GetMessage

LEMMA TypesStep ==
    ASSUME TypeOK, GetsCounted, OutcomeInv, [Next]_vars
    PROVE  TypeOK'
<1> USE LifecycleAssumption
    DEF TypeOK, Callback, GraphEvent, manager, requests, iteration, workflow
<1>1. CASE \E s \in Cancelling : RequestCancel(s)
      BY <1>1 DEF RequestCancel, Status, Cancelling
<1>2. CASE Crash
      <2>1. life' \in 1..MaxLife
            BY <1>2 DEF Crash
      <2>2. parent' \in ParentState /\ seen' \in Status /\ child' \in ChildState
            BY <1>2 DEF Crash, Status, ParentState, ChildState
      <2>3. /\ callbacks' \subseteq Callback
            /\ iterated' \subseteq Callback
            /\ visited' \subseteq Callback
            /\ events' \subseteq 1..MaxGet
            /\ answered' \subseteq 1..MaxGet
            /\ gets' \in 0..MaxGet
            BY <1>2 DEF Crash
      <2> QED BY <1>2, <2>1, <2>2, <2>3 DEF Crash
<1>3. CASE ChildStep
      <2>1. CASE BeginExecute BY <2>1 DEF BeginExecute, Child, ChildState
      <2>2. CASE IsFinished BY <2>2 DEF IsFinished, Child, ChildState
      <2>3. CASE TaskFails BY <2>3 DEF TaskFails, Child, ChildState
      <2>4. CASE LeaveExecute BY <2>4 DEF LeaveExecute, Child, ChildState
      <2>5. CASE BeginGet BY <2>5 DEF BeginGet, Child, ChildState
      <2>6. CASE GetWakes BY <2>6 DEF GetWakes, Child, ChildState
      <2>7. CASE GetLooks BY <2>7 DEF GetLooks, Child, Back, ChildState
      <2>8. CASE GetSettles BY <2>8 DEF GetSettles, Child, ChildState, GetsCounted
      <2>9. CASE AuthorCode BY <2>9 DEF AuthorCode, Child, ChildState
      <2>10. CASE ChildEnds
             <3>1. result_queue = <<>>
                   BY <2>10 DEF ChildEnds, OutcomeInv, QueueTells
             <3>2. result_queue' \in {<<"result">>, <<"cancelled">>, <<"error">>}
                   BY <2>10, <3>1 DEF ChildEnds
             <3> QED BY <2>10, <3>2 DEF ChildEnds, Child, ChildState, ChildEnded
      <2> QED BY <1>3, <2>1, <2>2, <2>3, <2>4, <2>5, <2>6, <2>7, <2>8, <2>9, <2>10
                 DEF ChildStep
<1>4. CASE Respond
      BY <1>4 DEF Respond, GetsCounted
<1>5. CASE ParentStep
      <2>1. CASE WorkflowStarted BY <2>1 DEF WorkflowStarted, Parent, ParentState, Child, ChildState, Status
      <2>2. CASE CannotRun BY <2>2 DEF CannotRun, Parent, ParentState
      <2>3. CASE GetMessage
            <3>1. result_queue' = <<>>
                  BY <2>3, LastMessage
            <3> QED BY <2>3, <3>1 DEF GetMessage, Parent, ParentState
      <2>4. CASE NoMessage BY <2>4 DEF NoMessage, Parent, ParentState
      <2>5. CASE AskStatus BY <2>5 DEF AskStatus, Parent, ParentState
      <2>6. CASE IterationBreaks BY <2>6 DEF IterationBreaks, Parent, ParentState
      <2>7. CASE Notified BY <2>7 DEF Notified, Parent, ParentState
      <2>8. CASE WriteStatus BY <2>8 DEF WriteStatus, Parent, ParentState, Status, END_STATES
      <2>9. CASE CallRaises BY <2>9 DEF CallRaises, Parent, ParentState
      <2>10. CASE StartRaises BY <2>10 DEF StartRaises, Parent, ParentState, Status
      <2>11. CASE Exit BY <2>11 DEF Exit, Child, ChildState
      <2>12. CASE \E f \in Callback : CallCallback(f)
             BY <2>12 DEF CallCallback
      <2> QED BY <1>5, <2>1, <2>2, <2>3, <2>4, <2>5, <2>6, <2>7, <2>8, <2>9, <2>10, <2>11, <2>12
                 DEF ParentStep
<1>6. CASE UNCHANGED vars
      BY <1>6 DEF vars
<1> QED BY <1>1, <1>2, <1>3, <1>4, <1>5, <1>6 DEF Next

(* The types of the state, and with them the bounds: one message in the    *)
(* queue at most, since the child forwards one end                         *)
(* (_remote_workflow_child_thread).                                        *)
THEOREM TypeCorrect == Spec => []TypeOK
<1>1. ASSUME Init PROVE TypeOK
      <2>1. /\ restoring \in BOOLEAN
            /\ status \in Status
            /\ parent \in ParentState
            /\ seen \in Status
            /\ child \in ChildState
            BY <1>1 DEF Init, Status, ParentState, ChildState
      <2>2. life \in 1..MaxLife /\ gets \in 0..MaxGet /\ errors \in 0..MaxError
            BY <1>1, LifecycleAssumption DEF Init
      <2> QED BY <1>1, <2>1, <2>2 DEF Init, TypeOK
<1>2. Init => TypeOK /\ GetsCounted /\ OutcomeInv
      BY <1>1, InitOutcome DEF Init, GetsCounted
<1>3. (TypeOK /\ GetsCounted /\ OutcomeInv) /\ [Next]_vars
          => (TypeOK /\ GetsCounted /\ OutcomeInv)'
      BY NextOutcome, GetsStep, TypesStep
<1> QED BY <1>2, <1>3, PTL DEF Spec
=============================================================================
